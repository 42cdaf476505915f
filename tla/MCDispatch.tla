----------------------------- MODULE MCDispatch -----------------------------
(***************************************************************************)
(* Instances of Dispatch.tla for TLC: dispatches of one tree.              *)
(***************************************************************************)
EXTENDS Dispatch, TLC

CONSTANTS d1, d2, d3, tree

OneTree  == [d \in Dispatches |-> tree]
Symmetry == Permutations(Dispatches)
=============================================================================
