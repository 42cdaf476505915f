------------------------------ MODULE MCLanding -----------------------------
(***************************************************************************)
(* Instances of Landing.tla for TLC: the worktrees of two issues.          *)
(***************************************************************************)
EXTENDS Landing, TLC

CONSTANTS t1, t2, x, y, f, w1, w2

Symmetry == Permutations(Trees) \union Permutations(Diffs) \union Permutations(Writers)
=============================================================================
