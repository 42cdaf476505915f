-------------------------- MODULE MCSquadLifecycle --------------------------
(***************************************************************************)
(* Values for model-checking SquadLifecycle.                                *)
(***************************************************************************)
EXTENDS SquadLifecycle, TLC

CONSTANTS ann, bob,      \* two players
          slot, other    \* two groups the slot's player may be in
=============================================================================
