---------------------------- MODULE MCCheckpoint ----------------------------
(***************************************************************************)
(* Values for model-checking Checkpoint.                                    *)
(***************************************************************************)
EXTENDS Checkpoint

CONSTANTS hand, timer     \* two callers of checkpoint_now
=============================================================================
