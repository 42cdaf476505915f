--------------------------- MODULE MCSnapshotStore ---------------------------
(***************************************************************************)
(* Values for model-checking SnapshotStore: the bounds are in the cfg files. *)
(***************************************************************************)
EXTENDS SnapshotStore
=============================================================================
