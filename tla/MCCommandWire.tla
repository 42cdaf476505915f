---------------------------- MODULE MCCommandWire ----------------------------
(***************************************************************************)
(* Values for model-checking CommandWire.                                   *)
(***************************************************************************)
EXTENDS CommandWire

CONSTANTS a, b, c     \* lines on the kept connection, or of their own
=============================================================================
