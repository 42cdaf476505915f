------------------------------ MODULE MCCampaign -----------------------------
(***************************************************************************)
(* Values for model-checking Campaign.                                      *)
(***************************************************************************)
EXTENDS Campaign

CONSTANT agia       \* an Objective
=============================================================================
