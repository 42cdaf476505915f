-------------------------- MODULE MCEffectDelivery --------------------------
(***************************************************************************)
(* Values for model-checking EffectDelivery.                                *)
(***************************************************************************)
EXTENDS EffectDelivery, TLC

CONSTANTS player,   \* an enrolment: refused while its player is away
          slow,     \* the transient failure the pump has a branch for, then refused
          huge      \* does not fit a reply at all

MCVerdicts ==
  [e \in Effects |-> CASE e = player -> {"applied", "refused"}
                       [] e = slow   -> {"deferred", "refused"}
                       [] OTHER      -> {"applied"}]

\* The two that fit do not fit one reply together, two of the smaller do.
MCSize == [e \in Effects |-> CASE e = player -> 1 [] e = slow -> 2 [] OTHER -> 3]
=============================================================================
