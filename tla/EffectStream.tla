---------------------------- MODULE EffectStream ----------------------------
(***************************************************************************)
(* What the outbox promises a Campaign, with no wire in it: the Effects a   *)
(* daemon issues are carried out by the world in the order they were        *)
(* issued, none skipped, and one is retired only once it has been carried   *)
(* out (applied, or dead-lettered for good).  The promise ends with the     *)
(* Campaign: a world that hears from another daemon is frozen for ever.     *)
(***************************************************************************)
EXTENDS Naturals

CONSTANT MaxIssued      \* a natural number: the bound on the Effects one Campaign issues

VARIABLES issued,       \* how many Effects the Campaign has issued
          queued,       \* those the daemon still holds for delivery
          carried,      \* those the world has carried out
          live          \* the world still belongs to this daemon's Campaign

vars == <<issued, queued, carried, live>>

Init == issued = 0 /\ queued = {} /\ carried = {} /\ live = TRUE

Issue ==
  /\ live /\ issued < MaxIssued
  /\ issued' = issued + 1
  /\ queued' = queued \union {issued + 1}
  /\ UNCHANGED <<carried, live>>

CarryOut ==
  /\ live
  /\ \E s \in queued \ carried :
       /\ 1..(s - 1) \subseteq carried
       /\ carried' = carried \union {s}
  /\ UNCHANGED <<issued, queued, live>>

Retire ==
  /\ live
  /\ \E through \in 1..issued :
       /\ 1..through \subseteq carried
       /\ queued' = {s \in queued : s > through}
  /\ UNCHANGED <<issued, carried, live>>

\* A daemon that dies before any world has heard from it takes its stream along.
StartAgain ==
  /\ live /\ carried = {}
  /\ issued' = 0 /\ queued' = {}
  /\ UNCHANGED <<carried, live>>

Freeze ==
  /\ live /\ live' = FALSE
  /\ issued' = 0 /\ queued' = {} /\ carried' = {}

Next == Issue \/ CarryOut \/ Retire \/ StartAgain \/ Freeze

Spec == Init /\ [][Next]_vars
=============================================================================
