---------------------------- MODULE MCController ----------------------------
(***************************************************************************)
(* Instances of Controller.tla for TLC: two Work Items that share a        *)
(* resource or not, two processes, one crash.                              *)
(***************************************************************************)
EXTENDS Controller

CONSTANTS i1, i2, p1, p2, a1, s, t, other

NoBlocks   == [i \in WorkItems |-> {}]
NoResource == [i \in WorkItems |-> {}]
Order      == <<i1, i2>>
Order1     == <<i1>>
Symmetry   == Permutations(Procs)
Published  == <<a1>>

\* Evidence that names one SHA throughout, as far as it goes.
Cleared(c) == [NoEvidence EXCEPT
    !["candidate"] = c, !["reviewed"] = c, !["review"] = "cleared",
    !["reviewer"] = other, !["adjudicated"] = c,
    !["adjudication"] = "cleared", !["gated"] = c, !["gate"] = "passed"]

Doc(fail, ev) == [RunOf(None, "running") EXCEPT !.fail = fail, !.ev = ev]

DeliveryDocs == {Doc(None, Cleared(s)), Doc("assertion_failed", NoEvidence)}

ResultDocs ==
    {Doc("interrupted", NoEvidence)}
      \cup {Doc(None, [Cleared(c) EXCEPT !["landed"] = c, !["closed"] = c]) : c \in {s, t}}
=============================================================================
