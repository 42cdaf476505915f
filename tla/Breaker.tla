------------------------------ MODULE Breaker ------------------------------
(***************************************************************************)
(* The lane breaker (tools/breaker.py): a trip policy over the typed       *)
(* outcomes of one lane's dispatches and over readings of its quota feed.  *)
(* The module is the pure core, with no variables: what one outcome, one   *)
(* reading or the passing of time makes of a circuit.  Dispatch.tla keeps  *)
(* the circuit of a lane in a file that dispatches read and write back.    *)
(***************************************************************************)
EXTENDS Integers

CONSTANTS
    None,           \* no published boundary, no value
    ConsecutiveN    \* how many in a row trip a lane (3 in the code)

ASSUME ConsecutiveAssumption == ConsecutiveN \in Nat \ {0}

Rules == {"quota", "provider_errors", "quality"}

\* LANE_RULES, field by field.
On == [r \in Rules |-> CASE r = "quota"           -> {"quota_exhausted"}
                         [] r = "provider_errors" -> {"provider_error"}
                         [] r = "quality" -> {"gate_failed", "provider_refused"}]
Limit     == [r \in Rules |-> IF r = "quota" THEN 1 ELSE ConsecutiveN]
AutoReset == {"quota"}
Escalates == {"provider_errors", "quality"}
Quality   == {"quality"}

Closed == [state |-> "closed", rule |-> None, reset |-> None,
           escalated |-> FALSE, streaks |-> [r \in Rules |-> 0]]

\* An outcome is [name, reset]; the reset is a boundary the provider published.
Outcome(name, reset) == [name |-> name, reset |-> reset]

\* Fault: the newest rule to trip always has the lane.
TripAnew(c, moved, r, o) ==
    [state |-> "open", rule |-> r, reset |-> IF r \in AutoReset THEN o.reset ELSE None,
     escalated |-> r \in Escalates, streaks |-> moved.streaks]

Trip(c, moved, r, o) ==
    IF c.state = "open" /\ c.escalated /\ r \notin Escalates THEN moved
    ELSE [state |-> "open", rule |-> r,
          reset |-> IF r \in AutoReset THEN o.reset ELSE None,
          escalated |-> r \in Escalates, streaks |-> moved.streaks]

\* Fault: a rule trips one outcome early.
AdvanceEarly(c, o) ==
    LET moved == [c EXCEPT !.streaks =
                    [r \in Rules |-> IF o.name \in On[r] THEN @[r] + 1 ELSE 0]]
        reached == {r \in Rules : /\ o.name \in On[r]
                                  /\ moved.streaks[r] + 1 >= Limit[r]}
    IN CASE o.name = "unclassified" -> c
         [] o.name = "ok" -> IF c.state = "half_open" THEN Closed
                             ELSE [c EXCEPT !.streaks = Closed.streaks]
         [] OTHER -> IF reached = {} THEN moved
                     ELSE Trip(c, moved, CHOOSE r \in reached : TRUE, o)

Advance(c, o) ==
    LET moved == [c EXCEPT !.streaks =
                    [r \in Rules |-> IF o.name \in On[r] THEN @[r] + 1 ELSE 0]]
        reached == {r \in Rules : /\ o.name \in On[r]
                                  /\ moved.streaks[r] >= Limit[r]}
    IN CASE o.name = "unclassified" -> c
         [] o.name = "ok" -> IF c.state = "half_open" THEN Closed
                             ELSE [c EXCEPT !.streaks = Closed.streaks]
         [] OTHER -> IF reached = {} THEN moved
                     ELSE Trip(c, moved, CHOOSE r \in reached : TRUE, o)

\* The published boundary has arrived.
Settle(c, now) ==
    IF c.state = "open" /\ c.reset # None /\ c.rule \in AutoReset
         /\ now >= c.reset
    THEN [c EXCEPT !.state = "half_open"]
    ELSE c

Conducting(c) == c.state # "open"

\* A first-party reading: "none" where nobody answered or the feed is an
\* estimate, else "healthy" or "exhausted" with the published reset.
ApplyReading(c, reading, reset) ==
    CASE reading = "none" -> c
      [] reading = "exhausted" -> Advance(c, Outcome("quota_exhausted", reset))
      [] OTHER -> IF c.state # "open" \/ c.rule \in Quality THEN c ELSE Closed

\* A read of a lane held on availability with no boundary asks the feed.
HeldAvailability(c) ==
    c.state = "open" /\ c.reset = None /\ c.rule \notin Quality
=============================================================================
