--------------------------- MODULE Dispatch_proofs ---------------------------
(***************************************************************************)
(* What is proved of Dispatch for any dispatches, trees and bounds, any    *)
(* number of outcomes in a row that trips a lane, and any boundaries.      *)
(***************************************************************************)
EXTENDS Dispatch, TLAPS

\* How far a runner got, and what that says of its child and its result.
RunnerSound ==
    \A d \in Dispatches :
        /\ plan[d] # "recorded" =>
               runner[d] = "absent" /\ stopper[d] = "idle" /\ result[d] = None
        /\ runner[d] \in {"absent", "ready"} => child[d] = "none"
        /\ runner[d] = "recording" => child[d] # "live"
        /\ runner[d] = "closing" => child[d] # "live" \/ status[d] = "child_state_unknown"
        /\ (status[d] # None) <=> (runner[d] = "closing")
        /\ status[d] = "child_not_launched" => child[d] = "none"
        /\ status[d] # "stopped"
        /\ result[d] = "child_not_launched" => child[d] = "none"
        /\ result[d] \notin {None, "stopped"} => runner[d] = "gone"
        /\ result[d] \notin {None, "stopped", "child_state_unknown"} => child[d] # "live"

\* Only a planner that has read the lane or a runner that records an outcome has
\* something to write.
WriterSound ==
    /\ \A w \in Writers : writing[w] # "idle" => pending[w] # None
    /\ \A d \in Dispatches : pending[d] # None =>
           plan[d] \in {"lane", "refused"} \/ runner[d] = "recording"

\* What a stop is ending has no process, and will have none unless it came early.
StopSound ==
    \A d \in Dispatches :
        stopper[d] \in {"ending", "writing"} \/ result[d] = "stopped" =>
            \/ d \in early
            \/ child[d] # "live" /\ d \notin strays /\ runner[d] \notin {"absent", "ready"}

\* The outcomes counted are behind every streak and every trip of a circuit.
Evidence(c, n) ==
    /\ \A r \in Rules : c.streaks[r] <= n[r] \/ n[r] >= Limit[r]
    /\ c.state # "closed" =>
          /\ c.rule \in Rules /\ n[c.rule] >= Limit[c.rule]
          /\ c.escalated => c.rule \in Escalates

\* What a content makes of an escalated circuit, if the file has not changed since its
\* writer read it.
Stands(c) == c.state = "open" /\ c.escalated

Keeps(c, u) ==
    Stands(c) => \/ Stands(u.put) \/ u.op \in {"clear", "empty", "torn"}
                 \/ u.op = "reading" /\ c.rule \notin Quality

Backed(u, c, n) == u # None => Evidence(u.put, n) /\ (~u.stale => Keeps(c, u))

LaneSound ==
    /\ Evidence(circuit, counted)
    /\ Backed(scratch, circuit, counted)
    /\ \A w \in Writers : Backed(pending[w], circuit, counted)

IInv == TypeOK /\ RunnerSound /\ WriterSound /\ StopSound /\ LaneSound
-----------------------------------------------------------------------------
(* The lane's circuit.                                                      *)

Tally(n, name) ==
    [r \in Rules |-> IF name \in On[r] /\ n[r] < Limit[r] THEN n[r] + 1 ELSE n[r]]

\* Every rule asks for at least one outcome, and quota waits for no human.
LEMMA RuleFacts ==
  /\ \A r \in Rules : Limit[r] \in Nat \ {0}
  /\ Escalates \subseteq Rules /\ AutoReset \subseteq Rules
  /\ Escalates \cap AutoReset = {} /\ Closed \in Circuits
BY ConsecutiveAssumption DEF Limit, Escalates, AutoReset, Rules, Closed, Circuits

LEMMA TallyType ==
  ASSUME NEW n \in [Rules -> Nat], NEW name
  PROVE  /\ Tally(n, name) \in [Rules -> Nat]
         /\ \A r \in Rules : Tally(n, name)[r] >= n[r]
BY DEF Tally

\* Counting another outcome takes no evidence away.
LEMMA EvidenceGrows ==
  ASSUME NEW c \in Circuits, NEW n \in [Rules -> Nat], NEW m \in [Rules -> Nat],
         Evidence(c, n), \A r \in Rules : m[r] >= n[r]
  PROVE  Evidence(c, m)
<1>1. \A r \in Rules : c.streaks[r] \in Nat /\ Limit[r] \in Nat
  BY RuleFacts DEF Circuits
<1> QED BY <1>1 DEF Evidence

\* Nothing is owed by a circuit that is closed with no streak.
LEMMA ClosedEvidence ==
  ASSUME NEW n \in [Rules -> Nat] PROVE Evidence(Closed, n)
BY DEF Evidence, Closed

\* The published boundary turns no escalated circuit half-open.
LEMMA SettleKeeps ==
  ASSUME NEW c \in Circuits, NEW n \in [Rules -> Nat], NEW now, Evidence(c, n)
  PROVE  /\ Settle(c, now) \in Circuits /\ Evidence(Settle(c, now), n)
         /\ Settle(c, now).rule = c.rule
         /\ Stands(c) => Settle(c, now) = c
<1>1. CASE Settle(c, now) = c
  BY <1>1
<1>2. CASE Settle(c, now) # c
  <2>1. /\ Settle(c, now) = [c EXCEPT !.state = "half_open"]
        /\ c.state = "open" /\ c.rule \in AutoReset
    BY <1>2 DEF Settle
  <2>2. ~c.escalated
    BY <2>1, RuleFacts DEF Evidence
  <2> QED BY <2>1, <2>2 DEF Circuits, Evidence, Stands
<1> QED BY <1>1, <1>2

\* One outcome: a rule trips on no fewer than it asks for, and none replaces a trip
\* that a human was called for by one that waits.
LEMMA AdvanceKeeps ==
  ASSUME NEW c \in Circuits, NEW n \in [Rules -> Nat], Evidence(c, n),
         NEW name, NEW reset \in Resets \cup {None}
  PROVE  LET new == Advance(c, Outcome(name, reset))
         IN  /\ new \in Circuits /\ Evidence(new, Tally(n, name))
             /\ Stands(c) => Stands(new)
<1> DEFINE o == Outcome(name, reset)
           streaks == [r \in Rules |-> IF name \in On[r] THEN c.streaks[r] + 1 ELSE 0]
           moved == [c EXCEPT !.streaks = streaks]
           reached == {r \in Rules : name \in On[r] /\ moved.streaks[r] >= Limit[r]}
           new == Advance(c, o)
<1>1. o.name = name /\ o.reset = reset
  BY DEF Outcome
<1>2. \/ new = c \/ new = [c EXCEPT !.streaks = Closed.streaks] \/ new = moved
      \/ (c.state = "half_open" /\ new = Closed)
      \/ \E r \in reached : new = Trip(c, moved, r, o)
  <2>1. reached # {} => (CHOOSE r \in reached : TRUE) \in reached
    OBVIOUS
  <2> QED BY <1>1, <2>1, Zenon DEF Advance
<1>3. /\ c.streaks \in [Rules -> Nat] /\ streaks \in [Rules -> Nat]
      /\ \A r \in Rules : Limit[r] \in Nat \ {0}
  BY RuleFacts DEF Circuits
<1>4. Evidence(c, Tally(n, name))
  BY EvidenceGrows, TallyType
<1>5. /\ moved \in Circuits /\ moved.streaks = streaks /\ moved.state = c.state
      /\ moved.rule = c.rule /\ moved.escalated = c.escalated
  BY <1>3 DEF Circuits
<1>6. ASSUME NEW r \in Rules
      PROVE  /\ streaks[r] <= Tally(n, name)[r] \/ Tally(n, name)[r] >= Limit[r]
             /\ r \in reached => Tally(n, name)[r] >= Limit[r]
  <2>1. c.streaks[r] <= n[r] \/ n[r] >= Limit[r]
    BY DEF Evidence
  <2>2. Tally(n, name)[r] = IF name \in On[r] /\ n[r] < Limit[r] THEN n[r] + 1 ELSE n[r]
    BY DEF Tally
  <2>3. streaks[r] = IF name \in On[r] THEN c.streaks[r] + 1 ELSE 0
    OBVIOUS
  <2>4. c.streaks[r] \in Nat /\ n[r] \in Nat /\ Limit[r] \in Nat
    BY <1>3
  <2>5. r \in reached => streaks[r] >= Limit[r] /\ name \in On[r]
    BY <1>5
  <2> HIDE DEF streaks, reached
  <2> QED BY <2>1, <2>2, <2>3, <2>4, <2>5
<1>7. Evidence(moved, Tally(n, name))
  BY <1>4, <1>5, <1>6 DEF Evidence
<1>8. CASE new = c
  BY <1>4, <1>8
<1>9. CASE new = [c EXCEPT !.streaks = Closed.streaks]
  <2>1. /\ new \in Circuits /\ new.state = c.state /\ new.rule = c.rule
        /\ new.escalated = c.escalated /\ \A r \in Rules : new.streaks[r] = 0
    BY <1>9 DEF Circuits, Closed
  <2> QED BY <1>4, <2>1, TallyType DEF Evidence, Stands
<1>10. CASE new = moved
  BY <1>5, <1>7, <1>10 DEF Stands
<1>11. CASE c.state = "half_open" /\ new = Closed
  BY <1>11, RuleFacts, ClosedEvidence, TallyType DEF Stands
<1>12. ASSUME NEW r \in reached, new = Trip(c, moved, r, o)
       PROVE  /\ new \in Circuits /\ Evidence(new, Tally(n, name))
              /\ Stands(c) => Stands(new)
  <2>1. CASE Stands(c) /\ r \notin Escalates
    <3>1. new = moved
      BY <1>12, <2>1 DEF Trip, Stands
    <3> QED BY <1>5, <1>7, <3>1 DEF Stands
  <2>2. CASE ~(Stands(c) /\ r \notin Escalates)
    <3>1. /\ new.state = "open" /\ new.rule = r /\ new.escalated = (r \in Escalates)
          /\ new.streaks = streaks /\ new \in Circuits
      BY <1>1, <1>3, <1>5, <1>12, <2>2 DEF Trip, Stands, Circuits
    <3>2. r \in Rules /\ Tally(n, name)[r] >= Limit[r]
      BY <1>6
    <3> HIDE DEF streaks
    <3>3. Evidence(new, Tally(n, name))
      BY <1>6, <3>1, <3>2 DEF Evidence
    <3> QED BY <2>2, <3>1, <3>3 DEF Stands
  <2> QED BY <2>1, <2>2
<1> HIDE DEF new, moved, reached
<1> QED BY <1>2, <1>8, <1>9, <1>10, <1>11, <1>12 DEF new, o
\* A reading: what it trips it counts, and only an availability trip is closed by it.
LEMMA ReadingKeeps ==
  ASSUME NEW c \in Circuits, NEW n \in [Rules -> Nat], Evidence(c, n),
         NEW reading, NEW reset \in Resets \cup {None}
  PROVE  LET new == ApplyReading(c, reading, reset)
             m == IF reading = "exhausted" THEN Tally(n, "quota_exhausted") ELSE n
         IN  /\ new \in Circuits /\ Evidence(new, m)
             /\ Stands(c) => Stands(new) \/ c.rule \notin Quality
<1>1. CASE reading = "none"
  BY <1>1 DEF ApplyReading
<1>2. CASE reading = "exhausted"
  BY <1>2, AdvanceKeeps DEF ApplyReading
<1>3. CASE reading \notin {"none", "exhausted"}
  <2>1. ApplyReading(c, reading, reset)
          = IF c.state # "open" \/ c.rule \in Quality THEN c ELSE Closed
    BY <1>3 DEF ApplyReading
  <2> QED BY <1>3, <2>1, ClosedEvidence, RuleFacts DEF Stands
<1> QED BY <1>1, <1>2, <1>3

-----------------------------------------------------------------------------
(* Updates of the lane.                                                     *)

LaneType ==
    /\ file \in Contents /\ scratch \in Contents \cup {None}
    /\ pending \in [Writers -> Contents \cup {None}]
    /\ writing \in [Writers -> {"idle", "open", "moved", "cut", "full"}]
    /\ counted \in [Rules -> Nat]

LaneInv == LaneType /\ LaneSound

\* What a file that cannot be parsed is read as.
LEMMA Unread ==
  /\ Fresh \in Contents /\ Empty \in Contents /\ Torn \in Contents
  /\ Torn.op = "torn" /\ Empty.op = "empty" /\ Fresh.put = Closed
  /\ \A c, n : n \in [Rules -> Nat] => Backed(Empty, c, n) /\ Backed(Torn, c, n)
BY RuleFacts, ClosedEvidence DEF Fresh, Empty, Torn, Content, Contents, Backed, Keeps

\* More outcomes counted take nothing from a content, read or to be written.
LEMMA BackedGrows ==
  ASSUME NEW u \in Contents \cup {None}, NEW c, NEW n \in [Rules -> Nat],
         NEW m \in [Rules -> Nat], Backed(u, c, n), \A r \in Rules : m[r] >= n[r]
  PROVE  Backed(u, c, m)
<1>1. CASE u = None
  BY <1>1 DEF Backed
<1>2. CASE u # None
  <2>1. u.put \in Circuits /\ Evidence(u.put, n)
    BY <1>2 DEF Backed, Contents
  <2> QED BY <1>2, <2>1, EvidenceGrows DEF Backed
<1> QED BY <1>1, <1>2

\* A content the file has overtaken says nothing of what the file holds now.
LEMMA OvertakenBacked ==
  ASSUME NEW u \in Contents \cup {None}, NEW n, Backed(u, circuit, n)
  PROVE  Overtaken(u) \in Contents \cup {None} /\ Backed(Overtaken(u), circuit', n)
<1>1. CASE u = None
  BY <1>1 DEF Overtaken, Backed
<1>2. CASE u # None
  <2>1. /\ Overtaken(u) = [u EXCEPT !.stale = @ \/ file'.put # file.put]
        /\ u \in Contents
    BY <1>2 DEF Overtaken
  <2>2. /\ Overtaken(u) \in Contents /\ Overtaken(u).op = u.op /\ Overtaken(u).put = u.put
        /\ Overtaken(u).stale = (u.stale \/ file'.put # file.put)
    BY <2>1 DEF Contents
  <2>3. Evidence(u.put, n) /\ (~u.stale => Keeps(file.put, u))
    BY <1>2 DEF Backed, circuit
  <2> QED BY <2>2, <2>3 DEF Backed, Keeps, circuit
<1> QED BY <1>1, <1>2

\* Updates change while the file and its scratch copy stay, and more may be counted.
LEMMA UpdatesKeep ==
  ASSUME LaneInv, UNCHANGED <<file, scratch>>,
         counted' \in [Rules -> Nat], \A r \in Rules : counted'[r] >= counted[r],
         writing' \in [Writers -> {"idle", "open", "moved", "cut", "full"}],
         DOMAIN pending' = Writers, pending' = [v \in Writers |-> pending'[v]],
         \A v \in Writers : \/ pending'[v] \in {None, pending[v]}
                            \/ pending'[v] \in Contents /\ Backed(pending'[v], circuit, counted')
  PROVE  LaneInv'
<1>1. /\ pending \in [Writers -> Contents \cup {None}] /\ scratch \in Contents \cup {None}
      /\ counted \in [Rules -> Nat] /\ circuit \in Circuits /\ circuit' = circuit
  BY DEF LaneInv, LaneType, Contents, circuit
<1>2. ASSUME NEW v \in Writers
      PROVE  pending'[v] \in Contents \cup {None} /\ Backed(pending'[v], circuit, counted')
  <2>1. CASE pending'[v] = None
    BY <2>1 DEF Backed
  <2>2. CASE pending'[v] = pending[v]
    BY <1>1, <2>2, BackedGrows DEF LaneInv, LaneSound
  <2> QED BY <2>1, <2>2
<1>3. Evidence(circuit, counted') /\ Backed(scratch, circuit, counted')
  BY <1>1, EvidenceGrows, BackedGrows DEF LaneInv, LaneSound
<1>4. pending' \in [Writers -> Contents \cup {None}]
  BY <1>2
<1> QED BY <1>1, <1>2, <1>3, <1>4 DEF LaneInv, LaneType, LaneSound

\* An update is put down.
LEMMA PutKeeps ==
  ASSUME LaneInv, NEW w \in Writers, NEW op \in {"outcome", "reading", "settle", "clear"},
         NEW new \in Circuits, Put(w, op, new), UNCHANGED <<file, scratch, writing>>,
         counted' \in [Rules -> Nat], \A r \in Rules : counted'[r] >= counted[r],
         Evidence(new, counted'), Keeps(circuit, Content(op, new))
  PROVE  LaneInv'
<1> DEFINE u == Content(op, new)
<1>2. u \in Contents /\ u.put = new
  BY DEF Contents, Content
<1>3. pending' = [pending EXCEPT ![w] = u] /\ pending \in [Writers -> Contents \cup {None}]
  BY DEF Put, LaneInv, LaneType
<1>4. Backed(u, circuit, counted')
  BY DEF Content, Backed
<1> HIDE DEF u
<1>5. \A v \in Writers : \/ pending'[v] \in {None, pending[v]}
                         \/ pending'[v] \in Contents /\ Backed(pending'[v], circuit, counted')
  BY <1>2, <1>3, <1>4
<1>6. DOMAIN pending' = Writers /\ pending' = [v \in Writers |-> pending'[v]]
  BY <1>3
<1>7. writing' \in [Writers -> {"idle", "open", "moved", "cut", "full"}]
  BY DEF LaneInv, LaneType
<1> QED BY <1>5, <1>6, <1>7, UpdatesKeep

\* Nothing is put down, or an update is dropped with its writer.
LEMMA DropKeeps ==
  ASSUME LaneInv, UNCHANGED <<file, scratch>>,
         counted' \in [Rules -> Nat], \A r \in Rules : counted'[r] >= counted[r],
         NEW w \in Writers, DropUpdate(w) \/ UNCHANGED updates
  PROVE  LaneInv'
<1>1. /\ pending \in [Writers -> Contents \cup {None}]
      /\ writing \in [Writers -> {"idle", "open", "moved", "cut", "full"}]
  BY DEF LaneInv, LaneType
<1>2. \A v \in Writers : pending'[v] \in {None, pending[v]}
  BY <1>1 DEF DropUpdate, updates
<1>3. DOMAIN pending' = Writers /\ pending' = [v \in Writers |-> pending'[v]]
  BY <1>1 DEF DropUpdate, updates
<1>4. writing' \in [Writers -> {"idle", "open", "moved", "cut", "full"}]
  BY <1>1 DEF DropUpdate, updates
<1> QED BY <1>2, <1>3, <1>4, UpdatesKeep

LEMMA OutcomeKeeps ==
  ASSUME LaneInv, NEW w \in Writers, NEW o, o.reset \in Resets \cup {None},
         o = Outcome(o.name, o.reset), ReadForOutcome(w, o),
         UNCHANGED <<file, scratch, writing>>
  PROVE  LaneInv'
<1> DEFINE now == Settle(circuit, clock)
           new == Advance(now, o)
<1>1. /\ counted' = Tally(counted, o.name)
      /\ IF new = circuit THEN UNCHANGED pending ELSE Put(w, "outcome", new)
  BY DEF ReadForOutcome, Count, Tally
<1>2. circuit \in Circuits /\ counted \in [Rules -> Nat] /\ Evidence(circuit, counted)
  BY DEF LaneInv, LaneType, LaneSound, Contents, circuit
<1>3. counted' \in [Rules -> Nat] /\ \A r \in Rules : counted'[r] >= counted[r]
  BY <1>1, <1>2, TallyType
<1>4. now \in Circuits /\ Evidence(now, counted) /\ (Stands(circuit) => now = circuit)
  BY <1>2, SettleKeeps
<1>5. /\ new \in Circuits /\ Evidence(new, counted')
      /\ Stands(circuit) => Stands(new)
  <2> HIDE DEF now
  <2>1. /\ Advance(now, Outcome(o.name, o.reset)) \in Circuits
        /\ Evidence(Advance(now, Outcome(o.name, o.reset)), Tally(counted, o.name))
        /\ Stands(now) => Stands(Advance(now, Outcome(o.name, o.reset)))
    BY <1>2, <1>4, AdvanceKeeps
  <2> QED BY <1>1, <1>4, <2>1
<1> HIDE DEF new
<1>6. CASE new = circuit
  <2>1. UNCHANGED updates
    BY <1>1, <1>6 DEF updates
  <2> QED BY <1>3, <2>1, DropKeeps
<1>7. CASE Put(w, "outcome", new)
  <2>1. Keeps(circuit, Content("outcome", new))
    BY <1>5 DEF Keeps, Content
  <2> QED BY <1>3, <1>5, <1>7, <2>1, PutKeeps
<1> QED BY <1>1, <1>6, <1>7

LEMMA FedKeeps ==
  ASSUME LaneInv, NEW w \in Writers, NEW reading, NEW reset \in Resets \cup {None},
         ReadForReading(w, reading, reset), UNCHANGED <<file, scratch, writing>>
  PROVE  LaneInv'
<1> DEFINE now == Settle(circuit, clock)
           new == ApplyReading(now, reading, reset)
<1>1. /\ counted' = IF reading = "exhausted" THEN Tally(counted, "quota_exhausted")
                    ELSE counted
      /\ Put(w, "reading", new)
  BY DEF ReadForReading, Count, Tally
<1>2. circuit \in Circuits /\ counted \in [Rules -> Nat] /\ Evidence(circuit, counted)
  BY DEF LaneInv, LaneType, LaneSound, Contents, circuit
<1>3. counted' \in [Rules -> Nat] /\ \A r \in Rules : counted'[r] >= counted[r]
  BY <1>1, <1>2, TallyType
<1>4. /\ now \in Circuits /\ Evidence(now, counted)
      /\ now.rule = circuit.rule /\ (Stands(circuit) => now = circuit)
  BY <1>2, SettleKeeps
<1> HIDE DEF now
<1>5. /\ new \in Circuits /\ Evidence(new, counted')
      /\ Stands(now) => Stands(new) \/ now.rule \notin Quality
  BY <1>1, <1>2, <1>4, ReadingKeeps
<1> HIDE DEF new
<1>6. Keeps(circuit, Content("reading", new))
  BY <1>4, <1>5 DEF Keeps, Content
<1> QED BY <1>1, <1>3, <1>5, <1>6, PutKeeps

\* What a file holds after a write is what was written, or cannot be parsed.
LEMMA OverBacked ==
  ASSUME NEW held, NEW u \in Contents, NEW c, NEW n \in [Rules -> Nat], Backed(u, c, n),
         NEW new \in Over(held, u)
  PROVE  new \in Contents /\ Backed(new, c, n) /\ (new = u \/ new = Torn)
BY Unread DEF Over

\* What may come to stand in the state file: backed by what was counted and, unless it
\* was overtaken or cannot be parsed, keeping the escalated trip it replaces.
Moved ==
    \E u \in Contents : /\ u # None /\ Backed(u, circuit, counted)
                        /\ file' = u \/ file' = Torn

LEMMA MovedFile ==
  ASSUME LaneInv, Moved, UNCHANGED counted
  PROVE  file' \in Contents /\ Evidence(circuit', counted')
<1>1. PICK u \in Contents :
        u # None /\ Backed(u, circuit, counted) /\ (file' = u \/ file' = Torn)
  BY DEF Moved
<1>2. Evidence(u.put, counted)
  BY <1>1 DEF Backed
<1>3. Evidence(Torn.put, counted)
  BY ClosedEvidence DEF LaneInv, LaneType, Torn, Content
<1> QED BY <1>1, <1>2, <1>3, Unread DEF circuit

LEMMA WriteKeeps ==
  ASSUME LaneInv, WriterSound, NEW w \in Writers, Write(w)
  PROVE  LaneInv' /\ (file' = file \/ Moved)
<1>1. /\ file \in Contents /\ scratch \in Contents \cup {None}
      /\ pending \in [Writers -> Contents \cup {None}]
      /\ writing \in [Writers -> {"idle", "open", "moved", "cut", "full"}]
      /\ counted \in [Rules -> Nat]
      /\ Backed(scratch, circuit, counted) /\ Evidence(circuit, counted)
      /\ \A v \in Writers : Backed(pending[v], circuit, counted)
  BY DEF LaneInv, LaneType, LaneSound
<1>2. CASE OpenScratch(w)
  <2>1. /\ UNCHANGED <<file, pending, counted>> /\ scratch' = Empty
        /\ writing' = [writing EXCEPT ![w] = "open"]
    BY <1>2 DEF OpenScratch
  <2>2. circuit' = circuit /\ Backed(scratch', circuit, counted) /\ scratch' \in Contents
    BY <1>1, <2>1, Unread DEF circuit
  <2> QED BY <1>1, <2>1, <2>2 DEF LaneInv, LaneType, LaneSound
<1>3. CASE Fill(w)
  <2>1. /\ counted' = counted /\ writing' = [writing EXCEPT ![w] = "full"]
        /\ writing[w] \in {"open", "moved", "cut"}
        /\ \/ writing[w] = "open" /\ scratch' \in Over(scratch, pending[w])
              /\ UNCHANGED <<file, pending>>
           \/ /\ writing[w] = "moved" /\ file' \in Over(file, pending[w])
              /\ pending' = [v \in Writers |-> Overtaken(pending[v])]
              /\ scratch' = Overtaken(scratch)
           \/ writing[w] = "cut" /\ UNCHANGED <<file, scratch, pending>>
    BY <1>3 DEF Fill
  <2>2. pending[w] \in Contents /\ pending[w] # None
    BY <1>1, <2>1 DEF WriterSound
  <2>3. CASE writing[w] = "open" /\ scratch' \in Over(scratch, pending[w])
             /\ UNCHANGED <<file, pending>>
    <3>1. circuit' = circuit /\ scratch' \in Contents /\ Backed(scratch', circuit, counted)
      BY <1>1, <2>2, <2>3, OverBacked DEF circuit
    <3> QED BY <1>1, <2>1, <2>3, <3>1 DEF LaneInv, LaneType, LaneSound
  <2>4. CASE /\ writing[w] = "moved" /\ file' \in Over(file, pending[w])
             /\ pending' = [v \in Writers |-> Overtaken(pending[v])]
             /\ scratch' = Overtaken(scratch)
    <3>1. Moved
      BY <1>1, <2>2, <2>4, OverBacked DEF Moved
    <3>2. file' \in Contents /\ Evidence(circuit', counted')
      BY <2>1, <3>1, MovedFile
    <3>3. scratch' \in Contents \cup {None} /\ Backed(scratch', circuit', counted')
      BY <1>1, <2>1, <2>4, OvertakenBacked
    <3>4. \A v \in Writers : /\ pending'[v] \in Contents \cup {None}
                             /\ Backed(pending'[v], circuit', counted')
      BY <1>1, <2>1, <2>4, OvertakenBacked
    <3>5. pending' \in [Writers -> Contents \cup {None}]
      BY <2>4, <3>4
    <3> QED BY <1>1, <2>1, <3>1, <3>2, <3>3, <3>4, <3>5 DEF LaneInv, LaneType, LaneSound
  <2>5. CASE writing[w] = "cut" /\ UNCHANGED <<file, scratch, pending>>
    <3>1. circuit' = circuit
      BY <2>5 DEF circuit
    <3> QED BY <1>1, <2>1, <2>5, <3>1 DEF LaneInv, LaneType, LaneSound
  <2> QED BY <2>1, <2>3, <2>4, <2>5
<1>4. CASE Replace(w)
  <2>1. /\ counted' = counted /\ scratch # None
        /\ file' = scratch /\ scratch' = None
        /\ pending' = [v \in Writers |-> IF v = w THEN None ELSE Overtaken(pending[v])]
        /\ writing' = [v \in Writers |->
              CASE v = w -> "idle" [] writing[v] = "open" -> "moved"
                [] writing[v] = "moved" -> "cut" [] OTHER -> writing[v]]
    BY <1>4 DEF Replace
  <2>2. Moved
    BY <1>1, <2>1 DEF Moved
  <2>3. file' \in Contents /\ Evidence(circuit', counted')
    BY <2>1, <2>2, MovedFile
  <2>4. \A v \in Writers : /\ pending'[v] \in Contents \cup {None}
                           /\ Backed(pending'[v], circuit', counted')
    <3> SUFFICES ASSUME NEW v \in Writers
                 PROVE  /\ pending'[v] \in Contents \cup {None}
                        /\ Backed(pending'[v], circuit', counted')
      OBVIOUS
    <3>1. CASE v = w
      BY <2>1, <3>1 DEF Backed
    <3>2. CASE v # w
      BY <1>1, <2>1, <3>2, OvertakenBacked
    <3> QED BY <3>1, <3>2
  <2>5. pending' \in [Writers -> Contents \cup {None}]
    BY <2>1, <2>4
  <2>6. writing' \in [Writers -> {"idle", "open", "moved", "cut", "full"}]
    BY <1>1, <2>1
  <2>7. scratch' \in Contents \cup {None} /\ Backed(scratch', circuit', counted')
    BY <2>1 DEF Backed
  <2> QED BY <1>1, <2>1, <2>2, <2>3, <2>4, <2>5, <2>6, <2>7 DEF LaneInv, LaneType, LaneSound
<1>5. CASE ReplaceRaises(w)
  <2>1. DropUpdate(w) /\ UNCHANGED <<file, scratch, counted>>
    BY <1>5 DEF ReplaceRaises
  <2>2. counted' \in [Rules -> Nat] /\ \A r \in Rules : counted'[r] >= counted[r]
    BY <1>1, <2>1
  <2> QED BY <2>1, <2>2, DropKeeps
<1> QED BY <1>2, <1>3, <1>4, <1>5 DEF Write

\* Every step keeps what is known of the lane, and only a write changes the file.
LEMMA LaneStep ==
  ASSUME LaneInv, WriterSound, [Next]_vars
  PROVE  LaneInv' /\ (file' = file \/ Moved)
<1>1. CASE UNCHANGED lane
  <2>1. counted \in [Rules -> Nat] /\ Hand \in Writers
    BY DEF LaneInv, LaneType, Writers
  <2>2. UNCHANGED <<file, scratch, updates, counted>> /\ file' = file
    BY <1>1 DEF lane
  <2>3. counted' \in [Rules -> Nat] /\ \A r \in Rules : counted'[r] >= counted[r]
    BY <2>1, <2>2
  <2> QED BY <2>1, <2>2, <2>3, DropKeeps
<1>2. Hand \in Writers /\ Dispatches \subseteq Writers
  BY DEF Writers
<1>3. ASSUME NEW d \in Dispatches, PlanLane(d) PROVE LaneInv' /\ file' = file
  <2> DEFINE now == Settle(circuit, clock)
  <2>1. UNCHANGED <<file, scratch, writing>>
    BY <1>3 DEF PlanLane
  <2>2. circuit \in Circuits /\ counted \in [Rules -> Nat] /\ Evidence(circuit, counted)
    BY DEF LaneInv, LaneType, LaneSound, Contents, circuit
  <2>3. now \in Circuits /\ Evidence(now, counted) /\ (Stands(circuit) => now = circuit)
    BY <2>2, SettleKeeps
  <2>4. ASSUME NEW reading \in Readings, NEW reset \in Resets, ReadForReading(d, reading, reset)
        PROVE  LaneInv'
    BY <1>2, <2>1, <2>4, FedKeeps
  <2>5. ASSUME counted' = counted, pending' = pending PROVE LaneInv'
    <3>1. UNCHANGED updates
      BY <2>1, <2>5 DEF updates
    <3>2. counted' \in [Rules -> Nat] /\ \A r \in Rules : counted'[r] >= counted[r]
      BY <2>2, <2>5
    <3> QED BY <1>2, <2>1, <3>1, <3>2, DropKeeps
  <2>6. ASSUME counted' = counted, Put(d, "settle", now) PROVE LaneInv'
    <3>1. Keeps(circuit, Content("settle", now))
      BY <2>3 DEF Keeps, Content
    <3>2. counted' \in [Rules -> Nat] /\ \A r \in Rules : counted'[r] >= counted[r]
      BY <2>2, <2>6
    <3> HIDE DEF now
    <3> QED BY <1>2, <2>1, <2>2, <2>3, <2>6, <3>1, <3>2, PutKeeps
  <2> QED BY <1>3, <2>1, <2>4, <2>5, <2>6 DEF PlanLane
<1>4. ASSUME NEW d \in Dispatches, RecordOutcome(d) PROVE LaneInv' /\ file' = file
  <2>1. PICK o \in Outcomes : ReadForOutcome(d, o)
    BY <1>4 DEF RecordOutcome
  <2>2. o.reset \in Resets \cup {None} /\ o = Outcome(o.name, o.reset)
    BY DEF Outcomes, Outcome
  <2> QED BY <1>2, <1>4, <2>1, <2>2, OutcomeKeeps DEF RecordOutcome
<1>5. ASSUME NEW d \in Dispatches, Fail(d) \/ KillRunner(d) PROVE LaneInv' /\ file' = file
  <2>1. UNCHANGED <<file, scratch, counted>> /\ DropUpdate(d)
    BY <1>5 DEF Fail, KillRunner
  <2>2. counted' \in [Rules -> Nat] /\ \A r \in Rules : counted'[r] >= counted[r]
    BY <2>1 DEF LaneInv, LaneType
  <2> QED BY <1>2, <2>1, <2>2, DropKeeps
<1>6. ASSUME NEW w \in Writers, Write(w) PROVE LaneInv' /\ (file' = file \/ Moved)
  BY <1>6, WriteKeeps
<1>7. ASSUME HandReads PROVE LaneInv' /\ file' = file
  <2>1. UNCHANGED <<file, scratch, writing>>
    BY <1>7 DEF HandReads
  <2>2. counted \in [Rules -> Nat]
    BY DEF LaneInv, LaneType
  <2>3. ASSUME ReadForOutcome(Hand, Outcome("gate_failed", None)) PROVE LaneInv'
    <3>1. /\ Outcome("gate_failed", None).reset = None
          /\ Outcome("gate_failed", None).name = "gate_failed"
      BY DEF Outcome
    <3> QED BY <1>2, <2>1, <2>3, <3>1, OutcomeKeeps
  <2>4. ASSUME NEW reading \in Taps, NEW reset \in Resets, ReadForReading(Hand, reading, reset)
        PROVE  LaneInv'
    BY <1>2, <2>1, <2>4, FedKeeps
  <2>5. ASSUME Put(Hand, "clear", Closed), UNCHANGED counted PROVE LaneInv'
    <3>1. Keeps(circuit, Content("clear", Closed))
      BY DEF Keeps, Content
    <3>2. Closed \in Circuits /\ Evidence(Closed, counted')
      BY <2>2, <2>5, RuleFacts, ClosedEvidence
    <3>3. counted' \in [Rules -> Nat] /\ \A r \in Rules : counted'[r] >= counted[r]
      BY <2>2, <2>5
    <3> QED BY <1>2, <2>1, <2>5, <3>1, <3>2, <3>3, PutKeeps
  <2> QED BY <1>7, <2>1, <2>3, <2>4, <2>5 DEF HandReads
<1>8. ASSUME NEW d \in Dispatches, Planner(d) PROVE LaneInv' /\ (file' = file \/ Moved)
  <2>1. CASE PlanTree(d) \/ WriteRecord(d)
    BY <1>1, <2>1 DEF PlanTree, WriteRecord
  <2> QED BY <1>3, <1>8, <2>1 DEF Planner
<1>9. ASSUME NEW d \in Dispatches, Runner(d) PROVE LaneInv' /\ (file' = file \/ Moved)
  <2>1. CASE \/ Start(d) \/ Launch(d) \/ FinishRun(d) \/ Closeout(d) \/ ChildEnds(d)
             \/ Spawn(d) \/ StraysEnd(d)
    BY <1>1, <2>1 DEF Start, Launch, FinishRun, Closeout, ChildEnds, Spawn, StraysEnd
  <2> QED BY <1>4, <1>5, <1>9, <2>1 DEF Runner
<1>10. ASSUME NEW d \in Dispatches, Stopper(d) PROVE LaneInv' /\ (file' = file \/ Moved)
  BY <1>1, <1>10 DEF Stopper, StopScan, StopKills, StopVerify, StopEnding, StopWrite
<1>11. CASE Tick \/ UNCHANGED vars
  BY <1>1, <1>11 DEF Tick, vars
<1> QED BY <1>6, <1>7, <1>8, <1>9, <1>10, <1>11 DEF Next

LEMMA LaneInit == Init => LaneInv
<1> SUFFICES ASSUME Init PROVE LaneInv
  OBVIOUS
<1>1. /\ file = Fresh /\ scratch = None /\ pending = [w \in Writers |-> None]
      /\ writing = [w \in Writers |-> "idle"] /\ counted = [r \in Rules |-> 0]
  BY DEF Init
<1>2. counted \in [Rules -> Nat]
  BY <1>1
<1>3. Evidence(circuit, counted)
  BY <1>1, <1>2, Unread, ClosedEvidence DEF circuit
<1> QED BY <1>1, <1>2, <1>3, Unread DEF LaneInv, LaneType, LaneSound, Backed
-----------------------------------------------------------------------------
(* Plans, runners and stops.                                                *)

RunType ==
    /\ plan \in [Dispatches -> {"none", "lane", "tree", "recorded", "refused"}]
    /\ runner \in [Dispatches -> {"absent", "ready", "running",
                       "recording", "closing", "gone"}]
    /\ child \in [Dispatches -> {"none", "live", "ended"}]
    /\ status \in [Dispatches -> Statuses \cup {None}]
    /\ result \in [Dispatches -> Statuses \cup {None}]
    /\ stopper \in [Dispatches -> {"idle", "signalling", "ending", "writing"}]
    /\ strays \in SUBSET Dispatches /\ early \in SUBSET Dispatches

RunInv == RunType /\ RunnerSound /\ StopSound

runs == <<plan, runner, child, strays, status, result, stopper, early>>

LEMMA NoneIsNoStatus ==
  /\ None # "child_not_launched" /\ None # "child_finished" /\ None # "stopped"
  /\ None # "child_state_unknown" /\ None # "harness_failed_after_child"
BY HandAssumption DEF Statuses

LEMMA RunIdle == RunInv /\ UNCHANGED runs => RunInv'
BY DEF runs, RunInv, RunType, RunnerSound, StopSound

\* A plan moves up to its record.
LEMMA PlannerKeeps ==
  ASSUME RunInv, NEW d \in Dispatches, Planner(d)
  PROVE  RunInv'
<1>1. CASE PlanLane(d)
  <2>1. /\ plan[d] = "none"
        /\ \E at \in {"lane", "refused"} : plan' = [plan EXCEPT ![d] = at]
        /\ UNCHANGED <<runner, child, strays, status, result, stopper, early>>
    BY <1>1, Zenon DEF PlanLane, procs
  <2> QED BY <2>1 DEF RunInv, RunType, RunnerSound, StopSound
<1>2. CASE PlanTree(d)
  <2>1. /\ plan[d] = "lane"
        /\ \E at \in {"tree", "refused"} : plan' = [plan EXCEPT ![d] = at]
        /\ UNCHANGED <<runner, child, strays, status, result, stopper, early>>
    BY <1>2, Zenon DEF PlanTree, procs
  <2> QED BY <2>1 DEF RunInv, RunType, RunnerSound, StopSound
<1>3. CASE WriteRecord(d)
  <2>1. /\ plan[d] = "tree" /\ plan' = [plan EXCEPT ![d] = "recorded"]
        /\ UNCHANGED <<runner, child, strays, status, result, stopper, early>>
    BY <1>3 DEF WriteRecord, procs
  <2> QED BY <2>1 DEF RunInv, RunType, RunnerSound, StopSound
<1> QED BY <1>1, <1>2, <1>3 DEF Planner

\* A runner's step leaves the plans, the stops and the other dispatches alone, and
\* takes no ending back; one that comes to its end without having seen the child end
\* says that the child's state is unknown.
LEMMA RunnerKeeps ==
  ASSUME RunInv, NEW d \in Dispatches, Runner(d)
  PROVE  RunInv'
<1> USE NoneIsNoStatus
<1>1. CASE Start(d)
  <2>1. /\ runner[d] = "absent" /\ plan[d] = "recorded"
        /\ \/ runner' = [runner EXCEPT ![d] = "ready"] /\ UNCHANGED status
           \/ /\ runner' = [runner EXCEPT ![d] = "closing"]
              /\ status' = [status EXCEPT ![d] = "child_not_launched"]
        /\ UNCHANGED <<plan, child, strays, result, stopper, early>>
    BY <1>1 DEF Start, Goto, Close, records
  <2>2. RunType'
    BY <2>1 DEF RunInv, RunType, Statuses
  <2>3. RunnerSound' /\ StopSound'
    BY <2>1 DEF RunInv, RunType, RunnerSound, StopSound
  <2> QED BY <2>2, <2>3 DEF RunInv
<1>2. CASE Launch(d)
  <2>1. /\ runner[d] = "ready"
        /\ runner' = [runner EXCEPT ![d] = "running"]
        /\ child' = [child EXCEPT ![d] = "live"]
        /\ UNCHANGED <<plan, strays, status, result, stopper, early>>
    BY <1>2 DEF Launch, Goto, records
  <2>2. RunType'
    BY <2>1 DEF RunInv, RunType
  <2>3. RunnerSound' /\ StopSound'
    BY <2>1 DEF RunInv, RunType, RunnerSound, StopSound
  <2> QED BY <2>2, <2>3 DEF RunInv
<1>3. CASE RecordOutcome(d)
  <2>1. /\ runner[d] = "running" /\ child[d] = "ended"
        /\ runner' = [runner EXCEPT ![d] = "recording"]
        /\ UNCHANGED <<plan, child, strays, status, result, stopper, early>>
    BY <1>3 DEF RecordOutcome, Goto, records
  <2> QED BY <2>1 DEF RunInv, RunType, RunnerSound, StopSound
<1>4. CASE FinishRun(d)
  <2>1. /\ runner[d] = "recording"
        /\ runner' = [runner EXCEPT ![d] = "closing"]
        /\ \E s \in {"child_finished", "harness_failed_after_child"} :
              status' = [status EXCEPT ![d] = s]
        /\ UNCHANGED <<plan, child, strays, result, stopper, early>>
    BY <1>4 DEF FinishRun, Goto, Close, records
  <2>2. RunType'
    BY <2>1 DEF RunInv, RunType, Statuses
  <2>3. RunnerSound' /\ StopSound'
    BY <2>1 DEF RunInv, RunType, RunnerSound, StopSound
  <2> QED BY <2>2, <2>3 DEF RunInv
<1>5. CASE Fail(d)
  <2>1. /\ runner[d] \in {"ready", "running", "recording"}
        /\ runner' = [runner EXCEPT ![d] = "closing"]
        /\ \E s \in {"child_not_launched", "child_state_unknown",
                     "harness_failed_after_child"} :
              /\ status' = [status EXCEPT ![d] = s]
              /\ s = "child_not_launched" => runner[d] = "ready"
              /\ s = "harness_failed_after_child" =>
                    child[d] = "ended" \/ runner[d] = "recording"
        /\ \/ UNCHANGED child
           \/ child[d] = "live" /\ child' = [child EXCEPT ![d] = "ended"]
        /\ UNCHANGED <<plan, strays, result, stopper, early>>
    <3>1. PICK launched, ended \in BOOLEAN :
            /\ \/ runner[d] = "ready" /\ ~ended
               \/ runner[d] = "running" /\ launched /\ (ended => child[d] = "ended")
               \/ runner[d] = "recording" /\ launched /\ ended
            /\ Close(d, FailedStatus(launched, ended))
      BY <1>5 DEF Fail
    <3>2. \/ UNCHANGED child
          \/ child[d] = "live" /\ child' = [child EXCEPT ![d] = "ended"]
      BY <1>5, ZenonT(30) DEF Fail
    <3>5. UNCHANGED <<records, strays, stopper, early>>
      BY <1>5 DEF Fail
    <3>3. /\ runner' = [runner EXCEPT ![d] = "closing"]
          /\ status' = [status EXCEPT ![d] = FailedStatus(launched, ended)]
      BY <3>1 DEF Close, Goto
    <3>4. /\ FailedStatus(launched, ended) = "child_not_launched" => ~launched /\ ~ended
          /\ FailedStatus(launched, ended) = "harness_failed_after_child" => ended
          /\ FailedStatus(launched, ended) \in {"child_not_launched",
                "child_state_unknown", "harness_failed_after_child"}
      BY DEF FailedStatus
    <3> QED BY <3>1, <3>2, <3>3, <3>4, <3>5 DEF records
  <2>2. RunType'
    BY <2>1 DEF RunInv, RunType, Statuses
  <2>3. RunnerSound' /\ StopSound'
    BY <2>1 DEF RunInv, RunType, RunnerSound, StopSound
  <2> QED BY <2>2, <2>3 DEF RunInv
<1>6. CASE Closeout(d)
  <2>1. /\ runner[d] = "closing"
        /\ result' = [result EXCEPT ![d] = status[d]] \/ UNCHANGED result
        /\ runner' = [runner EXCEPT ![d] = "gone"]
        /\ status' = [status EXCEPT ![d] = None]
        /\ UNCHANGED <<plan, child, strays, stopper, early>>
    BY <1>6 DEF Closeout, Goto
  <2>2. RunType'
    BY <2>1 DEF RunInv, RunType
  <2>3. RunnerSound' /\ StopSound'
    BY <2>1 DEF RunInv, RunType, RunnerSound, StopSound
  <2> QED BY <2>2, <2>3 DEF RunInv
<1>7. CASE KillRunner(d)
  <2>1. /\ runner[d] \notin {"absent", "gone"}
        /\ runner' = [runner EXCEPT ![d] = "gone"]
        /\ status' = [status EXCEPT ![d] = None]
        /\ UNCHANGED <<plan, child, strays, result, stopper, early>>
    BY <1>7 DEF KillRunner, Goto, records
  <2>2. RunType'
    BY <2>1 DEF RunInv, RunType
  <2>3. RunnerSound' /\ StopSound'
    BY <2>1 DEF RunInv, RunType, RunnerSound, StopSound
  <2> QED BY <2>2, <2>3 DEF RunInv
<1>8. CASE ChildEnds(d)
  <2>1. /\ child[d] = "live" /\ child' = [child EXCEPT ![d] = "ended"]
        /\ UNCHANGED <<plan, runner, strays, status, result, stopper, early>>
    BY <1>8 DEF ChildEnds, records
  <2>2. RunType'
    BY <2>1 DEF RunInv, RunType
  <2>3. RunnerSound' /\ StopSound'
    BY <2>1 DEF RunInv, RunType, RunnerSound, StopSound
  <2> QED BY <2>2, <2>3 DEF RunInv
<1>9. CASE Spawn(d) \/ StraysEnd(d)
  <2>1. /\ \/ child[d] = "live" /\ strays' = strays \cup {d}
           \/ strays' = strays \ {d}
        /\ UNCHANGED <<plan, runner, child, status, result, stopper, early>>
    BY <1>9 DEF Spawn, StraysEnd, records
  <2> QED BY <2>1 DEF RunInv, RunType, RunnerSound, StopSound
<1> QED BY <1>1, <1>2, <1>3, <1>4, <1>5, <1>6, <1>7, <1>8, <1>9 DEF Runner

\* A writer that raises fails its plan, or its run after its child.
LEMMA WriteKeepsRuns ==
  ASSUME RunInv, WriterSound, NEW w \in Writers, Write(w)
  PROVE  RunInv'
<1> USE NoneIsNoStatus
<1>1. CASE OpenScratch(w) \/ Fill(w) \/ Replace(w)
  BY <1>1, RunIdle DEF OpenScratch, Fill, Replace, runs, records, procs
<1>2. CASE ReplaceRaises(w)
  <2>1. /\ \/ w \in Dispatches /\ plan[w] = "lane" /\ plan' = [plan EXCEPT ![w] = "refused"]
           \/ ~(w \in Dispatches /\ plan[w] = "lane") /\ plan' = plan
        /\ \/ /\ w \in Dispatches /\ plan[w] = "recorded"
              /\ runner' = [runner EXCEPT ![w] = "closing"]
              /\ status' = [status EXCEPT ![w] = "harness_failed_after_child"]
           \/ UNCHANGED <<runner, status>>
        /\ UNCHANGED <<result, child, strays, stopper, early>>
        /\ writing[w] = "full"
    BY <1>2 DEF ReplaceRaises, Close, Goto
  <2>2. w \in Dispatches /\ plan[w] = "recorded" => runner[w] = "recording"
    BY <2>1 DEF WriterSound
  <2>3. RunType'
    BY <2>1 DEF RunInv, RunType, Statuses
  <2>4. RunnerSound'
    BY <2>1, <2>2 DEF RunInv, RunType, RunnerSound
  <2>5. StopSound'
    BY <2>1, <2>2 DEF RunInv, RunType, StopSound
  <2> QED BY <2>3, <2>4, <2>5 DEF RunInv
<1> QED BY <1>1, <1>2 DEF Write

\* A stop that goes on to record an ending found no process, or came early.
LEMMA StopGotoKeeps ==
  ASSUME RunInv, NEW d \in Dispatches, NEW at \in {"idle", "signalling", "ending", "writing"},
         StopGoto(d, at), plan[d] = "recorded",
         UNCHANGED <<plan, runner, child, strays, status>>,
         \/ UNCHANGED result
         \/ result' = [result EXCEPT ![d] = "stopped"] /\ stopper[d] = "writing",
         \/ at = "ending" /\ child[d] # "live" /\ d \notin strays
         \/ at = "writing" /\ stopper[d] \in {"ending", "writing"}
         \/ at \in {"idle", "signalling"}
  PROVE  RunInv'
<1> USE NoneIsNoStatus
<1>1. /\ stopper' = [stopper EXCEPT ![d] = at]
      /\ early' = IF /\ at = "ending" /\ child[d] = "none"
                     /\ runner[d] \in {"absent", "ready"}
                  THEN early \cup {d} ELSE early
  BY DEF StopGoto
<1>2. RunType'
  BY <1>1 DEF RunInv, RunType, Statuses
<1>3. RunnerSound'
  BY <1>1 DEF RunInv, RunType, RunnerSound, StopSound
<1>4. StopSound'
  BY <1>1 DEF RunInv, RunType, RunnerSound, StopSound
<1> QED BY <1>2, <1>3, <1>4 DEF RunInv

LEMMA StopperKeeps ==
  ASSUME RunInv, NEW d \in Dispatches, Stopper(d)
  PROVE  RunInv'
<1>1. LiveIn(d) = {} => child[d] # "live" /\ d \notin strays
  BY DEF LiveIn, InTree
<1>2. stopper[d] # "idle" => plan[d] = "recorded"
  BY DEF RunInv, RunnerSound
<1>3. CASE StopScan(d)
  <2>1. (StopGoto(d, "ending") /\ LiveIn(d) = {}) \/ StopGoto(d, "signalling")
    BY <1>3 DEF StopScan
  <2>2. plan[d] = "recorded" /\ UNCHANGED <<plan, runner, child, strays, status, result>>
    BY <1>3 DEF StopScan, records
  <2> QED BY <1>1, <2>1, <2>2, StopGotoKeeps
<1>4. CASE StopKills(d)
  <2>1. /\ \E e \in Dispatches :
              \/ /\ child[e] = "live" /\ child' = [child EXCEPT ![e] = "ended"]
                 /\ UNCHANGED strays
              \/ strays' = strays \ {e} /\ UNCHANGED child
        /\ UNCHANGED <<plan, runner, status, result, stopper, early>>
    BY <1>4 DEF StopKills, records, LiveIn, InTree
  <2> QED BY <2>1 DEF RunInv, RunType, RunnerSound, StopSound
<1>5. CASE StopVerify(d)
  <2>1. (StopGoto(d, "ending") /\ LiveIn(d) = {}) \/ StopGoto(d, "idle")
    BY <1>5 DEF StopVerify
  <2>2. /\ stopper[d] = "signalling"
        /\ UNCHANGED <<plan, runner, child, strays, status, result>>
    BY <1>5 DEF StopVerify, records
  <2> QED BY <1>1, <1>2, <2>1, <2>2, StopGotoKeeps
<1>6. CASE StopEnding(d)
  <2>1. StopGoto(d, "writing") \/ StopGoto(d, "idle")
    BY <1>6 DEF StopEnding
  <2>2. stopper[d] = "ending" /\ UNCHANGED <<plan, runner, child, strays, status, result>>
    BY <1>6 DEF StopEnding, records
  <2> QED BY <1>2, <2>1, <2>2, StopGotoKeeps
<1>7. CASE StopWrite(d)
  <2>1. /\ stopper[d] = "writing" /\ StopGoto(d, "idle")
        /\ result' = [result EXCEPT ![d] = "stopped"]
        /\ UNCHANGED <<plan, runner, child, strays, status>>
    BY <1>7 DEF StopWrite
  <2> QED BY <1>2, <2>1, StopGotoKeeps
<1> QED BY <1>3, <1>4, <1>5, <1>6, <1>7 DEF Stopper

\* Nobody has something to write but a planner or a runner at the step that writes.
LEMMA WriterStep ==
  ASSUME LaneInv, RunInv, WriterSound, [Next]_vars
  PROVE  WriterSound'
<1> USE DEF WriterSound
<1>1. /\ pending \in [Writers -> Contents \cup {None}]
      /\ writing \in [Writers -> {"idle", "open", "moved", "cut", "full"}]
      /\ Hand \in Writers /\ Dispatches \subseteq Writers /\ Hand \notin Dispatches
  BY HandAssumption DEF LaneInv, LaneType, Writers
<1>2. /\ plan \in [Dispatches -> {"none", "lane", "tree", "recorded", "refused"}]
      /\ runner \in [Dispatches -> {"absent", "ready", "running",
                         "recording", "closing", "gone"}]
      /\ \A d \in Dispatches : plan[d] # "recorded" => runner[d] = "absent"
  BY DEF RunInv, RunType, RunnerSound
<1>3. ASSUME NEW u \in Contents \cup {None} PROVE Overtaken(u) = None <=> u = None
  <2>1. u # None => Overtaken(u) \in Contents
    BY DEF Overtaken, Contents
  <2> QED BY <2>1, ContentAssumption DEF Overtaken
<1>4. CASE UNCHANGED <<updates, plan, runner>>
  BY <1>4 DEF updates
<1>5. ASSUME NEW d \in Dispatches, DropUpdate(d),
             \A e \in Dispatches \ {d} : plan'[e] = plan[e] /\ runner'[e] = runner[e]
      PROVE  WriterSound'
  BY <1>1, <1>5 DEF DropUpdate
<1>6. ASSUME NEW d \in Dispatches, UNCHANGED updates, pending[d] = None,
             \A e \in Dispatches \ {d} : plan'[e] = plan[e] /\ runner'[e] = runner[e]
      PROVE  WriterSound'
  BY <1>1, <1>6 DEF updates
<1>7. ASSUME NEW d \in Dispatches, Planner(d) PROVE WriterSound'
  <2>1. CASE PlanLane(d)
    <3>1. /\ plan[d] = "none" /\ UNCHANGED <<writing, runner>>
          /\ plan' = [plan EXCEPT ![d] = "lane"] \/ plan' = [plan EXCEPT ![d] = "refused"]
          /\ pending' = pending \/ \E u : pending' = [pending EXCEPT ![d] = u]
      BY <2>1, Zenon DEF PlanLane, Put, ReadForReading, procs
    <3>2. pending[d] = None /\ writing[d] = "idle"
      BY <1>1, <1>2, <3>1
    <3> QED BY <1>1, <1>2, <3>1, <3>2
  <2>2. CASE PlanTree(d)
    BY <1>2, <1>6, <2>2 DEF PlanTree, lane, procs
  <2>3. CASE WriteRecord(d)
    BY <1>2, <1>6, <2>3 DEF WriteRecord, lane, procs
  <2> QED BY <1>7, <2>1, <2>2, <2>3 DEF Planner
<1>8. ASSUME NEW d \in Dispatches, Runner(d) PROVE WriterSound'
  <2>1. CASE Start(d) \/ Launch(d) \/ FinishRun(d) \/ Closeout(d)
    <3>1. /\ UNCHANGED <<updates, plan>> /\ pending[d] = None
          /\ \E at : runner' = [runner EXCEPT ![d] = at]
      BY <1>2, <2>1 DEF Start, Launch, FinishRun, Closeout, Close, Goto, lane, records
    <3> QED BY <1>2, <1>6, <3>1
  <2>2. CASE RecordOutcome(d)
    <3>1. /\ runner[d] = "running" /\ runner' = [runner EXCEPT ![d] = "recording"]
          /\ UNCHANGED <<plan, writing>>
          /\ pending' = pending \/ \E u : pending' = [pending EXCEPT ![d] = u]
      BY <2>2, Zenon DEF RecordOutcome, ReadForOutcome, Put, Goto, records
    <3>2. pending[d] = None /\ writing[d] = "idle"
      BY <1>1, <1>2, <3>1
    <3> QED BY <1>1, <1>2, <3>1, <3>2
  <2>3. CASE Fail(d) \/ KillRunner(d)
    <3>1. DropUpdate(d) /\ UNCHANGED plan /\ \E at : runner' = [runner EXCEPT ![d] = at]
      BY <2>3 DEF Fail, KillRunner, Close, Goto, records
    <3> QED BY <1>2, <1>5, <3>1
  <2>4. CASE ChildEnds(d) \/ Spawn(d) \/ StraysEnd(d)
    BY <1>4, <2>4 DEF ChildEnds, Spawn, StraysEnd, lane, records
  <2> QED BY <1>8, <2>1, <2>2, <2>3, <2>4 DEF Runner
<1>9. ASSUME NEW d \in Dispatches, Stopper(d) PROVE WriterSound'
  BY <1>4, <1>9 DEF Stopper, StopScan, StopKills, StopVerify, StopEnding, StopWrite,
       lane, records
<1>10. ASSUME NEW w \in Writers, Write(w) PROVE WriterSound'
  <2>1. CASE OpenScratch(w)
    BY <1>1, <2>1 DEF OpenScratch, records, procs
  <2>2. CASE Fill(w)
    <3>1. /\ writing[w] # "idle" /\ writing' = [writing EXCEPT ![w] = "full"]
          /\ UNCHANGED <<plan, runner>>
          /\ pending' = pending \/ pending' = [v \in Writers |-> Overtaken(pending[v])]
      BY <2>2 DEF Fill, records, procs
    <3>2. \A v \in Writers : pending'[v] = None <=> pending[v] = None
      BY <1>1, <1>3, <3>1
    <3> QED BY <1>1, <3>1, <3>2
  <2>3. CASE Replace(w)
    <3>1. /\ UNCHANGED <<plan, runner>> /\ writing[w] = "full"
          /\ pending' = [v \in Writers |-> IF v = w THEN None ELSE Overtaken(pending[v])]
          /\ writing' = [v \in Writers |->
                CASE v = w -> "idle" [] writing[v] = "open" -> "moved"
                  [] writing[v] = "moved" -> "cut" [] OTHER -> writing[v]]
      BY <2>3 DEF Replace, records, procs
    <3>2. writing'[w] = "idle" /\ pending'[w] = None
      BY <1>10, <3>1
    <3>3. ASSUME NEW v \in Writers, v # w
          PROVE  /\ pending'[v] = None <=> pending[v] = None
                 /\ writing'[v] # "idle" => writing[v] # "idle"
      <4>1. pending[v] \in Contents \cup {None} /\ pending'[v] = Overtaken(pending[v])
        BY <1>1, <3>1, <3>3
      <4>2. writing[v] = "idle" => writing'[v] = "idle"
        BY <3>1, <3>3
      <4> QED BY <1>3, <4>1, <4>2
    <3> QED BY <1>1, <3>1, <3>2, <3>3
  <2>4. CASE ReplaceRaises(w)
    <3>1. /\ DropUpdate(w)
          /\ \A e \in Dispatches \ {w} : plan'[e] = plan[e] /\ runner'[e] = runner[e]
      BY <1>2, <2>4 DEF ReplaceRaises, Close, Goto
    <3> QED BY <1>1, <3>1 DEF DropUpdate
  <2> QED BY <1>10, <2>1, <2>2, <2>3, <2>4 DEF Write
<1>11. CASE HandReads
  <2>1. /\ pending[Hand] = None /\ UNCHANGED <<plan, runner, writing>>
        /\ pending' = pending \/ \E u : pending' = [pending EXCEPT ![Hand] = u]
    BY <1>11, Zenon DEF HandReads, ReadForOutcome, ReadForReading, Put, records, procs
  <2> QED BY <1>1, <2>1
<1>12. CASE Tick \/ UNCHANGED vars
  BY <1>4, <1>12 DEF Tick, vars, records, procs, lane
<1> QED BY <1>7, <1>8, <1>9, <1>10, <1>11, <1>12 DEF Next
-----------------------------------------------------------------------------
(* The theorems.                                                            *)

LEMMA Initially == Init => IInv
<1> SUFFICES ASSUME Init PROVE IInv
  OBVIOUS
<1>1. LaneInv
  BY LaneInit
<1>2. RunInv
  BY NoneIsNoStatus DEF Init, RunInv, RunType, RunnerSound, StopSound
<1>3. WriterSound
  BY DEF Init, WriterSound, Writers
<1> QED BY <1>1, <1>2, <1>3 DEF IInv, TypeOK, LaneInv, LaneType, RunInv, RunType

LEMMA Inductive == IInv /\ [Next]_vars => IInv'
<1> SUFFICES ASSUME IInv, [Next]_vars PROVE IInv'
  OBVIOUS
<1>1. LaneInv /\ RunInv /\ WriterSound
  BY DEF IInv, TypeOK, LaneInv, LaneType, RunInv, RunType
<1>2. LaneInv'
  BY <1>1, LaneStep
<1>3. RunInv'
  <2>1. CASE HandReads \/ Tick \/ UNCHANGED vars
    BY <1>1, <2>1, RunIdle DEF HandReads, Tick, vars, runs, records, procs
  <2> QED BY <1>1, <2>1, PlannerKeeps, RunnerKeeps, StopperKeeps, WriteKeepsRuns DEF Next
<1>4. WriterSound'
  BY <1>1, WriterStep
<1> QED BY <1>2, <1>3, <1>4 DEF IInv, TypeOK, LaneInv, LaneType, RunInv, RunType

LEMMA Invariant == Spec => []IInv
BY Initially, Inductive, PTL DEF Spec

\* Plans, runners, results, stops, the lane's file and its writers keep their types.
THEOREM TypeCorrect == Spec => []TypeOK
<1>1. IInv => TypeOK
  BY DEF IInv
<1> QED BY <1>1, Invariant, PTL

\* In a tree no record holds, no child works but one whose result owns up to not knowing
\* its state, or one that a stop ended before it was launched.
THEOREM FreeTreesHideNoChild == Spec => []FreeTreeHidesNoChild
<1>1. IInv => FreeTreeHidesNoChild
  <2> SUFFICES ASSUME IInv, NEW d \in Dispatches, Holders(d) = {},
                      NEW e \in InTree(d), child[e] = "live"
               PROVE  result[e] = "child_state_unknown" \/ e \in early
    BY DEF FreeTreeHidesNoChild
  <2>1. e \in Dispatches
    BY DEF InTree
  <2>2. plan[e] = "recorded"
    BY <2>1 DEF IInv, RunnerSound
  <2>3. result[e] # None
    BY <2>1, <2>2 DEF Holders
  <2> QED BY <2>1, <2>3 DEF IInv, RunnerSound, StopSound
<1> QED BY <1>1, Invariant, PTL

\* "child_not_launched" is true of every dispatch it is written of.
THEOREM NotLaunchedIsTrue == Spec => []NotLaunchedNeverRan
<1>1. IInv => NotLaunchedNeverRan
  BY DEF IInv, RunnerSound, NotLaunchedNeverRan
<1> QED BY <1>1, Invariant, PTL

\* Unless it came before the launch, a stop that recorded an ending left no process of
\* its dispatch, and none comes after.
THEOREM StoppedAreOver == Spec => []StoppedIsOver
<1>1. IInv => StoppedIsOver
  BY DEF IInv, StopSound, StoppedIsOver
<1> QED BY <1>1, Invariant, PTL

\* A lane trips on as many outcomes as its rule asks for, however its writers race.
THEOREM TripsHaveEvidence == Spec => []TripNeedsEvidence
<1>1. IInv => TripNeedsEvidence
  BY DEF IInv, LaneSound, Evidence, TripNeedsEvidence
<1> QED BY <1>1, Invariant, PTL

\* A trip that calls for a human becomes no other but by the reset command, by a reading
\* where it is about availability, by a writer that read the file before the trip, or in
\* a file two writers have garbled.
THEOREM EscalationsStand == Spec => EscalationStands
<1> DEFINE A == (circuit.state = "open" /\ circuit.escalated) =>
                  \/ circuit'.state = "open" /\ circuit'.escalated
                  \/ file'.op \in {"clear", "empty", "torn"}
                  \/ file'.op = "reading" /\ circuit.rule \notin Quality
                  \/ file'.stale
<1>1. IInv /\ [Next]_vars => [A]_file
  <2> SUFFICES ASSUME IInv, [Next]_vars, file' # file, Stands(circuit) PROVE A
    BY DEF vars, lane, Stands
  <2>1. LaneInv /\ WriterSound
    BY DEF IInv, TypeOK, LaneInv, LaneType
  <2>2. PICK u \in Contents :
          u # None /\ Backed(u, circuit, counted) /\ (file' = u \/ file' = Torn)
    BY <2>1, LaneStep DEF Moved
  <2>3. CASE file' = Torn
    BY <2>3, Unread
  <2>4. CASE file' = u
    <3>1. u.stale \/ Keeps(circuit, u)
      BY <2>2 DEF Backed
    <3> QED BY <2>4, <3>1 DEF Keeps, Stands, circuit
  <2> QED BY <2>2, <2>3, <2>4
<1> QED BY <1>1, Invariant, PTL DEF Spec, EscalationStands
=============================================================================
