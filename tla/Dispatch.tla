------------------------------ MODULE Dispatch ------------------------------
(***************************************************************************)
(* Dispatches into the work trees of one box (tools/dispatch.py), the stop *)
(* that ends one (tools/dispatch_stop.py), and the breaker of the lane     *)
(* they use (Breaker.tla).                                                 *)
(*                                                                         *)
(* A dispatch is planned by one process, which reads the lane, looks for a *)
(* record in the tree that has no result, and lays down its own record; it *)
(* is carried out by another, the runner, which launches a child in the    *)
(* tree, feeds the lane's breaker what became of it, and makes one attempt *)
(* to write the result.  The child starts processes of its own, which may  *)
(* outlive it.  The directory of records is the only authority on who      *)
(* works in a tree: nothing is locked.  Every process may die.             *)
(*                                                                         *)
(* Breaker state is a file: an update reads it, computes, and writes it    *)
(* back through a scratch file, whose name every writer of the lane uses.  *)
(* "hand" stands for the breaker commands and the taps that feed quota     *)
(* readings.                                                               *)
(***************************************************************************)
EXTENDS Breaker, FiniteSets

CONSTANTS
    Dispatches,
    TreeOf,             \* the tree each is assigned, a function of Dispatches
    Hand,               \* the breaker commands, not a dispatch
    Taps,               \* readings the quota taps may feed
    Resets,             \* boundaries a provider may publish, None where it does not
    MaxClock, MaxCommands, MaxKills     \* bounds of the instance

Readings == {"none", "healthy", "exhausted"}

\* How a result may say that a run ended.
Statuses == {"child_not_launched", "child_finished", "child_state_unknown",
             "harness_failed_after_child", "stopped"}

ASSUME HandAssumption ==
    /\ Hand \notin Dispatches /\ Taps \subseteq Readings
    /\ None \notin Statuses

VARIABLES
    plan,       \* of each dispatch: none, lane, tree, recorded, refused
    runner,     \* absent, ready, running, recording, closing, gone
    child,      \* none, live, ended
    strays,     \* dispatches whose child started a process that is still there
    status,     \* what the runner will write as the result's status
    result,     \* None, or the status in result.json
    stopper,    \* idle, signalling, ending, writing
    file,       \* what the lane's state file holds: [op, put, stale]
    scratch,    \* what its scratch file holds, None where there is none
    pending,    \* of each writer: None, or what it will write
    writing,    \* of each writer: idle, open, moved, cut, full
    clock,
    commands, kills,    \* counters of the bounds: breaker commands and stops
    early,      \* ghost: dispatches a stop is ending before their launch
    counted     \* ghost: outcomes each rule counts, up to its limit

records == <<plan, result>>
procs   == <<runner, child, strays, status, stopper>>
updates == <<pending, writing>>
lane    == <<file, scratch, updates, counted>>
bounds  == <<commands, kills>>
vars    == <<records, procs, lane, clock, early, bounds>>

Writers == Dispatches \cup {Hand}
InTree(d) == {e \in Dispatches : TreeOf[e] = TreeOf[d]}

\* What a scan finds in the tree: the children, and what they left behind.
LiveIn(d) == {e \in InTree(d) : child[e] = "live" \/ e \in strays}

\* A content was written by an operation; the stale ones are those of a writer whose
\* read is older than the file.  One that does not parse reads as a closed lane.
Content(op, put) == [op |-> op, put |-> put, stale |-> FALSE]
Fresh == Content("fresh", Closed)
Empty == Content("empty", Closed)
Torn  == Content("torn", Closed)

circuit == file.put

\* Fault: a dispatch whose runner is gone holds its tree no more.
HoldersRunning(d) ==
    {e \in InTree(d) : plan[e] = "recorded" /\ result[e] = None /\ runner[e] # "gone"}

\* holders: dispatches of this tree that recorded no ending.
Holders(d) == {e \in InTree(d) : plan[e] = "recorded" /\ result[e] = None}

Init ==
    /\ plan = [d \in Dispatches |-> "none"]
    /\ runner = [d \in Dispatches |-> "absent"]
    /\ child = [d \in Dispatches |-> "none"]
    /\ status = [d \in Dispatches |-> None]
    /\ result = [d \in Dispatches |-> None]
    /\ stopper = [d \in Dispatches |-> "idle"]
    /\ strays = {}
    /\ file = Fresh /\ scratch = None
    /\ pending = [w \in Writers |-> None]
    /\ writing = [w \in Writers |-> "idle"]
    /\ clock = 0
    /\ commands = 0 /\ kills = 0
    /\ early = {} /\ counted = [r \in Rules |-> 0]

Goto(d, at) == runner' = [runner EXCEPT ![d] = at]
Close(d, as) == Goto(d, "closing") /\ status' = [status EXCEPT ![d] = as]

(***************************************************************************)
(* Updates of the breaker's state file.                                    *)
(***************************************************************************)
Put(w, op, new) ==
    pending' = [pending EXCEPT ![w] = Content(op, new)]

Count(name) ==
    counted' = [r \in Rules |->
        IF name \in On[r] /\ counted[r] < Limit[r] THEN counted[r] + 1
        ELSE counted[r]]

\* record_outcome: nothing is written when nothing moved.
ReadForOutcome(w, o) ==
    LET new == Advance(Settle(circuit, clock), o)
    IN /\ Count(o.name)
       /\ IF new = circuit THEN UNCHANGED pending ELSE Put(w, "outcome", new)

\* record_reading: the state is written back whatever the reading said.
ReadForReading(w, reading, reset) ==
    /\ Put(w, "reading",
           ApplyReading(Settle(circuit, clock), reading, reset))
    /\ IF reading = "exhausted" THEN Count("quota_exhausted")
       ELSE UNCHANGED counted

\* write_state: the scratch file is opened, which empties what another writer of
\* the lane has in it ...
OpenScratch(w) ==
    /\ pending[w] # None /\ writing[w] = "idle"
    /\ scratch' = Empty
    /\ writing' = [writing EXCEPT ![w] = "open"]
    /\ UNCHANGED <<records, procs, file, pending, counted, clock, early,
                   bounds>>

\* What a write makes of what a file holds: over other text it may leave a tail.
Over(held, new) == IF held.op = "empty" THEN {new} ELSE {new, Torn}

\* The file has changed under those who read it before.
Overtaken(u) ==
    IF u = None THEN None
    ELSE [u EXCEPT !.stale = @ \/ file'.put # file.put]

\* ... filled, wherever another writer has moved it by then ...
Fill(w) ==
    /\ writing[w] \in {"open", "moved", "cut"}
    /\ writing' = [writing EXCEPT ![w] = "full"]
    /\ \/ writing[w] = "open" /\ scratch' \in Over(scratch, pending[w])
          /\ UNCHANGED <<file, pending>>
       \/ writing[w] = "moved" /\ file' \in Over(file, pending[w])
          /\ pending' = [v \in Writers |-> Overtaken(pending[v])]
          /\ scratch' = Overtaken(scratch)
       \/ writing[w] = "cut" /\ UNCHANGED <<file, scratch, pending>>
    /\ UNCHANGED <<records, procs, counted, clock, early, bounds>>

\* ... and renamed onto the state file, whoever filled it last.
Replace(w) ==
    /\ writing[w] = "full" /\ scratch # None
    /\ file' = scratch /\ scratch' = None
    /\ pending' = [v \in Writers |->
                       IF v = w THEN None ELSE Overtaken(pending[v])]
    /\ writing' = [v \in Writers |->
            CASE v = w -> "idle" [] writing[v] = "open" -> "moved"
              [] writing[v] = "moved" -> "cut" [] OTHER -> writing[v]]
    /\ UNCHANGED <<records, procs, counted, clock, early, bounds>>

DropUpdate(w) ==
    /\ pending' = [pending EXCEPT ![w] = None]
    /\ writing' = [writing EXCEPT ![w] = "idle"]

\* Another writer renamed the scratch file away: the writer raises, which refuses
\* the plan or fails the run after its child.
ReplaceRaises(w) ==
    /\ writing[w] = "full" /\ scratch = None
    /\ DropUpdate(w)
    /\ IF w \in Dispatches /\ plan[w] = "lane"
       THEN plan' = [plan EXCEPT ![w] = "refused"] ELSE UNCHANGED plan
    /\ IF w \in Dispatches /\ plan[w] = "recorded"
       THEN Close(w, "harness_failed_after_child") ELSE UNCHANGED <<runner, status>>
    /\ UNCHANGED <<result, child, strays, stopper, file, scratch, counted, clock,
                   early, bounds>>

Write(w) == OpenScratch(w) \/ Fill(w) \/ Replace(w) \/ ReplaceRaises(w)

\* just breaker record, the quota taps, and just breaker reset.
HandReads ==
    /\ pending[Hand] = None
    /\ commands < MaxCommands /\ commands' = commands + 1
    /\ \/ ReadForOutcome(Hand, Outcome("gate_failed", None))
       \/ \E reading \in Taps, reset \in Resets :
            ReadForReading(Hand, reading, reset)
       \/ /\ circuit.state # "closed" /\ Put(Hand, "clear", Closed)
          /\ UNCHANGED counted
    /\ UNCHANGED <<records, procs, file, scratch, writing, clock, early, kills>>

(***************************************************************************)
(* Planning: the lane, then the tree, then the record.                     *)
(***************************************************************************)
PlanLane(d) ==
    /\ plan[d] = "none"
    /\ LET now == Settle(circuit, clock) IN
        IF HeldAvailability(now)
        THEN \E reading \in Readings, reset \in Resets :
                LET new == ApplyReading(now, reading, reset) IN
                /\ ReadForReading(d, reading, reset)
                /\ plan' = [plan EXCEPT ![d] =
                                IF Conducting(new) THEN "lane" ELSE "refused"]
        ELSE /\ IF now = circuit THEN UNCHANGED pending ELSE Put(d, "settle", now)
             /\ plan' = [plan EXCEPT ![d] =
                            IF Conducting(now) THEN "lane" ELSE "refused"]
             /\ UNCHANGED counted
    /\ UNCHANGED <<result, procs, file, scratch, writing, clock, early, bounds>>

PlanTree(d) ==
    /\ plan[d] = "lane" /\ pending[d] = None
    /\ plan' = [plan EXCEPT ![d] = IF Holders(d) = {} THEN "tree"
                                   ELSE "refused"]
    /\ UNCHANGED <<result, procs, lane, clock, early, bounds>>

WriteRecord(d) ==
    /\ plan[d] = "tree"
    /\ plan' = [plan EXCEPT ![d] = "recorded"]
    /\ UNCHANGED <<result, procs, lane, clock, early, bounds>>

(***************************************************************************)
(* The runner.                                                             *)
(***************************************************************************)
\* The detached runner reads its record back and checks before the launch; any
\* of that may refuse.
Start(d) ==
    /\ plan[d] = "recorded" /\ runner[d] = "absent"
    /\ \/ Goto(d, "ready") /\ UNCHANGED status
       \/ Close(d, "child_not_launched")
    /\ UNCHANGED <<records, child, strays, stopper, lane, clock, early, bounds>>

Launch(d) ==
    /\ runner[d] = "ready"
    /\ Goto(d, "running")
    /\ child' = [child EXCEPT ![d] = "live"]
    /\ UNCHANGED <<records, strays, status, stopper, lane, clock, early, bounds>>

\* classify_run makes one of these of the exit code and the run's last line.
Outcomes ==
    {Outcome(n, None) : n \in {"ok", "provider_error", "provider_refused",
                               "unclassified"}}
      \cup {Outcome("quota_exhausted", r) : r \in Resets}

RecordOutcome(d) ==
    /\ runner[d] = "running" /\ child[d] = "ended"
    /\ \E o \in Outcomes : ReadForOutcome(d, o)
    /\ Goto(d, "recording")
    /\ UNCHANGED <<records, child, strays, status, stopper, file, scratch,
                   writing, clock, early, bounds>>

\* harness_finish and the review delivery may fail the run after its child.
FinishRun(d) ==
    /\ runner[d] = "recording" /\ pending[d] = None
    /\ \E s \in {"child_finished", "harness_failed_after_child"} : Close(d, s)
    /\ UNCHANGED <<records, child, strays, stopper, lane, clock, early, bounds>>

\* Fault: a child that has not been seen to end was not launched.
FailedStatusGuessed(launched, ended) ==
    IF ended THEN "harness_failed_after_child" ELSE "child_not_launched"

\* An exception anywhere: _failed_result tells how far the body had got.
FailedStatus(launched, ended) ==
    IF ended THEN "harness_failed_after_child"
    ELSE IF launched THEN "child_state_unknown" ELSE "child_not_launched"

\* One out of the wait may leave the child at work; one out of the launch leaves
\* none.
Fail(d) ==
    /\ \E launched, ended \in BOOLEAN :
        /\ \/ runner[d] = "ready" /\ ~ended
           \/ runner[d] = "running" /\ launched /\ (ended => child[d] = "ended")
           \/ runner[d] = "recording" /\ launched /\ ended
        /\ Close(d, FailedStatus(launched, ended))
    /\ \/ UNCHANGED child
       \/ child[d] = "live" /\ child' = [child EXCEPT ![d] = "ended"]
    /\ DropUpdate(d)
    /\ UNCHANGED <<records, strays, stopper, file, scratch, counted, clock, early,
                   bounds>>

\* One attempt, which may fail: then the dispatch has no result.
Closeout(d) ==
    /\ runner[d] = "closing"
    /\ \/ result' = [result EXCEPT ![d] = status[d]]
       \/ UNCHANGED result
    /\ Goto(d, "gone") /\ status' = [status EXCEPT ![d] = None]
    /\ UNCHANGED <<plan, child, strays, stopper, lane, clock, early, bounds>>

\* The runner dies; the child it launched works on.
KillRunner(d) ==
    /\ runner[d] \notin {"absent", "gone"} /\ kills < MaxKills
    /\ kills' = kills + 1
    /\ Goto(d, "gone") /\ status' = [status EXCEPT ![d] = None]
    /\ DropUpdate(d)
    /\ UNCHANGED <<records, child, strays, stopper, file, scratch, counted, clock,
                   early, commands>>

ChildEnds(d) ==
    /\ child[d] = "live"
    /\ child' = [child EXCEPT ![d] = "ended"]
    /\ UNCHANGED <<records, runner, strays, status, stopper, lane, clock, early,
                   bounds>>

\* The servers and commands an agent starts work in its tree, and may outlive it.
Spawn(d) ==
    /\ child[d] = "live" /\ d \notin strays
    /\ strays' = strays \cup {d}
    /\ UNCHANGED <<records, runner, child, status, stopper, lane, clock, early,
                   bounds>>

StraysEnd(d) ==
    /\ d \in strays /\ strays' = strays \ {d}
    /\ UNCHANGED <<records, runner, child, status, stopper, lane, clock, early,
                   bounds>>

(***************************************************************************)
(* just dispatch --stop.                                                   *)
(***************************************************************************)
StopGoto(d, at) ==
    /\ stopper' = [stopper EXCEPT ![d] = at]
    /\ early' = IF at = "ending" /\ child[d] = "none"
                     /\ runner[d] \in {"absent", "ready"}
                THEN early \cup {d} ELSE early

\* A scan that cannot see every process refuses, and changes nothing.
StopScan(d) ==
    /\ plan[d] = "recorded" /\ stopper[d] = "idle"
    /\ commands < MaxCommands /\ commands' = commands + 1
    /\ StopGoto(d, IF LiveIn(d) = {} THEN "ending" ELSE "signalling")
    /\ UNCHANGED <<records, runner, child, strays, status, lane, clock, kills>>

\* SIGTERM, then SIGKILL: every process of the tree, whichever dispatch's.
StopKills(d) ==
    /\ stopper[d] = "signalling"
    /\ \E e \in LiveIn(d) :
        \/ /\ child[e] = "live" /\ child' = [child EXCEPT ![e] = "ended"]
           /\ UNCHANGED strays
        \/ e \in strays /\ strays' = strays \ {e} /\ UNCHANGED child
    /\ UNCHANGED <<records, runner, status, stopper, lane, clock, early,
                   bounds>>

\* Fault: what was signalled is taken for dead.
StopVerifyNothing(d) ==
    /\ stopper[d] = "signalling"
    /\ StopGoto(d, "ending")
    /\ UNCHANGED <<records, runner, child, strays, status, lane, clock, bounds>>

\* The last scan: anything left is stop_unverified, and no result.
StopVerify(d) ==
    /\ stopper[d] = "signalling"
    /\ StopGoto(d, IF LiveIn(d) = {} THEN "ending" ELSE "idle")
    /\ UNCHANGED <<records, runner, child, strays, status, lane, clock, bounds>>

\* A result that is there is preserved ...
StopEnding(d) ==
    /\ stopper[d] = "ending"
    /\ StopGoto(d, IF result[d] = None THEN "writing" ELSE "idle")
    /\ UNCHANGED <<records, runner, child, strays, status, lane, clock, bounds>>

\* ... unless it came between the look and the write.
StopWrite(d) ==
    /\ stopper[d] = "writing"
    /\ result' = [result EXCEPT ![d] = "stopped"]
    /\ StopGoto(d, "idle")
    /\ UNCHANGED <<plan, runner, child, strays, status, lane, clock, bounds>>

Tick ==
    /\ clock < MaxClock /\ clock' = clock + 1
    /\ UNCHANGED <<records, procs, lane, early, bounds>>

Planner(d) == PlanLane(d) \/ PlanTree(d) \/ WriteRecord(d)

Runner(d) ==
    \/ Start(d) \/ Launch(d) \/ RecordOutcome(d)
    \/ FinishRun(d) \/ Fail(d) \/ Closeout(d) \/ KillRunner(d) \/ ChildEnds(d)
    \/ Spawn(d) \/ StraysEnd(d)

Stopper(d) ==
    \/ StopScan(d) \/ StopKills(d) \/ StopVerify(d) \/ StopEnding(d)
    \/ StopWrite(d)

Next ==
    \/ \E d \in Dispatches : Planner(d) \/ Runner(d) \/ Stopper(d)
    \/ \E w \in Writers : Write(w)
    \/ HandReads \/ Tick

Spec == Init /\ [][Next]_vars

(***************************************************************************)
(* What dispatching promises.                                              *)
(***************************************************************************)
Circuits == [state : {"closed", "open", "half_open"}, rule : Rules \cup {None},
             reset : Resets \cup {None}, escalated : BOOLEAN,
             streaks : [Rules -> Nat]]

Contents == [op : {"fresh", "empty", "torn", "outcome", "reading", "settle",
                   "clear"}, put : Circuits, stale : BOOLEAN]

ASSUME ContentAssumption == None \notin Contents

TypeOK ==
    /\ plan \in [Dispatches -> {"none", "lane", "tree", "recorded", "refused"}]
    /\ runner \in [Dispatches -> {"absent", "ready", "running",
                       "recording", "closing", "gone"}]
    /\ child \in [Dispatches -> {"none", "live", "ended"}]
    /\ status \in [Dispatches -> Statuses \cup {None}]
    /\ result \in [Dispatches -> Statuses \cup {None}]
    /\ stopper \in [Dispatches -> {"idle", "signalling", "ending", "writing"}]
    /\ file \in Contents /\ scratch \in Contents \cup {None}
    /\ pending \in [Writers -> Contents \cup {None}]
    /\ writing \in [Writers -> {"idle", "open", "moved", "cut", "full"}]
    /\ counted \in [Rules -> Nat]
    /\ strays \subseteq Dispatches /\ early \subseteq Dispatches

\* Where the occupancy check would hand out a tree, no child works in it, but one
\* whose result says that its state is unknown, or one that was stopped before it
\* launched (dispatch_stop.py:1005, dispatch.py:5910).
FreeTreeHidesNoChild ==
    \A d \in Dispatches : Holders(d) = {} =>
        \A e \in InTree(d) :
            child[e] = "live" => result[e] = "child_state_unknown" \/ e \in early

\* "child_not_launched" is only ever written of a dispatch that never worked:
\* doing it again is safe (dispatch.py:5906).
NotLaunchedNeverRan ==
    \A d \in Dispatches :
        result[d] = "child_not_launched" => child[d] = "none"

\* A stop that records its ending leaves no process of the dispatch behind, child
\* or not, unless it came before the launch (dispatch_stop.py:889).
StoppedIsOver ==
    \A d \in Dispatches : result[d] = "stopped" =>
        (child[d] # "live" /\ d \notin strays) \/ d \in early

\* However the writers race, a lane never trips on fewer outcomes than the rule
\* asks for (breaker.py:380).
TripNeedsEvidence ==
    circuit.state # "closed" => counted[circuit.rule] >= Limit[circuit.rule]

\* An escalated trip is never turned into a wait or closed but by hand, by a reading
\* if it is about availability, by a writer that read the file before it held the
\* trip, or by two writers that leave a file nobody can parse (breaker.py:342, 1188).
EscalationStands ==
    [][(circuit.state = "open" /\ circuit.escalated) =>
         \/ circuit'.state = "open" /\ circuit'.escalated
         \/ file'.op \in {"clear", "empty", "torn"}
         \/ file'.op = "reading" /\ circuit.rule \notin Quality
         \/ file'.stale]_file

\* A quality trip is cleared by nothing but the reset command.  The code breaks
\* this: a write may replace a circuit its writer has not read, and a later
\* availability trip takes its place (breaker.py:1591, 334).
QualityOnlyByHand ==
    [][(circuit.state = "open" /\ circuit.rule \in Quality) =>
         \/ circuit'.state = "open" /\ circuit'.rule \in Quality
         \/ file'.op = "clear"]_file
=============================================================================
