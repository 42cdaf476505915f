----------------------------- MODULE Controller -----------------------------
(***************************************************************************)
(* The Controller of the System of Work (tools/controller.py): one process *)
(* per reconciliation cycle.  A process reads whether the root is fresh,   *)
(* publishes the started marker, takes the scheduling lock, loads the      *)
(* journal, finishes the cycle an earlier process left or reduces fresh    *)
(* facts to a plan, and records planned, applied and confirmed around the  *)
(* plan's actions before it rewrites the view.                             *)
(*                                                                         *)
(* A process may be killed between any two of its steps, and in the middle *)
(* of an append.  The world it looks at is the tracker, the trees of this  *)
(* box, the agents it launched and the records they publish.               *)
(***************************************************************************)
EXTENDS WorkCoordination, SequencesExt

CONSTANTS
    Procs,          \* processes that may run at once
    Artifacts,      \* what publishing the plan creates, in order
    Deliveries,     \* the delivery records an agent may write
    Results,        \* the result records a dispatch may publish
    Verdicts,       \* what recovery may answer of a dispatch
    MaxCycles, MaxCrashes, MaxEvents   \* bounds of the instance

\* No process and no artifact is named as an absent field is; the records agents and
\* dispatches write have the fields of a run.
ASSUME ControllerAssumption ==
    /\ IsFiniteSet(WorkItems) /\ None \notin Procs
    /\ MaxCycles \in Nat
    /\ None \notin Deliveries \cup Results
    /\ \A doc \in Deliveries \cup Results : IsRun(doc)

VARIABLES
    marker,     \* the started marker beside the root
    journal,    \* sequence of [cycle, phase]
    payload,    \* the payload of the last record
    torn,       \* the last append was cut short
    view,       \* how many records the view's digest covers, 0 if absent
    lock,       \* the process that holds the scheduling lock, or None
    pc, fresh,  \* of each process
    cycle,      \* the cycle the holder of the lock works on
    tracker,    \* how many artifacts of each kind there are
    buried,     \* how many of them newer ones pushed off the page a lookup reads
    initiative, \* the tracker shows the Initiative
    closed,     \* Work Items closed on the tracker
    trees,      \* Work Items that have a tree on this box
    agents,     \* dispatches whose agent is alive
    starts,     \* how often each dispatch was started
    delivery, result,   \* the records beside each started dispatch
    crashes, events,    \* counters of the bounds
    stale,      \* ghost: a fresh start found a journal, and took no notice
    done        \* ghost: the Work Items any record ever called complete

store == <<marker, journal, payload, torn, view, done>>
box   == <<closed, trees, agents, delivery, result>>
shown == <<tracker, buried, initiative>>
world == <<shown, starts, box>>
bounds == <<crashes, events, stale>>
vars  == <<store, lock, pc, fresh, cycle, world, bounds>>

Phases == <<"planned", "applied", "confirmed">>
Dispatches == WorkItems \X (1..MaxCycles)
ItemOf(d) == d[1]

\* A queue holder that no dispatch explains: a tree alone.
TreeRun(i) == <<i, 0>>

NoCycle == [number |-> 0, facts |-> None, launch |-> None, todo |-> <<>>]

(***************************************************************************)
(* The journal: what a load makes of it.                                   *)
(***************************************************************************)
CycleAt(n)  == SubSeq(journal, 3 * n + 1, 3 * n + 3)
Complete    == Len(journal) \div 3
Trailing    == Len(journal) % 3

\* _validate_record_sequence
Ordered ==
    /\ \A k \in 1..Len(journal) :
        /\ journal[k].phase = Phases[((k - 1) % 3) + 1]
        /\ journal[k].cycle = journal[3 * ((k - 1) \div 3) + 1].cycle
    /\ \A m, n \in 0..Complete - 1 :
        m # n => CycleAt(m)[1].cycle # CycleAt(n)[1].cycle

\* Fault: only a journal of complete cycles can be loaded.
LoadableComplete == journal # <<>> /\ ~torn /\ Ordered /\ view = Len(journal)

\* load_recoverable: the view must cover exactly the complete cycles, and may
\* be absent only when the first cycle is the one left over.
Loadable ==
    /\ journal # <<>> /\ ~torn /\ Ordered
    /\ IF Trailing = 0 THEN view = Len(journal)
       ELSE /\ view = 3 * Complete
            /\ \A n \in 0..Complete - 1 :
                  CycleAt(n)[1].cycle # Last(journal).cycle

LastPhase == IF journal = <<>> THEN "none" ELSE Last(journal).phase

IsFresh == ~marker /\ journal = <<>> /\ ~torn /\ view = 0

Init ==
    /\ marker = FALSE /\ journal = <<>> /\ payload = None /\ torn = FALSE
    /\ view = 0
    /\ lock = None
    /\ pc = [p \in Procs |-> "idle"] /\ fresh = [p \in Procs |-> FALSE]
    /\ cycle = NoCycle
    /\ tracker = [a \in ToSet(Artifacts) |-> 0] /\ buried = tracker
    /\ initiative = FALSE
    /\ closed = {} /\ trees = {} /\ agents = {}
    /\ starts = [d \in Dispatches |-> 0]
    /\ delivery = [d \in Dispatches |-> None]
    /\ result = [d \in Dispatches |-> None]
    /\ crashes = 0 /\ events = 0 /\ stale = FALSE /\ done = {}

(***************************************************************************)
(* A process until it holds the lock: run_cycle.                           *)
(***************************************************************************)
Goto(p, at) == pc' = [pc EXCEPT ![p] = at]

Begin(p) ==
    /\ pc[p] = "idle" /\ Complete < MaxCycles
    /\ fresh' = [fresh EXCEPT ![p] = IsFresh]
    /\ Goto(p, "mark")
    /\ UNCHANGED <<store, lock, cycle, world, bounds>>

MarkStarted(p) ==
    /\ pc[p] = "mark"
    /\ marker' = TRUE
    /\ Goto(p, "lock")
    /\ UNCHANGED <<journal, payload, torn, view, done, lock, fresh, cycle, world,
                   bounds>>

LockHeld(p) ==
    /\ pc[p] = "lock" /\ lock # None
    /\ Goto(p, "idle")
    /\ UNCHANGED <<store, lock, fresh, cycle, world, bounds>>

\* Fault: a planned record is always resumed.
IndeterminateNever == FALSE

\* A launch in a planned record may have run or not: resumption refuses it.
Indeterminate == LastPhase = "planned" /\ payload.launch # None

\* The lock is taken and the load refuses: the process ends.
LoadRefused(p) ==
    /\ pc[p] = "lock" /\ lock = None /\ ~fresh[p]
    /\ ~Loadable \/ Indeterminate
    /\ Goto(p, "idle")
    /\ UNCHANGED <<store, lock, fresh, cycle, world, bounds>>

\* An earlier process left a cycle unfinished: _resume takes it up where the
\* last record stands, with the facts and the actions the record holds.
Resume(p) ==
    /\ pc[p] = "lock" /\ lock = None /\ ~fresh[p]
    /\ Loadable /\ LastPhase # "confirmed" /\ ~Indeterminate
    /\ lock' = p
    /\ cycle' = payload
    /\ Goto(p, IF LastPhase = "planned" THEN "apply" ELSE "confirm")
    /\ UNCHANGED <<store, fresh, world, bounds>>

Open(p) ==
    /\ pc[p] = "lock" /\ lock = None
    /\ fresh[p] \/ (Loadable /\ LastPhase = "confirmed")
    /\ (IF fresh[p] THEN 1 ELSE Complete + 1) \in 1..MaxCycles
    /\ lock' = p
    /\ cycle' = [NoCycle EXCEPT !.number = IF fresh[p] THEN 1
                                           ELSE Complete + 1]
    /\ Goto(p, "collect")
    /\ stale' = (stale \/ (fresh[p] /\ journal # <<>>))
    /\ UNCHANGED <<store, fresh, world, crashes, events>>

Release(p) == lock' = None /\ cycle' = NoCycle /\ Goto(p, "idle")

(***************************************************************************)
(* Collecting facts (tools/controller_ports.py).                           *)
(***************************************************************************)
\* A fresh start takes no history, whatever the journal holds by then.
KnownRuns(p) == IF fresh[p] THEN [d \in {} |-> None] ELSE payload.facts.runs

\* Fault: what the tracker shows now replaces what was recorded complete.
KeptItemsNow(p, items) == items

KeptItems(p, items) ==
    IF fresh[p] THEN items ELSE RetainCompleted(payload.facts.items, items)

Started == {d \in Dispatches : starts[d] > 0}
Recorded == {d \in Started : delivery[d] # None \/ result[d] # None}
Unfinished(i) == {d \in Started : ItemOf(d) = i /\ result[d] = None}

\* Fault: recovery concludes without looking who works in the tree.
VerdictsUnseen(d) ==
    IF d \notin Started \/ result[d] # None THEN {None} ELSE Verdicts \cup {None}

\* What recovery may answer: nothing once a result is published, and a
\* terminal verdict only where the scan found nobody in the dispatch's tree.
VerdictsOf(d) ==
    IF d \notin Started \/ result[d] # None THEN {None}
    ELSE {v \in Verdicts \cup {None} : v \in TerminalKinds =>
                \A e \in agents : ItemOf(e) # ItemOf(d)}

\* The runs of delivery.collect: known runs and recorded ones, each read and
\* classified; answer is what recovery says of each.
Delivered(known, answer) ==
    [d \in DOMAIN known \cup Recorded |->
        LET before == IF d \in DOMAIN known THEN known[d]
                      ELSE RunOf(ItemOf(d), "running")
        IN IF d \notin Dispatches THEN before
           ELSE WithRecovery(Observe(before, delivery[d], result[d]),
                             answer[d])]

\* The dispatch a queue holder names: the first record without a result.
HolderDispatch(i) ==
    IF Unfinished(i) = {} THEN TreeRun(i)
    ELSE CHOOSE d \in Unfinished(i) :
            \A e \in Unfinished(i) : d[2] <= e[2]

\* A holder adds a run unless its dispatch is known or, when it names none,
\* some run already owns the slot: _run_matches_holder.
HolderRuns(runs, items) ==
    {h \in {HolderDispatch(i) : i \in
                {j \in WorkItems \ closed : j \in trees \/ Unfinished(j) # {}}} :
        /\ h \notin DOMAIN runs
        /\ ~\E d \in DOMAIN runs :
              /\ runs[d].item = ItemOf(h) /\ OwnsSlot(d, runs[d], items)
              /\ h[2] = 0 \/ d[2] = 0}

\* What the tracker says of every Work Item.
ItemsSeen == [i \in WorkItems |-> IF i \in closed THEN "complete" ELSE "open"]

\* The runs one look sees: those of the records, and those of the queue holders.
RunsSeen(known, answer) ==
    LET runs == Delivered(known, answer)
        held == HolderRuns(runs, ItemsSeen)
    IN [d \in DOMAIN runs \cup held |->
            IF d \in held THEN RunOf(ItemOf(d), "running") ELSE runs[d]]

\* Everything one collection may see, merged with the history and advanced.
FactsOf(p, answer) ==
    AdvanceCompleted(
        [items |-> KeptItems(p, ItemsSeen),
         runs  |-> MergeRuns(KnownRuns(p), RunsSeen(KnownRuns(p), answer)),
         debt  |-> closed \cap trees, bars |-> {}])

Answers(known) ==
    {f \in [DOMAIN known \cup Recorded -> Verdicts \cup {None}] :
        \A d \in DOMAIN f : f[d] \in VerdictsOf(d)}

Facts(p) == {FactsOf(p, answer) : answer \in Answers(KnownRuns(p))}

(***************************************************************************)
(* Planning a cycle: _cycle.                                               *)
(***************************************************************************)
Collect(p) ==
    /\ lock = p /\ pc[p] = "collect"
    /\ \E facts \in Facts(p) :
        IF ~initiative
        THEN /\ cycle' = [cycle EXCEPT !.facts = facts, !.todo = Artifacts]
             /\ Goto(p, "plan")
        ELSE /\ cycle' = [cycle EXCEPT !.facts = facts,
                                       !.launch = NextWorkItem(facts)]
             /\ Goto(p, IF NextWorkItem(facts) = None THEN "plan"
                        ELSE "recheck")
    /\ UNCHANGED <<store, lock, fresh, world, bounds>>

\* The launch is bound only if a second look sees the same coordination facts;
\* the facts recorded are those of the first look, with the run added.
Recheck(p) ==
    /\ lock = p /\ pc[p] = "recheck"
    /\ \E again \in Facts(p) :
        IF CoordinationSnapshot(again) = CoordinationSnapshot(cycle.facts)
        THEN /\ cycle' = [cycle EXCEPT !.facts =
                    WithWorkRun(@, <<cycle.launch, cycle.number>>,
                                cycle.launch)]
             /\ Goto(p, "plan")
             /\ UNCHANGED lock
        ELSE Release(p)
    /\ UNCHANGED <<store, fresh, world, bounds>>

CompleteIn(items) == {i \in WorkItems : items[i] = "complete"}

\* append_phase
Record(p, at, phase, then) ==
    /\ lock = p /\ pc[p] = at
    /\ journal' = Append(journal, [cycle |-> cycle.number, phase |-> phase])
    /\ payload' = cycle
    /\ done' = done \cup CompleteIn(cycle.facts.items)
    /\ Goto(p, then)
    /\ UNCHANGED <<marker, torn, view, lock, fresh, cycle, world, bounds>>

Plan(p)    == Record(p, "plan", "planned", "apply")
Applied(p) == /\ cycle.todo = <<>> /\ cycle.launch = None
              /\ Record(p, "apply", "applied", "confirm")
LaunchApplied(p) == Record(p, "launched", "applied", "confirm")
Confirm(p) == Record(p, "confirm", "confirmed", "view")

\* materialize_view reads the whole journal first and refuses a bad one.
Materialize(p) ==
    /\ lock = p /\ pc[p] = "view"
    /\ view' = IF Ordered /\ Trailing = 0 THEN Len(journal) ELSE view
    /\ Release(p)
    /\ UNCHANGED <<marker, journal, payload, torn, done, fresh, world, bounds>>

(***************************************************************************)
(* Applying the plan through the action ports.                             *)
(***************************************************************************)
\* The dispatch port starts an agent in the item's tree.
Launch(p) ==
    /\ lock = p /\ pc[p] = "apply" /\ cycle.launch # None
    /\ LET d == <<cycle.launch, cycle.number>> IN
        /\ starts' = [starts EXCEPT ![d] = @ + 1]
        /\ agents' = agents \cup {d}
        /\ trees' = trees \cup {ItemOf(d)}
    /\ Goto(p, "launched")
    /\ UNCHANGED <<store, lock, fresh, cycle, shown, closed, delivery, result,
                   bounds>>

\* PlanPublisher.apply looks the artifact up by its marker before it creates;
\* the lookup reads one page and sees no copy that is off it.
Publish(p) ==
    /\ lock = p /\ pc[p] = "apply" /\ cycle.todo # <<>>
    /\ LET a == Head(cycle.todo) IN
        tracker' = [tracker EXCEPT ![a] = IF @ = buried[a] THEN @ + 1 ELSE @]
    /\ cycle' = [cycle EXCEPT !.todo = Tail(@)]
    /\ UNCHANGED <<store, lock, pc, fresh, buried, initiative, starts, box,
                   bounds>>

\* A port that refuses, or whose answer is lost after it acted, ends the
\* process with the planned record as the last one.
PortFails(p) ==
    /\ lock = p /\ pc[p] \in {"apply", "launched"}
    /\ cycle.todo # <<>> \/ cycle.launch # None
    /\ crashes < MaxCrashes /\ crashes' = crashes + 1
    /\ Release(p)
    /\ UNCHANGED <<store, fresh, world, events, stale>>

(***************************************************************************)
(* A process that dies, and the explicit recovery of an empty bootstrap.   *)
(***************************************************************************)
Appending(p) ==
    \/ pc[p] \in {"plan", "launched", "confirm"}
    \/ pc[p] = "apply" /\ cycle.todo = <<>> /\ cycle.launch = None

Crash(p) ==
    /\ pc[p] # "idle" /\ crashes < MaxCrashes
    /\ crashes' = crashes + 1
    /\ Goto(p, "idle")
    /\ IF lock = p THEN lock' = None /\ cycle' = NoCycle
       ELSE UNCHANGED <<lock, cycle>>
    /\ torn' \in {torn, torn \/ Appending(p)}
    /\ UNCHANGED <<marker, journal, payload, view, done, fresh, world, events,
                   stale>>

Recover ==
    /\ lock = None /\ marker /\ journal = <<>> /\ ~torn /\ view = 0
    /\ marker' = FALSE
    /\ UNCHANGED <<journal, payload, torn, view, done, lock, pc, fresh, cycle,
                   world, bounds>>

(***************************************************************************)
(* The world.                                                              *)
(***************************************************************************)
\* The Initiative is shown once everything is published.
ShowInitiative ==
    /\ ~initiative /\ \A a \in ToSet(Artifacts) : tracker[a] > 0
    /\ initiative' = TRUE
    /\ UNCHANGED <<store, lock, pc, fresh, cycle, tracker, buried, starts, box,
                   bounds>>

\* Newer issues or comments push a copy off the page a lookup reads; only a plan
\* with something left to publish looks.
Bury(a) ==
    /\ cycle.todo # <<>> /\ buried[a] < tracker[a]
    /\ buried' = [buried EXCEPT ![a] = @ + 1]
    /\ UNCHANGED <<store, lock, pc, fresh, cycle, tracker, initiative, starts,
                   box, bounds>>

AgentDies(d) ==
    /\ d \in agents /\ agents' = agents \ {d}
    /\ UNCHANGED <<store, lock, pc, fresh, cycle, shown, starts, closed, trees,
                   delivery, result, bounds>>

Deliver(d) ==
    /\ d \in agents /\ events < MaxEvents /\ events' = events + 1
    /\ \E doc \in Deliveries :
          delivery' = [delivery EXCEPT ![d] = [doc EXCEPT !.item = ItemOf(d)]]
    /\ UNCHANGED <<store, lock, pc, fresh, cycle, shown, starts, closed, trees,
                   agents, result, crashes, stale>>

\* A result is published by the dispatch's runner, which may have lost track of
\* an agent that still works, or by a stop; and it may be published again.
PublishResult(d) ==
    /\ d \in Started
    /\ events < MaxEvents /\ events' = events + 1
    /\ \E doc \in Results : result' = [result EXCEPT ![d] = doc]
    /\ UNCHANGED <<store, lock, pc, fresh, cycle, shown, starts, closed, trees,
                   agents, delivery, crashes, stale>>

\* A landing closes the issue, or a person does; a person may open it again, and
\* the tracker may show as open what was closed.
CloseIssue(i) ==
    /\ i \notin closed /\ closed' = closed \cup {i}
    /\ events < MaxEvents /\ events' = events + 1
    /\ UNCHANGED <<store, lock, pc, fresh, cycle, shown, starts, trees, agents,
                   delivery, result, crashes, stale>>

ReopenIssue(i) ==
    /\ i \in closed /\ closed' = closed \ {i}
    /\ events < MaxEvents /\ events' = events + 1
    /\ UNCHANGED <<store, lock, pc, fresh, cycle, shown, starts, trees, agents,
                   delivery, result, crashes, stale>>

\* worktree done: a clean tree with nothing left to land; nobody is asked
\* whether an agent still works in it.
RemoveTree(i) ==
    /\ i \in trees /\ trees' = trees \ {i}
    /\ events < MaxEvents /\ events' = events + 1
    /\ UNCHANGED <<store, lock, pc, fresh, cycle, shown, starts, closed, agents,
                   delivery, result, crashes, stale>>

Process(p) ==
    \/ Begin(p) \/ MarkStarted(p) \/ LockHeld(p) \/ LoadRefused(p)
    \/ Resume(p) \/ Open(p) \/ Collect(p) \/ Recheck(p) \/ Plan(p)
    \/ Launch(p) \/ Publish(p) \/ PortFails(p) \/ Applied(p)
    \/ LaunchApplied(p) \/ Confirm(p) \/ Materialize(p) \/ Crash(p)

Environment ==
    \/ ShowInitiative \/ \E a \in ToSet(Artifacts) : Bury(a)
    \/ \E d \in Dispatches : AgentDies(d) \/ Deliver(d) \/ PublishResult(d)
    \/ \E i \in WorkItems : CloseIssue(i) \/ ReopenIssue(i) \/ RemoveTree(i)

Next == (\E p \in Procs : Process(p)) \/ Recover \/ Environment

Spec == Init /\ [][Next]_vars

(***************************************************************************)
(* What the Controller promises.                                           *)
(***************************************************************************)
TypeOK ==
    /\ marker \in BOOLEAN /\ torn \in BOOLEAN /\ stale \in BOOLEAN
    /\ journal \in Seq([cycle : 1..MaxCycles, phase : ToSet(Phases)])
    /\ view \in 0..Len(journal)
    /\ lock \in Procs \cup {None}
    /\ fresh \in [Procs -> BOOLEAN]
    /\ pc \in [Procs -> {"idle", "mark", "lock", "collect", "recheck", "plan",
                         "apply", "launched", "confirm", "view"}]
    /\ agents \subseteq Started /\ trees \subseteq WorkItems
    /\ starts \in [Dispatches -> Nat] /\ done \subseteq WorkItems
    /\ tracker \in [ToSet(Artifacts) -> Nat] /\ buried \in [ToSet(Artifacts) -> Nat]

\* Two agents never work on one Work Item unless a result was already published
\* for one of them, whatever was crashed, retried, raced, reopened or read as
\* finished in between: the slot rule and the occupancy scan together
\* (controller_policy.py:246, controller_ports.py:428).
OneAgentPerItem ==
    \A d, e \in agents : ItemOf(d) = ItemOf(e) =>
        d = e \/ result[d] # None \/ result[e] # None

\* The agents at work never exceed the ruled limit (controller_policy.py:288): those
\* that have their tree and no published result.  A tree may be removed under an
\* agent, and a result published beside one; from then on nothing counts it.
AtWork == {d \in agents : result[d] = None /\ ItemOf(d) \in trees}

AgentsWithinLimit == Cardinality(AtWork) <= WipLimit

\* What a plan asks for is done at most once, across crashes and resumptions: no
\* artifact has two copies where the lookup reads, and each dispatch is started once
\* unless a fresh start overlooked the journal of another (controller.py:252,
\* controller_planning.py:1129, 1262).
AppliedOnce ==
    /\ \A a \in ToSet(Artifacts) : tracker[a] <= buried[a] + 1
    /\ stale \/ \A d \in Dispatches : starts[d] <= 1

\* Between two processes the journal can be loaded, unless the last append was
\* cut short, a fresh start overlooked it, or a process died after it recorded
\* "confirmed" and before it rewrote the view (controller_store.py:363, 400).
UnreadableHasACause ==
    (lock = None /\ journal # <<>>) =>
        \/ Loadable \/ torn \/ stale
        \/ LastPhase = "confirmed" /\ view = Len(journal) - 3

\* A Work Item the Controller itself completes had exactly one SHA in everything read
\* of the run, now or in any cycle before, and another dispatch reviewed it
\* (controller_policy.py:541, 579, 613).  What a delivery record alone says of a landing
\* proves nothing and is not read; it must not name a second SHA either.
Newly(p, facts) ==
    {i \in WorkItems \ closed : facts.items[i] = "complete"
        /\ (~fresh[p] => payload.facts.items[i] # "complete")}

ShasKnown(p, d) ==
    UNION {IF d \in DOMAIN KnownRuns(p) THEN ShasOf(KnownRuns(p)[d]) ELSE {},
           IF delivery[d] = None THEN {} ELSE ShasOf(ReadDelivery(delivery[d])),
           IF result[d] = None THEN {} ELSE ShasOf(result[d])}

CompletionOnOneCandidate ==
    [][\A p \in Procs : Collect(p) =>
        \A i \in Newly(p, cycle'.facts) :
            \E d \in Started :
                /\ ItemOf(d) = i /\ d \in DOMAIN cycle'.facts.runs
                /\ Cardinality(ShasKnown(p, d)) = 1
                /\ delivery[d] # None => Cardinality(ShasOf(delivery[d])) <= 1
                /\ cycle'.facts.runs[d].ev["reviewer"] # d]_vars

\* No Work Item any cycle ever recorded complete is launched again, though its
\* issue is opened again, its tree is gone and its run forgotten: a completion is
\* carried over what the tracker shows (controller_policy.py:633, controller.py:516),
\* unless a fresh start overlooked the journal.
NoRelaunchOfCompleted ==
    [][\A d \in Dispatches :
        starts'[d] > starts[d] => stale \/ ItemOf(d) \notin done]_vars

\* A dispatch recovery concluded stays concluded.  The code breaks this: the
\* next collection reads the delivery record again (controller_policy.py:471)
\* before recovery is asked, and the verdict may then be another one.
ConcludedIsFinal ==
    [][payload # None =>
        \A d \in DOMAIN payload.facts.runs \cap DOMAIN payload'.facts.runs :
            payload.facts.runs[d].ev["recovery"] \in TerminalKinds =>
                payload'.facts.runs[d].ev["recovery"] \in TerminalKinds]_payload
=============================================================================
