-------------------------- MODULE Controller_proofs --------------------------
(***************************************************************************)
(* What is proved of the Controller for any number of processes, Work       *)
(* Items, artifacts, cycles and crashes, and for any evidence the records of *)
(* agents and dispatches may hold.                                          *)
(*                                                                         *)
(* The argument turns on the journal.  As long as it is Numbered, the cycles *)
(* in it are the ones processes worked through in order, and its last record *)
(* knows every dispatch ever started.  A fresh start that overlooked it      *)
(* makes it Broken at its first record: nothing can be loaded any more, and  *)
(* only other fresh starts, all of them of cycle 1, still launch.            *)
(***************************************************************************)
EXTENDS Controller, SequenceTheorems, FiniteSetTheorems, WellFoundedInduction, TLAPS

\* The holder of the lock is at one of these steps.
At(steps) == lock # None /\ pc[lock] \in steps

Unplanned == {"collect", "recheck", "plan"}
Recording == {"apply", "launched", "confirm"}
Working   == Unplanned \cup Recording \cup {"view"}

LockSound == \A p \in Procs : pc[p] \in Working <=> lock = p

\* The cycles of the journal are 1, 2, 3 and so on, each with its records in order.
Numbered ==
  \A k \in 1..Len(journal) :
    journal[k] = [cycle |-> ((k - 1) \div 3) + 1, phase |-> Phases[((k - 1) % 3) + 1]]

Broken ==
  /\ journal # <<>> /\ journal[1].cycle = 1
  /\ \E k \in 2..Len(journal) : journal[k] = [cycle |-> 1, phase |-> "planned"]

JournalSound ==
  /\ Numbered \/ (Broken /\ stale)
  /\ Numbered => IF Trailing = 0 THEN view = Len(journal) \/ view = Len(journal) - 3
                 ELSE view = 3 * Complete

CycleOK(c) ==
  c \in [number : 1..MaxCycles, facts : {c.facts}, launch : WorkItems \cup {None},
         todo : {c.todo}]

PayloadSound ==
  /\ journal # <<>> => CycleOK(payload) /\ payload.number = journal[Len(journal)].cycle
  /\ lock # None => CycleOK(cycle)

\* The holder goes on from a journal it read, or overlooked one.
Orderly ==
  /\ Numbered /\ Trailing = 0 /\ view = Len(journal) /\ cycle.number = Complete + 1
  /\ fresh[lock] <=> journal = <<>>

Overlooked == fresh[lock] /\ journal # <<>> /\ stale /\ cycle.number = 1

HolderSound ==
  /\ At(Unplanned) => Orderly \/ Overlooked
  /\ At(Recording) =>
       /\ journal # <<>>
       /\ payload.number = cycle.number /\ payload.launch = cycle.launch
       /\ payload.facts = cycle.facts
       /\ Numbered => Trailing = (IF pc[lock] = "confirm" THEN 2 ELSE 1)
  /\ At({"view"}) /\ Numbered => Trailing = 0 /\ view = Len(journal) - 3
  /\ lock # None /\ Broken => cycle.number = 1

-----------------------------------------------------------------------------
\* A run is bound to its Work Item, and without a start it names no candidate.
RunBound(d, run) ==
  /\ IsRun(run) /\ run.item = ItemOf(d)
  /\ d \notin Started => run.ev["candidate"] = None

\* Every dispatch started is known; one without a result shows neither landing nor
\* publication, and was not concluded while its agent is alive.
RunsSound(runs) ==
  /\ DOMAIN runs \subseteq WorkItems \X (0..MaxCycles) /\ Started \subseteq DOMAIN runs
  /\ \A d \in DOMAIN runs : RunBound(d, runs[d])
  /\ \A d \in DOMAIN runs \cap Dispatches :
       result[d] = None => runs[d].ev["landed"] = None /\ ~runs[d].published
  /\ \A d \in agents : result[d] = None => runs[d].ev["recovery"] \notin TerminalKinds

HistorySound ==
  /\ Numbered => IF journal = <<>> THEN Started = {} ELSE RunsSound(payload.facts.runs)
  /\ At({"recheck", "plan"}) /\ Orderly => RunsSound(cycle.facts.runs)

\* Whoever still works on the item about to be launched has a published result, there
\* is room for one more, and nothing of this cycle was started.
LaunchSound ==
  /\ At({"collect"}) => cycle.launch = None
  /\ At({"recheck"}) => /\ cycle.launch # None
                        /\ DOMAIN cycle.facts = {"items", "runs", "debt", "bars"}
                        /\ LiveFor(cycle.facts, cycle.launch) = {}
  /\ At({"recheck", "plan", "apply"}) /\ cycle.launch # None =>
       /\ cycle.facts.items[cycle.launch] = "open"
       /\ \A e \in agents : ItemOf(e) = cycle.launch => result[e] # None
       /\ Cardinality(AtWork) < WipLimit
  /\ At({"plan", "apply"}) /\ cycle.launch # None =>
       LET d == <<cycle.launch, cycle.number>> IN
         d \in DOMAIN cycle.facts.runs /\ cycle.facts.runs[d] = RunOf(cycle.launch, "launching")
  /\ At({"apply"}) /\ cycle.launch # None /\ Numbered =>
       \A d \in Started : d[2] < cycle.number

StartsSound ==
  /\ \A d \in Dispatches : starts[d] > 1 => d[2] = 1 /\ Broken
  /\ \A d \in Dispatches : result[d] # None \/ delivery[d] # None => starts[d] > 0
  /\ Numbered => \A d \in Started : 3 * d[2] <= Len(journal) + 2

WorldSound ==
  /\ \A a \in ToSet(Artifacts) : buried[a] <= tracker[a] /\ tracker[a] <= buried[a] + 1
  /\ closed \subseteq WorkItems
  /\ DOMAIN delivery = Dispatches /\ DOMAIN result = Dispatches
  /\ \A d \in Dispatches : /\ delivery[d] # None => IsRun(delivery[d])
                           /\ result[d] # None => IsRun(result[d])

\* What was ever recorded complete is complete in the last record, and in the facts the
\* holder goes on with.
DoneSound ==
  ~stale =>
    /\ done \subseteq IF journal = <<>> THEN {} ELSE CompleteIn(payload.facts.items)
    /\ At({"recheck", "plan"}) => done \subseteq CompleteIn(cycle.facts.items)

IInv ==
  /\ TypeOK /\ WorldSound /\ LockSound /\ JournalSound /\ PayloadSound /\ HolderSound
  /\ HistorySound /\ LaunchSound /\ StartsSound
  /\ OneAgentPerItem /\ AgentsWithinLimit /\ DoneSound
-----------------------------------------------------------------------------
(* Runs, and what merging, reading and recovery do to one.                  *)

LEMMA LeastNumber ==
  ASSUME NEW S, S \subseteq Nat, S # {}
  PROVE  \E n \in S : \A m \in S : n <= m
<1> DEFINE R == {ss \in Nat \X Nat : ss[1] < ss[2]}
<1>1. IsWellFoundedOn(R, Nat)
  BY NatLessThanWellFounded DEF OpToRel
<1> HIDE DEF R
<1>2. PICK n \in S : \A m \in S : ~ (<<m, n>> \in R)
  BY <1>1, WFMin
<1>3. \A m \in S : ~ (m < n)
  BY <1>2 DEF R
<1> QED BY <1>2, <1>3

\* What a run keeps when another observation is merged into it.
LEMMA MergeKeeps ==
  ASSUME NEW old, NEW new, IsRun(old), IsRun(new)
  PROVE  LET r == MergeRun(old, new) IN
           /\ IsRun(r)
           /\ r.item = Prefer(old.item, new.item)
           /\ r.published <=> old.published \/ new.published
           /\ r.ev["landed"] \in {old.ev["landed"], new.ev["landed"]}
           /\ r.ev["recovery"] \in {old.ev["recovery"], new.ev["recovery"]}
           /\ r.ev["candidate"] \in {old.ev["candidate"], new.ev["candidate"]}
<1> DEFINE m == MergeIdentity(old, new)
<1>1. /\ IsRun(m)
      /\ m.ev["landed"] \in {old.ev["landed"], new.ev["landed"]}
      /\ m.ev["recovery"] \in {old.ev["recovery"], new.ev["recovery"]}
      /\ m.ev["candidate"] \in {old.ev["candidate"], new.ev["candidate"]}
  BY DEF MergeIdentity, IsRun, Evidence, Identities, Prefer
<1> HIDE DEF m
<1> QED BY <1>1 DEF MergeRun, IsRun, m

LEMMA ObserveKeeps ==
  ASSUME NEW run, NEW dl, NEW rs,
         IsRun(run), dl # None => IsRun(dl), rs # None => IsRun(rs)
  PROVE  LET r == Observe(run, dl, rs) IN
           /\ IsRun(r)
           /\ run.item # None => r.item = run.item
           /\ rs = None =>
                /\ r.published <=> run.published
                /\ r.ev["landed"] \in {run.ev["landed"], None}
                /\ r.ev["recovery"] \in {run.ev["recovery"], None}
<1> DEFINE seen == IF dl = None THEN run ELSE MergeRun(run, ReadDelivery(dl))
<1>1. ASSUME dl # None
      PROVE  LET read == ReadDelivery(dl) IN
               IsRun(read) /\ ~read.published /\ read.ev["landed"] = None
               /\ read.ev["recovery"] = None
  BY <1>1 DEF ReadDelivery, IsRun, Evidence, Identities
<1>2. /\ IsRun(seen) /\ (run.item # None => seen.item = run.item)
      /\ seen.published <=> run.published
      /\ seen.ev["landed"] \in {run.ev["landed"], None}
      /\ seen.ev["recovery"] \in {run.ev["recovery"], None}
  BY <1>1, MergeKeeps DEF Prefer
<1>3. ASSUME rs # None PROVE IsRun(ReadResult(rs))
  BY <1>3 DEF ReadResult, IsRun, Evidence, Identities
<1> HIDE DEF seen
<1>4. Observe(run, dl, rs) = IF rs = None THEN seen ELSE MergeRun(seen, ReadResult(rs))
  BY DEF Observe, seen
<1> QED BY <1>2, <1>3, <1>4, MergeKeeps DEF Prefer

LEMMA RecoveryKeeps ==
  ASSUME NEW run, NEW verdict, IsRun(run)
  PROVE  LET r == WithRecovery(run, verdict) IN
           /\ IsRun(r) /\ r.item = run.item
           /\ r.published <=> run.published
           /\ r.ev["landed"] = run.ev["landed"]
           /\ r.ev["recovery"] \in {run.ev["recovery"], verdict}
  BY DEF WithRecovery, IsRun, Evidence, Identities

LEMMA NewRun ==
  ASSUME NEW i, NEW state
  PROVE  /\ IsRun(RunOf(i, state)) /\ RunOf(i, state).item = i
         /\ ~RunOf(i, state).published
         /\ RunOf(i, state).ev["landed"] = None
         /\ RunOf(i, state).ev["recovery"] = None
         /\ RunOf(i, state).ev["candidate"] = None
  BY DEF RunOf, IsRun, NoEvidence, Evidence, Identities

\* A run without landing, publication or conclusion owns its slot.
LEMMA OwnsWithoutEvidence ==
  ASSUME NEW d, NEW run, NEW items, ~run.published,
         run.ev["landed"] = None, run.ev["recovery"] \notin TerminalKinds
  PROVE  OwnsSlot(d, run, items)
  BY DEF OwnsSlot
-----------------------------------------------------------------------------
(* One look at the records, the queue and the tracker.                      *)

LEMMA HolderIsUnfinished ==
  ASSUME NEW i \in WorkItems, Unfinished(i) # {}
  PROVE  HolderDispatch(i) \in Unfinished(i)
<1> DEFINE S == {d[2] : d \in Unfinished(i)}
<1>1. S \subseteq Nat /\ S # {}
  BY ControllerAssumption DEF Unfinished, Started, Dispatches
<1>2. PICK n \in S : \A m \in S : n <= m
  <2> HIDE DEF S
  <2> QED BY <1>1, LeastNumber
<1>3. \E d \in Unfinished(i) : \A e \in Unfinished(i) : d[2] <= e[2]
  BY <1>2
<1> QED BY <1>3 DEF HolderDispatch

LEMMA HolderOfItem ==
  ASSUME NEW i \in WorkItems
  PROVE  /\ ItemOf(HolderDispatch(i)) = i
         /\ HolderDispatch(i) \in WorkItems \X (0..MaxCycles)
<1>1. CASE Unfinished(i) = {}
  BY <1>1, ControllerAssumption DEF HolderDispatch, TreeRun, ItemOf
<1>2. CASE Unfinished(i) # {}
  BY <1>2, HolderIsUnfinished, ControllerAssumption
     DEF Unfinished, Started, Dispatches, ItemOf
<1> QED BY <1>1, <1>2

LEMMA FiniteDispatches == IsFiniteSet(Dispatches) /\ IsFiniteSet(WorkItems \X (0..MaxCycles))
<1>1. IsFiniteSet(1..MaxCycles) /\ IsFiniteSet(0..MaxCycles)
  BY ControllerAssumption, FS_Interval
<1> QED BY <1>1, ControllerAssumption, FS_Product DEF Dispatches

\* What is known before a look at the records of a dispatch.
Before(known, d) == IF d \in DOMAIN known THEN known[d] ELSE RunOf(ItemOf(d), "running")

LEMMA DeliveredRun ==
  ASSUME WorldSound, NEW known, \A d \in DOMAIN known : IsRun(known[d]),
         NEW answer \in Answers(known),
         NEW d \in DOMAIN known \cup Recorded
  PROVE  LET r == Delivered(known, answer)[d]
             b == Before(known, d)
         IN  /\ IsRun(r) /\ IsRun(b)
             /\ b.item # None => r.item = b.item
             /\ d \in Dispatches /\ result[d] = None =>
                  /\ r.published <=> b.published
                  /\ r.ev["landed"] \in {b.ev["landed"], None}
                  /\ r.ev["recovery"] \in {b.ev["recovery"], None, answer[d]}
<1> DEFINE b == Before(known, d)
           o == Observe(b, delivery[d], result[d])
<1>1. Delivered(known, answer)[d] =
        IF d \notin Dispatches THEN b ELSE WithRecovery(o, answer[d])
  BY DEF Delivered, Before
<1>2. IsRun(b)
  BY NewRun DEF Before
<1> HIDE DEF b
<1>3. CASE d \notin Dispatches
  BY <1>1, <1>2, <1>3 DEF b
<1>4. CASE d \in Dispatches
  <2>1. (delivery[d] # None => IsRun(delivery[d])) /\ (result[d] # None => IsRun(result[d]))
    BY <1>4 DEF WorldSound
  <2>2. /\ IsRun(o) /\ (b.item # None => o.item = b.item)
        /\ result[d] = None =>
              /\ o.published <=> b.published
              /\ o.ev["landed"] \in {b.ev["landed"], None}
              /\ o.ev["recovery"] \in {b.ev["recovery"], None}
    BY <1>2, <2>1, ObserveKeeps
  <2> HIDE DEF o
  <2> QED BY <1>1, <1>2, <1>4, <2>2, RecoveryKeeps DEF b
<1> QED BY <1>3, <1>4

\* The queue holders that add a run.
Held(known, answer) == HolderRuns(Delivered(known, answer), ItemsSeen)

LEMMA HeldRuns ==
  ASSUME NEW known, NEW answer
  PROVE  /\ Held(known, answer) \subseteq WorkItems \X (0..MaxCycles)
         /\ Held(known, answer) \cap (DOMAIN known \cup Recorded) = {}
<1>1. DOMAIN Delivered(known, answer) = DOMAIN known \cup Recorded
  BY DEF Delivered
<1> QED BY <1>1, HolderOfItem DEF Held, HolderRuns

\* The runs of a look, merged with what was known.
Merged(known, answer) == MergeRuns(known, RunsSeen(known, answer))

LEMMA MergedDomain ==
  ASSUME NEW known, NEW answer
  PROVE  /\ DOMAIN Merged(known, answer) = DOMAIN known \cup Recorded \cup Held(known, answer)
         /\ IsFiniteSet(DOMAIN known) => IsFiniteSet(DOMAIN Merged(known, answer))
<1>1. DOMAIN RunsSeen(known, answer) = DOMAIN known \cup Recorded \cup Held(known, answer)
  BY DEF RunsSeen, Held, Delivered
<1>2. DOMAIN Merged(known, answer) = DOMAIN known \cup Recorded \cup Held(known, answer)
  BY <1>1 DEF Merged, MergeRuns
<1>3. IsFiniteSet(Recorded) /\ IsFiniteSet(Held(known, answer))
  <2>1. Recorded \subseteq Dispatches
    BY DEF Recorded, Started
  <2> QED BY <2>1, HeldRuns, FiniteDispatches, FS_Subset
<1> QED BY <1>2, <1>3, FS_Union

LEMMA MergedRun ==
  ASSUME WorldSound, NEW known, \A d \in DOMAIN known : IsRun(known[d]),
         NEW answer \in Answers(known),
         NEW d \in DOMAIN Merged(known, answer)
  PROVE  LET r == Merged(known, answer)[d]
             b == Before(known, d)
         IN  /\ IsRun(r)
             /\ b.item # None => r.item = b.item
             /\ d \in Dispatches /\ result[d] = None =>
                  /\ r.published <=> b.published
                  /\ r.ev["landed"] \in {b.ev["landed"], None}
                  /\ d \in DOMAIN known \cup Recorded =>
                       r.ev["recovery"] \in {b.ev["recovery"], None, answer[d]}
                  /\ d \notin DOMAIN known \cup Recorded => r.ev["recovery"] = None
<1> DEFINE r == Merged(known, answer)[d]
           b == Before(known, d)
           s == Delivered(known, answer)[d]
<1>1. /\ DOMAIN RunsSeen(known, answer) = DOMAIN known \cup Recorded \cup Held(known, answer)
      /\ DOMAIN Delivered(known, answer) = DOMAIN known \cup Recorded
  BY DEF RunsSeen, Held, Delivered
<1>2. d \in DOMAIN known \cup Recorded \cup Held(known, answer)
  BY MergedDomain
<1>3. CASE d \in Held(known, answer)
  <2>1. d \notin DOMAIN known \cup Recorded
    BY <1>3, HeldRuns
  <2>2. r = RunOf(ItemOf(d), "running") /\ b = RunOf(ItemOf(d), "running")
    BY <1>1, <1>2, <1>3, <2>1 DEF Merged, MergeRuns, RunsSeen, Held, Before
  <2> HIDE DEF r, b
  <2>3. IsRun(r) /\ r = b /\ r.ev["landed"] = None /\ r.ev["recovery"] = None
    BY <2>2, NewRun
  <2> QED BY <2>1, <2>3 DEF r, b
<1>4. CASE d \in Recorded /\ d \notin DOMAIN known
  <2>1. d \notin Held(known, answer)
    BY <1>4, HeldRuns
  <2>2. r = s
    BY <1>1, <1>2, <1>4, <2>1 DEF Merged, MergeRuns, RunsSeen, Held
  <2> HIDE DEF r, s, b
  <2>3. /\ IsRun(s) /\ (b.item # None => s.item = b.item)
        /\ d \in Dispatches /\ result[d] = None =>
             /\ s.published <=> b.published
             /\ s.ev["landed"] \in {b.ev["landed"], None}
             /\ s.ev["recovery"] \in {b.ev["recovery"], None, answer[d]}
    BY <1>4, DeliveredRun DEF s, b
  <2> QED BY <1>4, <2>2, <2>3 DEF r, b
<1>5. CASE d \in DOMAIN known
  <2>1. d \notin Held(known, answer)
    BY <1>5, HeldRuns
  <2>2. r = MergeRun(b, s) /\ b = known[d]
    BY <1>1, <1>2, <1>5, <2>1 DEF Merged, MergeRuns, RunsSeen, Held, Before
  <2> HIDE DEF r, s, b
  <2>3. /\ IsRun(s) /\ IsRun(b) /\ (b.item # None => s.item = b.item)
        /\ d \in Dispatches /\ result[d] = None =>
             /\ s.published <=> b.published
             /\ s.ev["landed"] \in {b.ev["landed"], None}
             /\ s.ev["recovery"] \in {b.ev["recovery"], None, answer[d]}
    BY <1>5, DeliveredRun DEF s, b
  <2>4. /\ IsRun(r) /\ r.item = Prefer(b.item, s.item)
        /\ r.published <=> b.published \/ s.published
        /\ r.ev["landed"] \in {b.ev["landed"], s.ev["landed"]}
        /\ r.ev["recovery"] \in {b.ev["recovery"], s.ev["recovery"]}
    BY <2>2, <2>3, MergeKeeps
  <2>5. b.item # None => r.item = b.item
    BY <2>4 DEF Prefer
  <2>6. ASSUME d \in Dispatches, result[d] = None
        PROVE  /\ r.published <=> b.published
               /\ r.ev["landed"] \in {b.ev["landed"], None}
               /\ r.ev["recovery"] \in {b.ev["recovery"], None, answer[d]}
    BY <2>3, <2>4, <2>6
  <2> QED BY <1>5, <2>4, <2>5, <2>6 DEF r, b
<1> QED BY <1>2, <1>3, <1>4, <1>5

\* A dispatch that was never started has no records: a look changes nothing of its run.
LEMMA UnstartedRun ==
  ASSUME WorldSound, StartsSound, NEW known, \A d \in DOMAIN known : IsRun(known[d]),
         NEW answer \in Answers(known),
         NEW d \in DOMAIN Merged(known, answer), d \notin Started
  PROVE  Merged(known, answer)[d].ev["candidate"] = Before(known, d).ev["candidate"]
<1> DEFINE b == Before(known, d)
           r == Merged(known, answer)[d]
<1>1. /\ DOMAIN RunsSeen(known, answer) = DOMAIN known \cup Recorded \cup Held(known, answer)
      /\ DOMAIN Delivered(known, answer) = DOMAIN known \cup Recorded
      /\ d \in DOMAIN known \cup Recorded \cup Held(known, answer)
      /\ d \notin Recorded
  BY MergedDomain DEF RunsSeen, Held, Delivered, Recorded
<1>2. CASE d \notin DOMAIN known
  BY <1>1, <1>2 DEF Merged, MergeRuns, RunsSeen, Held, Before
<1>3. CASE d \in DOMAIN known
  <2>1. d \notin Held(known, answer)
    BY <1>3, HeldRuns
  <2>2. r = MergeRun(b, Delivered(known, answer)[d]) /\ b = known[d]
    BY <1>1, <1>3, <2>1 DEF Merged, MergeRuns, RunsSeen, Held, Before
  <2>3. Delivered(known, answer)[d] = b
    <3>1. CASE d \notin Dispatches
      BY <1>3, <2>2, <3>1 DEF Delivered
    <3>2. CASE d \in Dispatches
      <4>1. delivery[d] = None /\ result[d] = None
        BY <3>2 DEF StartsSound, Started
      <4>2. answer[d] = None
        BY <1>3 DEF Answers, VerdictsOf
      <4>3. Delivered(known, answer)[d] = WithRecovery(Observe(b, delivery[d], result[d]), answer[d])
        BY <1>3, <2>2, <3>2 DEF Delivered
      <4> QED BY <4>1, <4>2, <4>3 DEF WithRecovery, Observe
    <3> QED BY <3>1, <3>2
  <2>4. IsRun(b)
    BY <1>3, <2>2
  <2> HIDE DEF b, r
  <2>5. r.ev["candidate"] = b.ev["candidate"]
    BY <2>2, <2>3, <2>4, MergeKeeps
  <2> QED BY <2>5 DEF b, r
<1> QED BY <1>2, <1>3
-----------------------------------------------------------------------------
(* What the facts of a cycle say of the agents alive.                       *)

LEMMA NeverBoth ==
  ASSUME NEW j, Len(j) \in Nat,
         \A k \in 1..Len(j) :
           j[k] = [cycle |-> ((k - 1) \div 3) + 1, phase |-> Phases[((k - 1) % 3) + 1]],
         NEW k \in 2..Len(j), j[k] = [cycle |-> 1, phase |-> "planned"]
  PROVE  FALSE
<1>1. ((k - 1) \div 3) + 1 = 1 /\ Phases[((k - 1) % 3) + 1] = "planned"
  <2>1. k \in 1..Len(j)
    OBVIOUS
  <2>2. j[k] = [cycle |-> ((k - 1) \div 3) + 1, phase |-> Phases[((k - 1) % 3) + 1]]
    BY <2>1
  <2> QED BY <2>2
<1>2. k \in Nat /\ k >= 2 /\ (k - 1) \div 3 \in Int
  OBVIOUS
<1>3. (k - 1) \div 3 = 0
  BY <1>1, <1>2
<1>4. (k - 1) % 3 \in 1..2
  BY <1>2, <1>3
<1> QED BY <1>1, <1>4 DEF Phases

LEMMA NotBoth == ASSUME TypeOK PROVE ~ (Numbered /\ Broken)
<1> SUFFICES ASSUME Numbered, Broken PROVE FALSE
  OBVIOUS
<1>1. PICK k \in 2..Len(journal) : journal[k] = [cycle |-> 1, phase |-> "planned"]
  BY DEF Broken
<1>2. Len(journal) \in Nat
  BY DEF TypeOK
<1> QED BY <1>1, <1>2, NeverBoth DEF Numbered

LEMMA NotBothNext == ASSUME TypeOK' PROVE ~ (Numbered' /\ Broken')
<1> SUFFICES ASSUME Numbered', Broken' PROVE FALSE
  OBVIOUS
<1>1. PICK k \in 2..Len(journal') : journal'[k] = [cycle |-> 1, phase |-> "planned"]
  BY DEF Broken
<1>2. Len(journal') \in Nat
  BY DEF TypeOK
<1> QED BY <1>1, <1>2, NeverBoth DEF Numbered

LEMMA LookOf ==
  ASSUME NEW p, NEW f \in Facts(p)
  PROVE  /\ DOMAIN f = {"items", "runs", "debt", "bars"}
         /\ f.debt = closed \cap trees
         /\ \A i \in WorkItems : f.items[i] = "open" => i \notin closed
         /\ \A i \in WorkItems : KeptItems(p, ItemsSeen)[i] = "complete" =>
              f.items[i] = "complete"
         /\ \A i \in WorkItems : f.items[i] = "complete" =>
              \/ KeptItems(p, ItemsSeen)[i] = "complete"
              \/ \E d \in DOMAIN f.runs :
                    f.runs[d].item = i /\ CompletionReady(d, f.runs[d])
         /\ \E answer \in Answers(KnownRuns(p)) : f.runs = Merged(KnownRuns(p), answer)
<1>1. PICK answer \in Answers(KnownRuns(p)) : f = FactsOf(p, answer)
  BY DEF Facts
<1> DEFINE kept == KeptItems(p, ItemsSeen)
           runs == Merged(KnownRuns(p), answer)
           raw  == [items |-> kept, runs |-> runs, debt |-> closed \cap trees, bars |-> {}]
<1>2. ASSUME NEW i \in WorkItems PROVE kept[i] = "open" => i \notin closed
  BY DEF KeptItems, ItemsSeen, RetainCompleted
<1>3. f = AdvanceCompleted(raw)
  BY <1>1 DEF FactsOf, Merged
<1> HIDE DEF kept, runs
<1>4. /\ DOMAIN f = {"items", "runs", "debt", "bars"}
      /\ f.debt = closed \cap trees /\ f.runs = runs
      /\ f.items = [i \in WorkItems |->
           IF \E d \in DOMAIN runs : runs[d].item = i /\ CompletionReady(d, runs[d])
           THEN "complete" ELSE kept[i]]
  BY <1>3 DEF AdvanceCompleted
<1> QED BY <1>2, <1>4 DEF runs, kept

\* The history a look takes up.
LEMMA HistoryTaken ==
  ASSUME IInv, At({"collect", "recheck"})
  PROVE  LET known == KnownRuns(lock) IN
           /\ DOMAIN known \subseteq WorkItems \X (0..MaxCycles)
           /\ \A d \in DOMAIN known : IsRun(known[d]) /\ RunBound(d, known[d])
           /\ fresh[lock] => DOMAIN known = {}
           /\ ~fresh[lock] => Orderly /\ RunsSound(known)
           /\ fresh[lock] /\ Orderly => Started = {}
<1>1. Orderly \/ Overlooked
  BY DEF IInv, HolderSound, At, Unplanned
<1>2. CASE fresh[lock]
  <2>1. KnownRuns(lock) = [d \in {} |-> None]
    BY <1>2 DEF KnownRuns
  <2>2. Orderly => Started = {}
    BY <1>2 DEF Orderly, IInv, HistorySound
  <2> QED BY <1>2, <2>1, <2>2
<1>3. CASE ~fresh[lock]
  <2>1. Orderly /\ Numbered /\ journal # <<>>
    BY <1>1, <1>3 DEF Overlooked, Orderly
  <2>2. KnownRuns(lock) = payload.facts.runs /\ RunsSound(payload.facts.runs)
    BY <1>3, <2>1 DEF KnownRuns, IInv, HistorySound
  <2> QED BY <1>3, <2>1, <2>2 DEF RunsSound, RunBound
<1> QED BY <1>2, <1>3

\* Whatever history it took, a look binds every run to its Work Item and takes no
\* candidate from a dispatch that was never started.
LEMMA LookIsBound ==
  ASSUME IInv, At({"collect", "recheck"}), NEW f \in Facts(lock)
  PROVE  /\ DOMAIN f.runs \subseteq WorkItems \X (0..MaxCycles)
         /\ \A d \in DOMAIN f.runs : RunBound(d, f.runs[d])
<1> DEFINE known == KnownRuns(lock)
<1>1. PICK answer \in Answers(known) : f.runs = Merged(known, answer)
  BY LookOf
<1>2. /\ DOMAIN known \subseteq WorkItems \X (0..MaxCycles)
      /\ \A d \in DOMAIN known : IsRun(known[d]) /\ RunBound(d, known[d])
  BY HistoryTaken
<1>3. WorldSound /\ StartsSound
  BY DEF IInv
<1> HIDE DEF known
<1>4. DOMAIN f.runs \subseteq WorkItems \X (0..MaxCycles)
  <2>1. Recorded \subseteq WorkItems \X (0..MaxCycles)
    BY ControllerAssumption DEF Recorded, Started, Dispatches
  <2> QED BY <1>1, <1>2, <2>1, MergedDomain, HeldRuns
<1>5. ASSUME NEW d \in DOMAIN f.runs PROVE RunBound(d, f.runs[d])
  <2> DEFINE b == Before(known, d)
  <2>1. b.item = ItemOf(d) /\ (d \notin Started => b.ev["candidate"] = None)
    BY <1>2, NewRun DEF Before, RunBound
  <2>2. ItemOf(d) # None
    BY <1>4, CoordinationAssumption DEF ItemOf
  <2>3. IsRun(f.runs[d]) /\ f.runs[d].item = ItemOf(d)
    BY <1>1, <1>2, <1>3, <2>1, <2>2, MergedRun
  <2>4. d \notin Started => f.runs[d].ev["candidate"] = None
    BY <1>1, <1>2, <1>3, <2>1, UnstartedRun
  <2> QED BY <2>3, <2>4 DEF RunBound
<1> QED BY <1>4, <1>5

\* A look after an orderly history keeps what the history knows.
LEMMA LookIsSound ==
  ASSUME IInv, At({"collect", "recheck"}), Orderly, NEW f \in Facts(lock)
  PROVE  RunsSound(f.runs)
<1> DEFINE known == KnownRuns(lock)
<1>1. PICK answer \in Answers(known) : f.runs = Merged(known, answer)
  BY LookOf
<1>2. /\ \A d \in DOMAIN known : IsRun(known[d])
      /\ fresh[lock] => DOMAIN known = {} /\ Started = {}
      /\ ~fresh[lock] => RunsSound(known)
  BY HistoryTaken
<1> HIDE DEF known
<1>3. DOMAIN f.runs = DOMAIN known \cup Recorded \cup Held(known, answer)
  BY <1>1, MergedDomain
<1>5. Started \subseteq DOMAIN known
  BY <1>2 DEF RunsSound
<1>6. WorldSound /\ TypeOK /\ StartsSound /\ Numbered
  BY DEF IInv, Orderly
<1>7. ASSUME NEW d \in DOMAIN f.runs
      PROVE  d \in Dispatches /\ result[d] = None =>
               f.runs[d].ev["landed"] = None /\ ~f.runs[d].published
  <2> DEFINE b == Before(known, d)
             r == f.runs[d]
  <2>1. d \in Dispatches /\ result[d] = None =>
          (r.published <=> b.published) /\ r.ev["landed"] \in {b.ev["landed"], None}
    BY <1>1, <1>2, <1>6, <1>7, MergedRun
  <2>2. d \in Dispatches /\ result[d] = None => b.ev["landed"] = None /\ ~b.published
    BY <1>2, NewRun DEF Before, RunsSound
  <2> HIDE DEF b, r
  <2> QED BY <2>1, <2>2 DEF r
<1>8. ASSUME NEW e \in agents, result[e] = None
      PROVE  f.runs[e].ev["recovery"] \notin TerminalKinds
  <2> DEFINE b == Before(known, e)
             r == f.runs[e]
  <2>1. result[e] = None /\ e \in Started /\ e \in Dispatches
    BY <1>6, <1>8 DEF TypeOK, Started
  <2>2. e \in DOMAIN known /\ e \in DOMAIN f.runs /\ ~fresh[lock] /\ b = known[e]
    BY <1>2, <1>3, <1>5, <2>1 DEF Before
  <2>3. b.ev["recovery"] \notin TerminalKinds
    BY <1>2, <2>1, <2>2 DEF RunsSound
  <2> HIDE DEF b
  <2>4. r.ev["recovery"] \in {b.ev["recovery"], None, answer[e]}
    BY <1>1, <1>2, <1>6, <2>1, <2>2, MergedRun DEF b
  <2>5. answer[e] \in VerdictsOf(e)
    BY <2>2 DEF Answers
  <2>6. answer[e] \notin TerminalKinds
    BY <2>1, <2>5 DEF VerdictsOf
  <2> HIDE DEF r
  <2> QED BY <2>3, <2>4, <2>6, CoordinationAssumption DEF r
<1> QED BY <1>3, <1>5, <1>7, <1>8, LookIsBound DEF RunsSound

\* Whatever history it took, a look that finds an agent at work on an item does not
\* take the item for free, unless it is closed.
LEMMA AgentsAreSeen ==
  ASSUME IInv, At({"collect", "recheck"}), NEW f \in Facts(lock),
         NEW e \in agents, result[e] = None
  PROVE  ItemOf(e) \in closed \/ LiveFor(f, ItemOf(e)) # {}
<1> DEFINE i == ItemOf(e)
           known == KnownRuns(lock)
<1>1. PICK answer \in Answers(known) : f.runs = Merged(known, answer)
  BY LookOf
<1>2. e \in Started /\ e \in Dispatches /\ i \in WorkItems /\ i # None
  BY CoordinationAssumption
     DEF IInv, TypeOK, WorldSound, Started, Dispatches, ItemOf
<1>3. ASSUME NEW h \in DOMAIN f.runs, f.runs[h].item = i, ~f.runs[h].published,
             f.runs[h].ev["landed"] = None, f.runs[h].ev["recovery"] \notin TerminalKinds
      PROVE  LiveFor(f, i) # {}
  <2>1. OwnsSlot(h, f.runs[h], f.items)
    BY <1>3, OwnsWithoutEvidence
  <2> QED BY <1>3, <2>1 DEF LiveFor, LiveRuns
<1>4. CASE ~fresh[lock]
  <2>1. Orderly
    BY <1>4, HistoryTaken
  <2>2. RunsSound(f.runs)
    BY <2>1, LookIsSound
  <2> HIDE DEF i
  <2>3. e \in DOMAIN f.runs /\ f.runs[e].item = i /\ ~f.runs[e].published
        /\ f.runs[e].ev["landed"] = None /\ f.runs[e].ev["recovery"] \notin TerminalKinds
    BY <1>2, <2>2 DEF RunsSound, RunBound, i
  <2> QED BY <1>3, <2>3 DEF i
<1>5. CASE fresh[lock] /\ i \notin closed
  <2> DEFINE h == HolderDispatch(i)
             b == Before(known, h)
  <2>1. DOMAIN known = {} /\ WorldSound
    BY <1>5, HistoryTaken DEF IInv
  <2>2. /\ h \in Started /\ h \in Dispatches /\ result[h] = None /\ ItemOf(h) = i
    <3>1. e \in Unfinished(i)
      BY <1>2 DEF Unfinished
    <3> QED BY <1>2, <3>1, HolderIsUnfinished DEF Unfinished, Started
  <2>3. DOMAIN f.runs = Recorded \cup Held(known, answer)
    BY <1>1, <2>1, MergedDomain
  <2>4. h \in DOMAIN f.runs
    <3>1. SUFFICES ASSUME h \notin Recorded PROVE h \in Held(known, answer)
      BY <2>3
    <3>2. DOMAIN Delivered(known, answer) = Recorded
      BY <2>1 DEF Delivered
    <3>3. \A d \in Recorded \cup {h} : d[2] # 0
      BY <2>2, ControllerAssumption DEF Recorded, Started, Dispatches
    <3>4. i \in {j \in WorkItems \ closed : j \in trees \/ Unfinished(j) # {}}
      <4>1. e \in Unfinished(i)
        BY <1>2 DEF Unfinished
      <4> QED BY <1>2, <1>5, <4>1
    <3> HIDE DEF i
    <3> QED BY <3>1, <3>2, <3>3, <3>4 DEF Held, HolderRuns
  <2>5. b = RunOf(i, "running")
    BY <2>1, <2>2 DEF Before
  <2> HIDE DEF b, h, known
  <2>6. b.item = i /\ ~b.published /\ b.ev["landed"] = None /\ b.ev["recovery"] = None
    BY <2>5, NewRun
  <2>7. /\ f.runs[h].item = i
        /\ ~f.runs[h].published /\ f.runs[h].ev["landed"] = None
        /\ f.runs[h].ev["recovery"] = None \/ (h \in Recorded /\ f.runs[h].ev["recovery"] = answer[h])
    BY <1>1, <1>2, <2>1, <2>2, <2>3, <2>4, <2>6, MergedRun DEF b
  <2>8. h \in Recorded => answer[h] \notin TerminalKinds
    BY <1>2, <2>2 DEF Answers, VerdictsOf
  <2> QED BY <1>3, <2>4, <2>7, <2>8, CoordinationAssumption
<1> QED BY <1>2, <1>4, <1>5

LEMMA NextIsEligible ==
  ASSUME NEW facts, NextWorkItem(facts) # None
  PROVE  NextWorkItem(facts) \in Eligible(facts)
<1> DEFINE E == Eligible(facts)
           S == {Rank(i) : i \in E}
<1>1. E # {} /\ E \subseteq WorkItems
  BY DEF NextWorkItem, Eligible
<1>2. ASSUME NEW i \in WorkItems PROVE Rank(i) \in Nat
  <2>1. \E n \in 1..Len(Priority) : Priority[n] = i
    BY CoordinationAssumption
  <2>2. Rank(i) \in 1..Len(Priority)
    BY <2>1 DEF Rank
  <2> QED BY <2>2, CoordinationAssumption
<1> HIDE DEF E
<1>3. S \subseteq Nat /\ S # {}
  BY <1>1, <1>2
<1>4. PICK n \in S : \A m \in S : n <= m
  <2> HIDE DEF S
  <2> QED BY <1>3, LeastNumber
<1>5. \E i \in E : \A j \in E : Rank(i) <= Rank(j)
  BY <1>4
<1> QED BY <1>1, <1>5 DEF NextWorkItem, E

\* What a launch is decided on: nobody without a published result is at work on the
\* item, and there is room.
LEMMA RoomForOne ==
  ASSUME IInv, At({"collect"}), NEW f \in Facts(lock),
         NextWorkItem(f) # None
  PROVE  LET i == NextWorkItem(f) IN
           /\ i \in WorkItems /\ f.items[i] = "open" /\ LiveFor(f, i) = {}
           /\ \A e \in agents : ItemOf(e) = i => result[e] # None
           /\ Cardinality(AtWork) < WipLimit
<1> DEFINE i == NextWorkItem(f)
<1>1. /\ i \in WorkItems /\ f.items[i] = "open" /\ LiveFor(f, i) = {}
      /\ OccupiedCapacity(f) < WipLimit
  BY NextIsEligible DEF Eligible, Ready
<1>2. /\ TypeOK /\ WorldSound /\ StartsSound /\ OneAgentPerItem /\ At({"collect", "recheck"})
      /\ agents \subseteq Dispatches
  BY DEF IInv, At, TypeOK, Started
<1> HIDE DEF i
<1>3. f.debt = closed \cap trees /\ i \notin closed
  BY <1>1, LookOf
<1>4. ASSUME NEW e \in agents, ItemOf(e) = i PROVE result[e] # None
  BY <1>1, <1>2, <1>3, <1>4, AgentsAreSeen
<1>5. Cardinality(AtWork) < WipLimit
  <2> DEFINE live == LiveRuns(f)
             of   == [d \in live |-> f.runs[d].item]
             held == {f.runs[d].item : d \in live}
             at   == [e \in AtWork |-> ItemOf(e)]
  <2>1. IsFiniteSet(live) /\ Cardinality(live) \in Nat
    <3>1. PICK answer \in Answers(KnownRuns(lock)) : f.runs = Merged(KnownRuns(lock), answer)
      BY LookOf
    <3>2. IsFiniteSet(DOMAIN f.runs)
      BY <1>2, <3>1, HistoryTaken, MergedDomain, FiniteDispatches, FS_Subset
    <3> QED BY <3>2, FS_Subset, FS_CardinalityType DEF LiveRuns
  <2>2. IsFiniteSet(f.debt) /\ Cardinality(f.debt) \in Nat
    BY <1>2, <1>3, ControllerAssumption, FS_Subset, FS_CardinalityType DEF WorldSound
  <2> HIDE DEF live
  <2>3. of \in Surjection(live, held)
    BY DEF Surjection
  <2>4. IsFiniteSet(held) /\ Cardinality(held) <= Cardinality(live)
    <3> HIDE DEF of, held
    <3> QED BY <2>1, <2>3, FS_Surjection
  <2>5. Cardinality(held) \in Nat
    BY <2>4, FS_CardinalityType
  <2>6. at \in Injection(AtWork, held \cup f.debt)
    <3>1. ASSUME NEW e \in AtWork PROVE ItemOf(e) \in held \cup f.debt
      <4>1. e \in agents /\ result[e] = None /\ ItemOf(e) \in trees
        BY DEF AtWork
      <4>2. ItemOf(e) \in f.debt \/ LiveFor(f, ItemOf(e)) # {}
        BY <1>2, <1>3, <4>1, AgentsAreSeen
      <4> QED BY <4>2 DEF LiveFor, live
    <3>2. \A d, e \in AtWork : ItemOf(d) = ItemOf(e) => d = e
      BY <1>2 DEF OneAgentPerItem, AtWork
    <3> HIDE DEF held
    <3> QED BY <3>1, <3>2 DEF Injection, IsInjective
  <2> HIDE DEF at, held
  <2>7. /\ IsFiniteSet(held \cup f.debt)
        /\ Cardinality(held \cup f.debt) =
             Cardinality(held) + Cardinality(f.debt) - Cardinality(held \cap f.debt)
    BY <2>2, <2>4, FS_Union
  <2>8. Cardinality(held \cap f.debt) \in Nat
    BY <2>2, FS_Subset, FS_CardinalityType
  <2>9. IsFiniteSet(AtWork) /\ Cardinality(AtWork) <= Cardinality(held \cup f.debt)
    BY <2>6, <2>7, FS_Injection
  <2>10. Cardinality(AtWork) \in Nat
    BY <2>9, FS_CardinalityType
  <2>11. Cardinality(live) + Cardinality(f.debt) < WipLimit /\ WipLimit \in Nat
    BY <1>1, CoordinationAssumption DEF OccupiedCapacity, live
  <2> QED BY <2>1, <2>2, <2>4, <2>5, <2>7, <2>8, <2>9, <2>10, <2>11
<1> QED BY <1>1, <1>4, <1>5 DEF i
-----------------------------------------------------------------------------
(* Types and the lock.                                                      *)

LEMMA ProcessTypes ==
  ASSUME IInv, NEW p \in Procs, Process(p)
  PROVE  TypeOK' /\ LockSound'
<1> USE DEF Goto, store, box, shown, world, bounds
<1>0. /\ TypeOK /\ LockSound /\ p # None /\ Len(journal) \in Nat
      /\ lock # None => CycleOK(cycle)
      /\ pc[p] \in {"idle", "mark", "lock"} \/ lock = p
  BY ControllerAssumption DEF IInv, TypeOK, PayloadSound, LockSound, Working, Unplanned, Recording
<1>1. CASE Begin(p)
  BY <1>0, <1>1 DEF Begin, TypeOK, IsFresh, Started, LockSound, Working, Unplanned, Recording
<1>2. CASE MarkStarted(p) \/ LockHeld(p) \/ LoadRefused(p)
  BY <1>0, <1>2 DEF MarkStarted, LockHeld, LoadRefused, TypeOK, Started, LockSound,
                    Working, Unplanned, Recording
<1> DEFINE Kept == /\ UNCHANGED <<marker, journal, done, fresh, starts, agents, trees, tracker, buried>>
                   /\ torn' \in BOOLEAN /\ stale' \in BOOLEAN /\ view' \in 0..Len(journal)
<1>a. ASSUME Kept, NEW to \in Working, pc' = [pc EXCEPT ![p] = to], lock' = p, lock \in {None, p}
      PROVE  TypeOK' /\ LockSound'
  <2>1. TypeOK'
    BY <1>0, <1>a DEF TypeOK, Started, Working, Unplanned, Recording
  <2>2. \A q \in Procs : pc'[q] = IF q = p THEN to ELSE pc[q]
    BY <1>0, <1>a DEF TypeOK
  <2> QED BY <1>0, <1>a, <2>1, <2>2, ControllerAssumption DEF LockSound
<1>b. ASSUME Kept, pc' = [pc EXCEPT ![p] = "idle"], lock' = None, lock = p
      PROVE  TypeOK' /\ LockSound'
  <2>1. TypeOK'
    BY <1>0, <1>b DEF TypeOK, Started
  <2>2. \A q \in Procs : pc'[q] = IF q = p THEN "idle" ELSE pc[q]
    BY <1>0, <1>b DEF TypeOK
  <2>3. "idle" \notin Working
    BY DEF Working, Unplanned, Recording
  <2> QED BY <1>0, <1>b, <2>1, <2>2, <2>3, ControllerAssumption DEF LockSound
<1>k. torn \in BOOLEAN /\ stale \in BOOLEAN /\ view \in 0..Len(journal)
      /\ (fresh[p] /\ journal # <<>>) \in BOOLEAN
  BY <1>0 DEF TypeOK
<1>3. CASE Resume(p) \/ Open(p)
  <2>1. Kept /\ lock' = p /\ lock = None
    BY <1>3, <1>k DEF Resume, Open
  <2>2. \E to \in Working : pc' = [pc EXCEPT ![p] = to]
    BY <1>3 DEF Resume, Open, Working, Unplanned, Recording
  <2> HIDE DEF Kept
  <2> QED BY <1>a, <2>1, <2>2
<1>4. CASE Collect(p) \/ Recheck(p)
  <2>1. Kept /\ lock = p
    BY <1>4, <1>k DEF Collect, Recheck
  <2>2. \/ lock' = p /\ \E to \in Working : pc' = [pc EXCEPT ![p] = to]
        \/ lock' = None /\ pc' = [pc EXCEPT ![p] = "idle"]
    BY <1>4 DEF Collect, Recheck, Release, Working, Unplanned, Recording
  <2> HIDE DEF Kept
  <2> QED BY <1>a, <1>b, <2>1, <2>2
<1>5. ASSUME NEW at, NEW phase \in ToSet(Phases), NEW then \in Recording \cup {"view"},
             at \in Working, Record(p, at, phase, then)
      PROVE  TypeOK' /\ LockSound'
  <2>1. [cycle |-> cycle.number, phase |-> phase] \in [cycle : 1..MaxCycles, phase : ToSet(Phases)]
    BY <1>0, <1>5 DEF Record, CycleOK
  <2>2. journal' \in Seq([cycle : 1..MaxCycles, phase : ToSet(Phases)])
        /\ Len(journal') = Len(journal) + 1
    BY <1>0, <1>5, <2>1 DEF Record, TypeOK
  <2>3. done' \subseteq WorkItems
    BY <1>0, <1>5 DEF Record, CompleteIn, TypeOK
  <2>4. UNCHANGED <<marker, torn, view, lock, fresh, starts, agents, trees, tracker, buried, stale>>
        /\ pc' = [pc EXCEPT ![p] = then] /\ lock = p /\ Started' = Started
    BY <1>5 DEF Record, Started
  <2>5. then \in Working /\ then # "idle"
    BY <1>5 DEF Working, Unplanned, Recording
  <2>6. TypeOK'
    <3>1. view' \in 0..Len(journal')
      BY <1>0, <2>2, <2>4 DEF TypeOK
    <3> HIDE DEF Working
    <3>2. pc' \in [Procs -> {"idle", "mark", "lock", "collect", "recheck", "plan", "apply",
                            "launched", "confirm", "view"}]
      BY <1>0, <2>4, <2>5 DEF TypeOK, Working, Unplanned, Recording
    <3> QED BY <1>0, <2>2, <2>3, <2>4, <3>1, <3>2 DEF TypeOK
  <2>7. LockSound'
    BY <1>0, <2>4, <2>5 DEF LockSound, TypeOK, Working, Unplanned, Recording
  <2> QED BY <2>6, <2>7
<1>6. CASE Plan(p) \/ Applied(p) \/ LaunchApplied(p) \/ Confirm(p)
  <2>1. {"planned", "applied", "confirmed"} \subseteq ToSet(Phases)
    BY DEF ToSet, Phases
  <2> QED BY <1>5, <1>6, <2>1 DEF Plan, Applied, LaunchApplied, Confirm, Working, Unplanned,
                                  Recording
<1>7. CASE Launch(p)
  <2> DEFINE d == <<cycle.launch, cycle.number>>
  <2>1. d \in Dispatches /\ d[1] \in WorkItems
    BY <1>0, <1>7 DEF Launch, CycleOK, Dispatches
  <2>2. starts' \in [Dispatches -> Nat] /\ \A x \in Dispatches : starts'[x] >= starts[x]
        /\ starts'[d] > 0
    <3> HIDE DEF d
    <3>1. starts' = [starts EXCEPT ![d] = @ + 1]
      BY <1>7 DEF Launch, d
    <3> QED BY <1>0, <2>1, <3>1 DEF TypeOK
  <2>3. agents' \subseteq Started' /\ trees' \subseteq WorkItems
    BY <1>0, <1>7, <2>1, <2>2 DEF Launch, TypeOK, Started, ItemOf
  <2> QED BY <1>0, <1>7, <2>2, <2>3 DEF Launch, TypeOK, LockSound, Working, Unplanned, Recording
<1>8. CASE Publish(p)
  <2>1. tracker' \in [ToSet(Artifacts) -> Nat]
    <3>1. PICK S : S = ToSet(Artifacts)
      OBVIOUS
    <3>2. PICK a : a = Head(cycle.todo)
      OBVIOUS
    <3>3. tracker \in [S -> Nat]
          /\ tracker' = [tracker EXCEPT ![a] = IF tracker[a] = buried[a] THEN tracker[a] + 1
                                              ELSE tracker[a]]
      BY <1>0, <1>8, <3>1, <3>2 DEF Publish, TypeOK
    <3>4. \A x \in S : tracker'[x] \in Nat
      <4>1. ASSUME NEW x \in S PROVE tracker'[x] \in Nat
        <5>1. tracker[x] \in Nat
          BY <3>3
        <5>2. tracker'[x] = IF x = a /\ tracker[x] = buried[x] THEN tracker[x] + 1 ELSE tracker[x]
          BY <3>3
        <5> QED BY <5>1, <5>2
      <4> QED BY <4>1
    <3>5. DOMAIN tracker' = S /\ tracker' = [x \in S |-> tracker'[x]]
      BY <3>3
    <3> QED BY <3>1, <3>4, <3>5
  <2> QED BY <1>0, <1>8, <2>1 DEF Publish, TypeOK, Started, LockSound, Working, Unplanned, Recording
<1>9. CASE PortFails(p) \/ Materialize(p)
  <2>1. Kept /\ lock = p /\ lock' = None /\ pc' = [pc EXCEPT ![p] = "idle"]
    BY <1>0, <1>9, <1>k DEF PortFails, Materialize, Release
  <2> HIDE DEF Kept
  <2> QED BY <1>b, <2>1
<1>10. CASE Crash(p)
  <2>1. Kept /\ pc' = [pc EXCEPT ![p] = "idle"]
    <3>1. (torn \/ Appending(p)) \in BOOLEAN
      BY DEF Appending
    <3> QED BY <1>10, <1>k, <3>1 DEF Crash
  <2>2. CASE lock = p
    <3> HIDE DEF Kept
    <3> QED BY <1>b, <1>10, <2>1, <2>2 DEF Crash
  <2>3. CASE lock # p
    <3>1. lock' = lock /\ pc[p] \notin Working
      BY <1>0, <1>10, <2>3 DEF Crash, LockSound
    <3>2. \A q \in Procs : pc'[q] = IF q = p THEN "idle" ELSE pc[q]
      BY <1>0, <2>1 DEF TypeOK
    <3>3. LockSound'
      BY <1>0, <3>1, <3>2 DEF LockSound, Working, Unplanned, Recording
    <3> QED BY <1>0, <2>1, <3>1, <3>3 DEF TypeOK, Started
  <2> QED BY <2>2, <2>3
<1> QED BY <1>1, <1>2, <1>3, <1>4, <1>6, <1>7, <1>8, <1>9, <1>10 DEF Process

LEMMA WorldTypes ==
  ASSUME IInv, Recover \/ Environment
  PROVE  TypeOK' /\ LockSound'
<1> USE DEF store, box, shown, world, bounds
<1>0. TypeOK /\ LockSound
  BY DEF IInv
<1>1. CASE Recover \/ ShowInitiative
  BY <1>0, <1>1 DEF Recover, ShowInitiative, TypeOK, Started, LockSound, Working, Unplanned,
                    Recording
<1>2. ASSUME NEW d \in Dispatches, AgentDies(d) \/ Deliver(d) \/ PublishResult(d)
      PROVE  TypeOK' /\ LockSound'
  BY <1>0, <1>2 DEF AgentDies, Deliver, PublishResult, TypeOK, Started, LockSound, Working,
                    Unplanned, Recording
<1>3. ASSUME NEW i \in WorkItems, CloseIssue(i) \/ ReopenIssue(i) \/ RemoveTree(i)
      PROVE  TypeOK' /\ LockSound'
  BY <1>0, <1>3 DEF CloseIssue, ReopenIssue, RemoveTree, TypeOK, Started, LockSound, Working, Unplanned,
                    Recording
<1>4. ASSUME NEW a \in ToSet(Artifacts), Bury(a) PROVE TypeOK' /\ LockSound'
  BY <1>0, <1>4 DEF Bury, TypeOK, Started, LockSound, Working, Unplanned, Recording
<1> QED BY <1>1, <1>2, <1>3, <1>4 DEF Environment
-----------------------------------------------------------------------------
(* Steps that leave the journal and the world alone.                        *)

Rest ==
  /\ WorldSound /\ JournalSound /\ PayloadSound /\ HolderSound /\ HistorySound /\ LaunchSound
  /\ StartsSound /\ OneAgentPerItem /\ AgentsWithinLimit

\* The world and what is known of it are as before.
LEMMA WorldKept ==
  ASSUME IInv, UNCHANGED <<journal, payload, world>>
  PROVE  /\ WorldSound' /\ StartsSound' /\ OneAgentPerItem' /\ AgentsWithinLimit'
         /\ Numbered' <=> Numbered
         /\ Broken' <=> Broken
         /\ Started' = Started
         /\ \A runs : RunsSound(runs)' <=> RunsSound(runs)
         /\ Trailing' = Trailing /\ Complete' = Complete
<1> USE DEF world, box, shown
<1>1. (Numbered' <=> Numbered) /\ (Broken' <=> Broken) /\ Trailing' = Trailing
      /\ Complete' = Complete
  BY DEF Numbered, Broken, Trailing, Complete
<1>2. Started' = Started
  BY DEF Started
<1>3. ASSUME NEW runs PROVE RunsSound(runs)' <=> RunsSound(runs)
  BY <1>2 DEF RunsSound, RunBound
<1>4. WorldSound' /\ OneAgentPerItem' /\ AgentsWithinLimit'
  BY DEF IInv, WorldSound, OneAgentPerItem, AgentsWithinLimit, AtWork
<1>5. StartsSound'
  BY <1>1, <1>2 DEF IInv, StartsSound
<1> QED BY <1>1, <1>2, <1>3, <1>4, <1>5

LEMMA OutsiderStep ==
  ASSUME IInv, UNCHANGED <<journal, payload, view, lock, cycle, world, stale>>,
         lock # None => pc'[lock] = pc[lock] /\ fresh'[lock] = fresh[lock]
  PROVE  Rest'
<1>1. \A steps : At(steps)' <=> At(steps)
  BY DEF At
<1>2. JournalSound' /\ PayloadSound'
  BY WorldKept DEF IInv, JournalSound, PayloadSound, CycleOK
<1>3. lock # None => (Orderly' <=> Orderly) /\ (Overlooked' <=> Overlooked)
  BY WorldKept DEF Orderly, Overlooked
<1>4. HolderSound'
  BY <1>1, <1>3, WorldKept DEF IInv, HolderSound, At
<1>5. HistorySound'
  BY <1>1, <1>3, WorldKept DEF IInv, HistorySound, At
<1>6. LaunchSound'
  BY <1>1, WorldKept DEF IInv, LaunchSound, AtWork, world, box
<1> QED BY <1>2, <1>4, <1>5, <1>6, WorldKept DEF Rest

\* The holder gives up the lock, having rewritten the view if it got that far.
LEMMA ReleaseStep ==
  ASSUME IInv, UNCHANGED <<journal, payload, world, stale>>, lock' = None,
         view' = view \/ (Trailing = 0 /\ view' = Len(journal))
  PROVE  Rest'
<1>1. \A steps : ~ At(steps)'
  BY DEF At
<1>2. JournalSound' /\ PayloadSound'
  BY WorldKept DEF IInv, JournalSound, PayloadSound, CycleOK
<1>3. HolderSound' /\ LaunchSound'
  BY <1>1 DEF HolderSound, LaunchSound
<1>4. HistorySound'
  BY <1>1, WorldKept DEF IInv, HistorySound
<1> QED BY <1>2, <1>3, <1>4, WorldKept DEF Rest

LEMMA AsideStep ==
  ASSUME IInv, NEW p \in Procs,
         \/ Begin(p) \/ MarkStarted(p) \/ LockHeld(p) \/ LoadRefused(p) \/ PortFails(p)
         \/ Materialize(p) \/ Crash(p)
  PROVE  Rest'
<1>0. LockSound /\ lock \in Procs \cup {None} /\ pc \in [Procs -> {"idle", "mark", "lock"} \cup Working]
      /\ fresh \in [Procs -> BOOLEAN] /\ p # None
      /\ {"idle", "mark", "lock"} \cap Working = {}
  BY ControllerAssumption DEF IInv, TypeOK, Working, Unplanned, Recording
<1>1. CASE Begin(p) \/ MarkStarted(p) \/ LockHeld(p) \/ LoadRefused(p)
  <2>1. UNCHANGED <<journal, payload, view, lock, cycle, world, stale>>
    BY <1>1 DEF Begin, MarkStarted, LockHeld, LoadRefused, store, bounds
  <2>2. pc[p] \in {"idle", "mark", "lock"}
    BY <1>1 DEF Begin, MarkStarted, LockHeld, LoadRefused
  <2>3. lock # p
    BY <1>0, <2>2 DEF LockSound
  <2>4. \A q \in Procs : q # p => pc'[q] = pc[q] /\ fresh'[q] = fresh[q]
    BY <1>0, <1>1 DEF Begin, MarkStarted, LockHeld, LoadRefused, Goto
  <2> QED BY <1>0, <2>1, <2>3, <2>4, OutsiderStep
<1>2. CASE PortFails(p)
  BY <1>2, ReleaseStep DEF PortFails, Release, store
<1>3. CASE Materialize(p)
  BY <1>3, ReleaseStep DEF Materialize, Release, bounds
<1>4. CASE Crash(p) /\ lock = p
  BY <1>4, ReleaseStep DEF Crash
<1>5. CASE Crash(p) /\ lock # p
  <2>1. UNCHANGED <<journal, payload, view, lock, cycle, world, stale, fresh>>
    BY <1>5 DEF Crash
  <2>2. \A q \in Procs : q # p => pc'[q] = pc[q]
    BY <1>0, <1>5 DEF Crash, Goto
  <2> QED BY <1>0, <1>5, <2>1, <2>2, OutsiderStep
<1> QED BY <1>1, <1>2, <1>3, <1>4, <1>5
-----------------------------------------------------------------------------
(* Taking up a journal.                                                     *)

LEMMA LastRecord ==
  ASSUME TypeOK, Numbered, journal # <<>>
  PROVE  /\ Len(journal) \in Nat \ {0} /\ Trailing \in 0..2 /\ Complete \in Nat
         /\ Len(journal) = 3 * Complete + Trailing
         /\ LastPhase = (IF Trailing = 0 THEN "confirmed"
                         ELSE IF Trailing = 1 THEN "planned" ELSE "applied")
         /\ journal[Len(journal)].cycle = IF Trailing = 0 THEN Complete ELSE Complete + 1
<1> DEFINE L == Len(journal)
<1>1. L \in Nat /\ L # 0
  BY DEF TypeOK
<1>2. journal[L] = [cycle |-> ((L - 1) \div 3) + 1, phase |-> Phases[((L - 1) % 3) + 1]]
  BY <1>1 DEF Numbered
<1>3. Last(journal) = journal[L]
  BY DEF Last
<1> HIDE DEF L
<1>4. L % 3 \in 0..2 /\ L \div 3 \in Nat /\ L = 3 * (L \div 3) + (L % 3)
  BY <1>1
<1>5. /\ (L - 1) % 3 = (IF L % 3 = 0 THEN 2 ELSE (L % 3) - 1)
      /\ (L - 1) \div 3 = (IF L % 3 = 0 THEN L \div 3 - 1 ELSE L \div 3)
  BY <1>1, <1>4
<1> QED BY <1>1, <1>2, <1>3, <1>4, <1>5 DEF LastPhase, Trailing, Complete, Phases, L

\* Dividing a positive multiple of three.
LEMMA ThirdOf == ASSUME NEW n \in Nat, n >= 1, n % 3 = 0
                 PROVE  n \div 3 \in Nat \ {0} /\ n = 3 * (n \div 3)
<1>1. n \div 3 \in Int /\ n = 3 * (n \div 3) + (n % 3)
  OBVIOUS
<1> DEFINE q == n \div 3
<1>2. q \in Int /\ n = 3 * q
  BY <1>1
<1> HIDE DEF q
<1>3. q \in Nat \ {0}
  BY <1>2
<1> QED BY <1>2, <1>3 DEF q

\* Once a fresh start overlooked it, a journal cannot be loaded any more.
LEMMA BrokenIsUnloadable == ASSUME TypeOK, Broken PROVE ~Loadable
<1> SUFFICES ASSUME Loadable PROVE FALSE
  OBVIOUS
<1> DEFINE L == Len(journal)
<1>1. L \in Nat /\ journal \in Seq([cycle : 1..MaxCycles, phase : ToSet(Phases)])
  BY DEF TypeOK
<1>2. PICK k \in 2..L : journal[k] = [cycle |-> 1, phase |-> "planned"]
  BY DEF Broken
<1>3. Ordered /\ journal[1].cycle = 1
  BY DEF Loadable, Broken
<1> DEFINE m == (k - 1) \div 3
<1>4. (k - 1) % 3 = 0
  <2>1. k \in 1..L /\ (k - 1) % 3 \in 0..2
    BY <1>1, <1>2
  <2>2. Phases[((k - 1) % 3) + 1] = "planned"
    BY <1>2, <1>3, <2>1 DEF Ordered
  <2> QED BY <2>1, <2>2 DEF Phases
<1>5. k = 3 * m + 1 /\ m \in Nat \ {0} /\ 3 * m + 1 <= L
  <2>1. k - 1 \in Nat /\ k - 1 >= 1 /\ k <= L
    BY <1>1, <1>2
  <2> QED BY <1>4, <2>1, ThirdOf
<1>6. ASSUME NEW n \in 0..Complete - 1 PROVE CycleAt(n)[1] = journal[3 * n + 1]
  BY <1>1, <1>6 DEF CycleAt, Complete
<1> HIDE DEF m
<1>7. CASE m \in 0..Complete - 1
  <2>1. 0 \in 0..Complete - 1 /\ m # 0
    BY <1>1, <1>5, <1>7 DEF Complete
  <2>2. CycleAt(m)[1].cycle # CycleAt(0)[1].cycle
    BY <1>3, <1>7, <2>1 DEF Ordered
  <2> QED BY <1>2, <1>3, <1>5, <1>6, <1>7, <2>1, <2>2
<1>8. CASE m \notin 0..Complete - 1
  <2>1. Complete = m /\ Trailing # 0 /\ L - 1 \in Nat /\ (L - 1) \div 3 = m /\ L \in 1..L
    <3>1. L \div 3 \in Nat /\ L % 3 \in 0..2 /\ L = 3 * (L \div 3) + (L % 3)
      BY <1>1
    <3>2. L \div 3 = m /\ L % 3 # 0
      BY <1>1, <1>5, <1>8, <3>1 DEF Complete
    <3> QED BY <1>1, <1>5, <3>1, <3>2 DEF Complete, Trailing
  <2>2. journal[L].cycle = journal[3 * m + 1].cycle
    BY <1>3, <2>1 DEF Ordered
  <2>3. 0 \in 0..Complete - 1 /\ Last(journal) = journal[L]
    BY <1>5, <2>1 DEF Last
  <2>4. CycleAt(0)[1].cycle # Last(journal).cycle
    BY <2>1, <2>3 DEF Loadable
  <2> QED BY <1>2, <1>3, <1>5, <1>6, <2>2, <2>3, <2>4
<1> QED BY <1>7, <1>8

LEMMA ResumeStep ==
  ASSUME IInv, NEW p \in Procs, Resume(p)
  PROVE  Rest'
<1>0. /\ TypeOK /\ JournalSound /\ PayloadSound /\ p # None
      /\ lock = None /\ lock' = p /\ cycle' = payload
      /\ UNCHANGED <<journal, payload, view, fresh, world, stale>>
      /\ pc'[p] = IF LastPhase = "planned" THEN "apply" ELSE "confirm"
      /\ Loadable /\ LastPhase # "confirmed" /\ ~Indeterminate
  BY ControllerAssumption DEF IInv, TypeOK, Resume, Goto, store, bounds
<1>1. Numbered /\ ~Broken /\ journal # <<>>
  BY <1>0, BrokenIsUnloadable, NotBoth DEF JournalSound, Loadable
<1>2. LastPhase = (IF Trailing = 1 THEN "planned" ELSE "applied") /\ Trailing \in 1..2
  BY <1>0, <1>1, LastRecord
<1>3. CycleOK(payload) /\ CycleOK(payload)'
  BY <1>0, <1>1 DEF PayloadSound, CycleOK
<1>4. JournalSound' /\ PayloadSound'
  BY <1>0, <1>3, WorldKept DEF JournalSound, PayloadSound, CycleOK
<1>5. HolderSound'
  <2>1. ~ At(Unplanned)' /\ ~ At({"view"})'
    BY <1>0 DEF At, Unplanned
  <2>2. ~Broken' /\ Trailing' = Trailing
    BY <1>0, <1>1, WorldKept
  <2>3. Trailing = IF pc'[p] = "confirm" THEN 2 ELSE 1
    BY <1>0, <1>2
  <2> QED BY <1>0, <1>1, <2>1, <2>2, <2>3 DEF HolderSound
<1>6. HistorySound'
  <2>1. ~ At({"recheck", "plan"})'
    BY <1>0 DEF At
  <2> QED BY <1>0, <2>1, WorldKept DEF HistorySound, IInv
<1>7. LaunchSound'
  <2>1. ~ At({"collect"})' /\ ~ At({"recheck"})' /\ (pc'[p] \in {"apply", "plan"} => LastPhase = "planned")
    BY <1>0 DEF At
  <2>2. LastPhase = "planned" => cycle'.launch = None
    BY <1>0 DEF Indeterminate
  <2>3. At({"recheck", "plan", "apply"})' \/ At({"plan", "apply"})' \/ At({"apply"})'
          => cycle'.launch = None
    BY <1>0, <2>1, <2>2 DEF At
  <2> QED BY <2>1, <2>3 DEF LaunchSound
<1> QED BY <1>0, <1>4, <1>5, <1>6, <1>7, WorldKept DEF Rest

LEMMA OpenStep ==
  ASSUME IInv, NEW p \in Procs, Open(p)
  PROVE  Rest'
<1> DEFINE n == IF fresh[p] THEN 1 ELSE Complete + 1
<1>0. /\ TypeOK /\ JournalSound /\ PayloadSound /\ p # None
      /\ lock = None /\ lock' = p /\ cycle' = [NoCycle EXCEPT !.number = n]
      /\ UNCHANGED <<journal, payload, view, fresh, world>>
      /\ pc'[p] = "collect" /\ n \in 1..MaxCycles
      /\ fresh[p] \/ (Loadable /\ LastPhase = "confirmed")
      /\ stale' = (stale \/ (fresh[p] /\ journal # <<>>))
  BY ControllerAssumption DEF IInv, TypeOK, Open, Goto, store, bounds
<1> HIDE DEF n
<1>1. cycle'.number = n /\ cycle'.launch = None /\ CycleOK(cycle)'
  BY <1>0 DEF NoCycle, CycleOK
<1>2. JournalSound' /\ PayloadSound'
  BY <1>0, <1>1, WorldKept DEF JournalSound, PayloadSound, CycleOK
<1>3. At({"collect"})' /\ At(Unplanned)'
      /\ \A steps : "collect" \notin steps => ~ At(steps)'
  BY <1>0 DEF At, Unplanned
<1>4. Orderly' \/ Overlooked'
  <2>1. CASE fresh[p] /\ journal # <<>>
    BY <1>0, <1>1, <2>1 DEF Overlooked, n
  <2>2. CASE fresh[p] /\ journal = <<>>
    <3>1. Len(journal) = 0 /\ view = 0 /\ Numbered /\ Trailing = 0 /\ Complete = 0
      BY <1>0, <2>2 DEF TypeOK, Numbered, Trailing, Complete
    <3>2. Numbered' /\ Trailing' = 0 /\ Complete' = 0
      BY <1>0, <3>1, WorldKept
    <3> QED BY <1>0, <1>1, <2>2, <3>1, <3>2 DEF Orderly, n
  <2>3. CASE ~fresh[p]
    <3>1. Loadable /\ LastPhase = "confirmed" /\ journal # <<>> /\ Numbered
      BY <1>0, <2>3, BrokenIsUnloadable DEF Loadable, JournalSound
    <3>2. Trailing = 0 /\ view = Len(journal)
      BY <1>0, <3>1, LastRecord DEF Loadable
    <3>3. Numbered' /\ Trailing' = 0 /\ Complete' = Complete
      BY <1>0, <3>1, <3>2, WorldKept
    <3> QED BY <1>0, <1>1, <2>3, <3>1, <3>2, <3>3 DEF Orderly, n
  <2> QED BY <2>1, <2>2, <2>3
<1>5. HolderSound'
  <2>1. Broken' => cycle'.number = 1
    BY <1>0, <1>1, BrokenIsUnloadable, WorldKept DEF n
  <2>2. ~ At(Recording)' /\ ~ At({"view"})'
    BY <1>3 DEF Recording
  <2> QED BY <1>4, <2>1, <2>2 DEF HolderSound
<1>6. HistorySound' /\ LaunchSound'
  BY <1>0, <1>1, <1>3, WorldKept DEF HistorySound, LaunchSound, IInv
<1> QED BY <1>0, <1>2, <1>5, <1>6, WorldKept DEF Rest
-----------------------------------------------------------------------------
(* Planning a cycle.                                                        *)

\* While the holder plans, its history stays what it was.
LEMMA PlanningKept ==
  ASSUME IInv, NEW p \in Procs, lock = p, pc[p] \in Unplanned,
         UNCHANGED <<journal, payload, view, lock, fresh, world, stale>>,
         pc'[p] \in Unplanned, cycle'.number = cycle.number, CycleOK(cycle)'
  PROVE  /\ JournalSound' /\ PayloadSound' /\ HolderSound'
         /\ Orderly' <=> Orderly
         /\ Numbered => IF journal = <<>> THEN Started = {} ELSE RunsSound(payload.facts.runs)
<1>1. /\ Orderly' <=> Orderly
      /\ Overlooked' <=> Overlooked
  BY WorldKept DEF Orderly, Overlooked
<1>2. JournalSound' /\ PayloadSound'
  BY WorldKept DEF IInv, JournalSound, PayloadSound, CycleOK
<1>3. Orderly \/ Overlooked
  BY ControllerAssumption DEF IInv, HolderSound, At
<1>4. ~ At(Recording)' /\ ~ At({"view"})'
  BY ControllerAssumption DEF At, Unplanned, Recording
<1>5. HolderSound'
  BY <1>1, <1>3, <1>4, WorldKept DEF HolderSound, IInv
<1> QED BY <1>1, <1>2, <1>5 DEF IInv, HistorySound

LEMMA CollectStep ==
  ASSUME IInv, NEW p \in Procs, Collect(p)
  PROVE  Rest'
<1>0. /\ p # None /\ lock = p /\ pc[p] = "collect" /\ CycleOK(cycle) /\ At({"collect"})
      /\ At({"collect", "recheck"})
      /\ UNCHANGED <<journal, payload, view, lock, fresh, world, stale>>
      /\ pc \in [Procs -> {"idle", "mark", "lock"} \cup Working]
  BY ControllerAssumption
     DEF IInv, TypeOK, PayloadSound, Collect, store, bounds, At, Working, Unplanned, Recording
<1>1. cycle.launch = None
  BY <1>0 DEF IInv, LaunchSound
<1>2. PICK f \in Facts(lock) :
        \/ /\ cycle' = [cycle EXCEPT !.facts = f, !.todo = Artifacts]
           /\ Goto(p, "plan")
        \/ /\ cycle' = [cycle EXCEPT !.facts = f, !.launch = NextWorkItem(f)]
           /\ Goto(p, IF NextWorkItem(f) = None THEN "plan" ELSE "recheck")
  BY <1>0 DEF Collect
<1>3. /\ cycle'.number = cycle.number /\ cycle'.facts = f
      /\ \/ cycle'.launch = None /\ pc'[p] = "plan"
         \/ cycle'.launch = NextWorkItem(f) /\ cycle'.launch # None /\ pc'[p] = "recheck"
      /\ cycle' \in [number : 1..MaxCycles, facts : {f}, launch : {cycle'.launch},
                     todo : {cycle'.todo}]
  BY <1>0, <1>1, <1>2 DEF CycleOK, Goto
<1>4. cycle'.launch # None =>
        LET i == cycle'.launch IN
          /\ i \in WorkItems /\ f.items[i] = "open" /\ LiveFor(f, i) = {}
          /\ \A e \in agents : ItemOf(e) = i => result[e] # None
          /\ Cardinality(AtWork) < WipLimit
  BY <1>0, <1>3, RoomForOne
<1>5. CycleOK(cycle)'
  BY <1>3, <1>4 DEF CycleOK
<1>6. /\ JournalSound' /\ PayloadSound' /\ HolderSound'
      /\ Orderly' <=> Orderly
      /\ Numbered => IF journal = <<>> THEN Started = {} ELSE RunsSound(payload.facts.runs)
  BY <1>0, <1>3, <1>5, PlanningKept DEF Unplanned
<1>7. HistorySound'
  <2>1. Orderly => RunsSound(f.runs)
    BY <1>0, LookIsSound
  <2>2. Orderly => RunsSound(f.runs)'
    BY <1>0, <2>1, WorldKept
  <2> QED BY <1>0, <1>3, <1>6, <2>2, WorldKept DEF HistorySound
<1>8. LaunchSound'
  <2>1. /\ DOMAIN f = {"items", "runs", "debt", "bars"}
        /\ At({"recheck", "plan", "apply"})' /\ ~ At({"collect"})' /\ ~ At({"apply"})'
        /\ At({"recheck"})' \/ At({"plan", "apply"})' => lock' # None
        /\ At({"recheck"})' => pc'[p] = "recheck"
        /\ At({"plan", "apply"})' => pc'[p] = "plan"
    BY <1>0, <1>3, LookOf DEF At
  <2> QED BY <1>0, <1>3, <1>4, <2>1 DEF LaunchSound, LiveFor, LiveRuns, AtWork, world, box
<1> QED BY <1>0, <1>6, <1>7, <1>8, WorldKept DEF Rest

\* The launch bound to its cycle is known from the record on.
LEMMA BindingIsSound ==
  ASSUME IInv, At({"recheck"}),
         NEW f, f = WithWorkRun(cycle.facts, <<cycle.launch, cycle.number>>, cycle.launch)
  PROVE  LET d == <<cycle.launch, cycle.number>> IN
           /\ f.items = cycle.facts.items
           /\ d \in DOMAIN f.runs /\ f.runs[d] = RunOf(cycle.launch, "launching")
           /\ Orderly => RunsSound(f.runs)
<1> DEFINE d == <<cycle.launch, cycle.number>>
           i == cycle.launch
           old == cycle.facts.runs
<1>1. /\ DOMAIN cycle.facts = {"items", "runs", "debt", "bars"} /\ LiveFor(cycle.facts, i) = {}
      /\ d[1] = i
  BY DEF IInv, LaunchSound
<1> HIDE DEF d, i
<1>2. /\ f.items = cycle.facts.items
      /\ f.runs = [e \in DOMAIN old \cup {d} |-> IF e = d THEN RunOf(i, "launching") ELSE old[e]]
  BY <1>1 DEF WithWorkRun, d, i
<1>3. ASSUME Orderly PROVE RunsSound(f.runs)
  <2>1. RunsSound(old)
    BY <1>3 DEF IInv, HistorySound, At
  <2> HIDE DEF old
  <2>2. DOMAIN f.runs \subseteq WorkItems \X (0..MaxCycles)
    <3>1. d \in WorkItems \X (0..MaxCycles)
      BY ControllerAssumption DEF IInv, PayloadSound, CycleOK, LaunchSound, At, d
    <3> QED BY <1>2, <2>1, <3>1 DEF RunsSound
  <2>3. /\ IsRun(RunOf(i, "launching")) /\ RunOf(i, "launching").item = i
        /\ ~RunOf(i, "launching").published /\ RunOf(i, "launching").ev["landed"] = None
        /\ RunOf(i, "launching").ev["recovery"] \notin TerminalKinds
        /\ RunOf(i, "launching").ev["candidate"] = None
    BY NewRun, CoordinationAssumption
  <2>4. agents \subseteq Started
    BY DEF IInv, TypeOK
  <2> QED BY <1>1, <1>2, <2>1, <2>2, <2>3, <2>4 DEF RunsSound, RunBound, ItemOf
<1> QED BY <1>2, <1>3 DEF d, i

LEMMA RecheckStep ==
  ASSUME IInv, NEW p \in Procs, Recheck(p)
  PROVE  Rest'
<1>0. /\ p # None /\ lock = p /\ pc[p] = "recheck" /\ CycleOK(cycle) /\ At({"recheck"})
      /\ UNCHANGED <<journal, payload, view, fresh, world, stale>>
      /\ pc \in [Procs -> {"idle", "mark", "lock"} \cup Working]
  BY ControllerAssumption
     DEF IInv, TypeOK, PayloadSound, Recheck, store, bounds, At, Working, Unplanned, Recording
<1>1. CASE Release(p)
  BY <1>0, <1>1, ReleaseStep DEF Release
<1>2. CASE ~Release(p)
  <2> DEFINE d == <<cycle.launch, cycle.number>>
  <2>0. PICK f : f = WithWorkRun(cycle.facts, d, cycle.launch)
    OBVIOUS
  <2>1. cycle' = [cycle EXCEPT !.facts = f] /\ pc' = [pc EXCEPT ![p] = "plan"] /\ lock' = lock
    BY <1>2, <2>0 DEF Recheck, Goto
  <2>2. /\ f.items = cycle.facts.items
        /\ d \in DOMAIN f.runs /\ f.runs[d] = RunOf(cycle.launch, "launching")
        /\ Orderly => RunsSound(f.runs)
    BY <1>0, <2>0, BindingIsSound
  <2>3. /\ cycle'.number = cycle.number /\ cycle'.facts = f /\ cycle'.launch = cycle.launch
        /\ CycleOK(cycle)' /\ pc'[p] = "plan"
    BY <1>0, <2>1 DEF CycleOK
  <2>4. /\ JournalSound' /\ PayloadSound' /\ HolderSound'
        /\ Orderly' <=> Orderly
        /\ Numbered => IF journal = <<>> THEN Started = {} ELSE RunsSound(payload.facts.runs)
    BY <1>0, <2>1, <2>3, PlanningKept DEF Unplanned
  <2>5. HistorySound'
    <3>1. Orderly => RunsSound(f.runs)'
      BY <1>0, <2>2, WorldKept
    <3> QED BY <1>0, <2>3, <2>4, <3>1, WorldKept DEF HistorySound
  <2>6. LaunchSound'
    <3>1. /\ ~ At({"recheck"})' /\ ~ At({"collect"})' /\ ~ At({"apply"})'
          /\ At({"recheck", "plan", "apply"})
      BY <1>0, <2>1, <2>3 DEF At
    <3>2. /\ cycle.facts.items[cycle.launch] = "open" /\ cycle.launch # None
          /\ \A e \in agents : ItemOf(e) = cycle.launch => result[e] # None
          /\ Cardinality(AtWork) < WipLimit
      BY <1>0, <3>1 DEF IInv, LaunchSound
    <3> QED BY <1>0, <2>2, <2>3, <3>1, <3>2 DEF LaunchSound, AtWork, world, box
  <2> QED BY <1>0, <2>4, <2>5, <2>6, WorldKept DEF Rest
<1> QED BY <1>1, <1>2
-----------------------------------------------------------------------------
(* Recording a phase.                                                       *)

LEMMA Appended ==
  ASSUME IInv, NEW p \in Procs, NEW at, NEW phase, NEW then, Record(p, at, phase, then)
  PROVE  /\ Len(journal) \in Nat /\ Len(journal') = Len(journal) + 1 /\ journal' # <<>>
         /\ Broken => Broken'
         /\ Numbered /\ journal # <<>> /\ cycle.number = 1 /\ phase = "planned" => Broken'
         /\ Numbered /\ cycle.number = Complete + 1 /\ phase = Phases[Trailing + 1] => Numbered'
         /\ PayloadSound'
<1> DEFINE L == Len(journal)
           r == [cycle |-> cycle.number, phase |-> phase]
<1>1. /\ L \in Nat /\ journal \in Seq([cycle : 1..MaxCycles, phase : ToSet(Phases)])
      /\ lock = p /\ p # None /\ CycleOK(cycle)
      /\ journal' = Append(journal, r) /\ payload' = cycle
      /\ UNCHANGED <<lock, cycle>>
  BY ControllerAssumption DEF IInv, TypeOK, PayloadSound, Record
<1> HIDE DEF r
<1>2. /\ Len(journal') = L + 1 /\ journal'[L + 1] = r
      /\ \A k \in 1..L : journal'[k] = journal[k]
  BY <1>1
<1>3. journal' # <<>>
  BY <1>1, <1>2
<1> HIDE DEF L
<1>4. Broken => Broken'
  <2>1. SUFFICES ASSUME Broken PROVE Broken'
    OBVIOUS
  <2>2. PICK k \in 2..L : journal[k] = [cycle |-> 1, phase |-> "planned"]
    BY <2>1 DEF Broken, L
  <2>3. journal'[k] = journal[k] /\ journal'[1] = journal[1] /\ k \in 2..Len(journal')
    BY <1>1, <1>2, <2>2
  <2> QED BY <1>3, <2>1, <2>2, <2>3 DEF Broken
<1>5. ASSUME Numbered, journal # <<>>, cycle.number = 1, phase = "planned" PROVE Broken'
  <2>1. L # 0
    BY <1>1, <1>5 DEF L
  <2>2. journal[1].cycle = 1
    <3>1. 1 \in 1..L /\ ((1 - 1) \div 3) + 1 = 1
      BY <1>1, <2>1
    <3>2. journal[1] = [cycle |-> ((1 - 1) \div 3) + 1, phase |-> Phases[((1 - 1) % 3) + 1]]
      BY <1>5, <3>1 DEF Numbered, L
    <3> QED BY <3>1, <3>2
  <2>3. journal'[1].cycle = 1 /\ L + 1 \in 2..Len(journal')
        /\ journal'[L + 1] = [cycle |-> 1, phase |-> "planned"]
    BY <1>1, <1>2, <1>5, <2>1, <2>2 DEF r
  <2> QED BY <1>3, <2>3 DEF Broken
<1>6. ASSUME Numbered, cycle.number = Complete + 1, phase = Phases[Trailing + 1]
      PROVE  Numbered'
  <2>1. (L + 1) - 1 = L
    BY <1>1
  <2>2. r = [cycle |-> (L \div 3) + 1, phase |-> Phases[(L % 3) + 1]]
    BY <1>6 DEF Complete, Trailing, L, r
  <2>3. ASSUME NEW k \in 1..Len(journal')
        PROVE  journal'[k] = [cycle |-> ((k - 1) \div 3) + 1, phase |-> Phases[((k - 1) % 3) + 1]]
    <3>1. CASE k = L + 1
      BY <1>2, <2>1, <2>2, <3>1
    <3>2. CASE k # L + 1
      <4>1. k \in 1..L
        BY <1>1, <1>2, <3>2
      <4> QED BY <1>2, <1>6, <4>1 DEF Numbered, L
    <3> QED BY <3>1, <3>2
  <2> QED BY <2>3 DEF Numbered
<1>7. PayloadSound'
  <2>1. CycleOK(payload)' /\ CycleOK(cycle)'
    BY <1>1 DEF CycleOK
  <2>2. payload'.number = journal'[Len(journal')].cycle
    BY <1>1, <1>2 DEF r
  <2> QED BY <2>1, <2>2 DEF PayloadSound
<1> QED BY <1>1, <1>2, <1>3, <1>4, <1>5, <1>6, <1>7 DEF L

\* The length of the journal after one more record.
LEMMA OneMore ==
  ASSUME Len(journal) \in Nat, Len(journal') = Len(journal) + 1
  PROVE  /\ Trailing \in 0..2 /\ Complete \in Nat
         /\ Len(journal) = 3 * Complete + Trailing
         /\ Trailing' = (IF Trailing = 2 THEN 0 ELSE Trailing + 1)
         /\ Complete' = (IF Trailing = 2 THEN Complete + 1 ELSE Complete)
<1> DEFINE L == Len(journal)
<1>1. L \in Nat /\ Len(journal') = L + 1
  OBVIOUS
<1> HIDE DEF L
<1>2. L % 3 \in 0..2 /\ L \div 3 \in Nat /\ L = 3 * (L \div 3) + (L % 3)
  BY <1>1
<1>3. /\ (L + 1) % 3 = (IF L % 3 = 2 THEN 0 ELSE (L % 3) + 1)
      /\ (L + 1) \div 3 = (IF L % 3 = 2 THEN (L \div 3) + 1 ELSE L \div 3)
  BY <1>1, <1>2
<1> QED BY <1>1, <1>2, <1>3 DEF Trailing, Complete, L

\* What a record leaves of the dispatches started, and of the agents.
LEMMA RecordKeepsWorld ==
  ASSUME IInv, NEW p \in Procs, NEW at, NEW phase, NEW then, Record(p, at, phase, then),
         Numbered' => Numbered
  PROVE  /\ WorldSound' /\ StartsSound' /\ OneAgentPerItem' /\ AgentsWithinLimit'
         /\ \A runs : RunsSound(runs)' <=> RunsSound(runs)
<1> USE DEF world, box, shown
<1>1. UNCHANGED <<tracker, buried, closed, trees, agents, starts, delivery, result>>
      /\ Len(journal) \in Nat /\ Len(journal') = Len(journal) + 1 /\ (Broken => Broken')
  BY Appended DEF Record
<1>2. Started' = Started
  BY <1>1 DEF Started
<1>3. ASSUME NEW runs PROVE RunsSound(runs)' <=> RunsSound(runs)
  BY <1>1, <1>2 DEF RunsSound, RunBound
<1>4. WorldSound' /\ OneAgentPerItem' /\ AgentsWithinLimit'
  BY <1>1 DEF IInv, WorldSound, OneAgentPerItem, AgentsWithinLimit, AtWork
<1>5. StartsSound'
  <2>1. ASSUME Numbered', NEW d \in Started PROVE 3 * d[2] <= Len(journal') + 2
    <3>1. 3 * d[2] <= Len(journal) + 2 /\ d[2] \in Int
      BY <2>1, ControllerAssumption DEF IInv, StartsSound, Started, Dispatches
    <3> QED BY <1>1, <3>1
  <2> QED BY <1>1, <1>2, <2>1 DEF IInv, StartsSound
<1> QED BY <1>3, <1>4, <1>5

\* What a cycle has written before each record.
LEMMA CycleSoFar ==
  ASSUME IInv, At(Recording), Numbered
  PROVE  /\ ~Broken
         /\ Trailing = (IF pc[lock] = "confirm" THEN 2 ELSE 1)
         /\ cycle.number = Complete + 1 /\ view = 3 * Complete
         /\ RunsSound(cycle.facts.runs)
<1>1. /\ journal # <<>> /\ payload.number = cycle.number /\ payload.facts = cycle.facts
      /\ Trailing = (IF pc[lock] = "confirm" THEN 2 ELSE 1)
      /\ payload.number = journal[Len(journal)].cycle /\ TypeOK
  BY DEF IInv, HolderSound, PayloadSound
<1>2. cycle.number = Complete + 1 /\ Trailing # 0
  BY <1>1, LastRecord
<1> QED BY <1>1, <1>2, NotBoth DEF IInv, JournalSound, HistorySound

LEMMA PlanStep ==
  ASSUME IInv, NEW p \in Procs, Plan(p), TypeOK'
  PROVE  Rest'
<1>0. /\ p # None /\ lock = p /\ lock' = lock /\ pc[p] = "plan" /\ pc'[p] = "apply"
      /\ payload' = cycle /\ UNCHANGED <<view, fresh, cycle, world, stale>>
      /\ Record(p, "plan", "planned", "apply")
      /\ TypeOK /\ Len(journal) \in Nat
  BY ControllerAssumption DEF IInv, TypeOK, Plan, Record, Goto, bounds
<1>1. /\ Len(journal') = Len(journal) + 1 /\ journal' # <<>> /\ PayloadSound'
      /\ Broken => Broken'
      /\ Numbered /\ journal # <<>> /\ cycle.number = 1 => Broken'
      /\ Numbered /\ cycle.number = Complete + 1 /\ Phases[Trailing + 1] = "planned" => Numbered'
  BY <1>0, Appended
<1>2. /\ Trailing \in 0..2 /\ Complete \in Nat /\ Len(journal) = 3 * Complete + Trailing
      /\ Trailing' = (IF Trailing = 2 THEN 0 ELSE Trailing + 1)
      /\ Complete' = (IF Trailing = 2 THEN Complete + 1 ELSE Complete)
  BY <1>0, <1>1, OneMore
<1>3. /\ Orderly \/ Overlooked
      /\ JournalSound
      /\ Broken => cycle.number = 1
  BY <1>0 DEF IInv, HolderSound, At, Unplanned
<1>4. ASSUME Numbered' PROVE Orderly /\ Numbered /\ Trailing' = 1 /\ Complete' = Complete
                             /\ view = 3 * Complete /\ cycle.number = Complete + 1
  <2>1. ~Broken'
    BY <1>4, NotBothNext
  <2>2. ~Overlooked /\ Numbered
    BY <1>1, <1>3, <2>1 DEF Overlooked, JournalSound
  <2> QED BY <1>2, <1>3, <2>2 DEF Orderly
<1>5. JournalSound'
  <2>1. Orderly => Numbered'
    BY <1>1 DEF Orderly, Phases
  <2>2. Overlooked => Broken' /\ stale
    BY <1>1, <1>3 DEF Overlooked, JournalSound
  <2> QED BY <1>0, <1>3, <1>4, <2>1, <2>2 DEF JournalSound
<1>6. ~ At(Unplanned)' /\ ~ At({"view"})' /\ ~ At({"recheck", "plan"})' /\ ~ At({"collect"})'
      /\ ~ At({"recheck"})' /\ At({"recheck", "plan", "apply"}) /\ At({"plan", "apply"})
  BY <1>0 DEF At, Unplanned
<1>7. HolderSound'
  <2>1. Broken' => cycle.number = 1
    <3>1. SUFFICES ASSUME Broken', ~Overlooked PROVE cycle.number = 1
      BY DEF Overlooked
    <3>2. ~Numbered' /\ Orderly
      BY <1>3, <3>1, NotBothNext
    <3> QED BY <1>1, <3>2 DEF Orderly, Phases
  <2> QED BY <1>0, <1>1, <1>4, <1>6, <2>1 DEF HolderSound
<1>8. /\ WorldSound' /\ StartsSound' /\ OneAgentPerItem' /\ AgentsWithinLimit'
      /\ \A runs : RunsSound(runs)' <=> RunsSound(runs)
  BY <1>0, <1>4, RecordKeepsWorld
<1>9. HistorySound'
  <2>1. Orderly => RunsSound(cycle.facts.runs)
    BY <1>0 DEF IInv, HistorySound, At
  <2>2. Orderly => RunsSound(cycle.facts.runs)'
    <3>1. PICK runs : runs = cycle.facts.runs
      OBVIOUS
    <3>2. cycle'.facts.runs = runs
      BY <1>0, <3>1
    <3> QED BY <1>8, <2>1, <3>1, <3>2
  <2> QED BY <1>0, <1>1, <1>4, <1>6, <2>2 DEF HistorySound
<1>10. LaunchSound'
  <2>1. cycle.launch # None =>
          /\ cycle.facts.items[cycle.launch] = "open"
          /\ \A e \in agents : ItemOf(e) = cycle.launch => result[e] # None
          /\ Cardinality(AtWork) < WipLimit
          /\ LET d == <<cycle.launch, cycle.number>> IN
               d \in DOMAIN cycle.facts.runs /\ cycle.facts.runs[d] = RunOf(cycle.launch, "launching")
    BY <1>6 DEF IInv, LaunchSound
  <2>2. ASSUME Numbered', NEW d \in Started PROVE d[2] < cycle.number
    <3>1. 3 * d[2] <= Len(journal) + 2 /\ d[2] \in Int
      BY <1>4, <2>2, ControllerAssumption DEF IInv, StartsSound, Started, Dispatches
    <3>2. Trailing = 0
      BY <1>4, <2>2 DEF Orderly
    <3> QED BY <1>2, <1>4, <2>2, <3>1, <3>2
  <2> QED BY <1>0, <1>6, <2>1, <2>2 DEF LaunchSound, Started, AtWork, world, box
<1> QED BY <1>1, <1>5, <1>7, <1>8, <1>9, <1>10 DEF Rest

\* The records after the first.
LEMMA LaterRecord ==
  ASSUME IInv, NEW p \in Procs, TypeOK',
         NEW at \in Recording, NEW phase, NEW then, Record(p, at, phase, then),
         \/ at # "confirm" /\ phase = "applied" /\ then = "confirm"
         \/ at = "confirm" /\ phase = "confirmed" /\ then = "view"
  PROVE  Rest'
<1>0. /\ p # None /\ lock = p /\ lock' = lock /\ pc[p] = at /\ pc'[p] = then
      /\ payload' = cycle /\ UNCHANGED <<view, fresh, cycle, world, stale>>
      /\ TypeOK /\ Len(journal) \in Nat /\ At(Recording)
  BY ControllerAssumption DEF IInv, TypeOK, Record, Goto, bounds, At
<1>1. /\ Len(journal') = Len(journal) + 1 /\ journal' # <<>> /\ PayloadSound'
      /\ Broken => Broken'
      /\ Numbered /\ cycle.number = Complete + 1 /\ phase = Phases[Trailing + 1] => Numbered'
  BY <1>0, Appended
<1>2. /\ Trailing \in 0..2 /\ Complete \in Nat /\ Len(journal) = 3 * Complete + Trailing
      /\ Trailing' = (IF Trailing = 2 THEN 0 ELSE Trailing + 1)
      /\ Complete' = (IF Trailing = 2 THEN Complete + 1 ELSE Complete)
  BY <1>0, <1>1, OneMore
<1>3. JournalSound /\ (Broken => cycle.number = 1)
      /\ (Numbered => /\ Trailing = (IF at = "confirm" THEN 2 ELSE 1)
                      /\ cycle.number = Complete + 1 /\ view = 3 * Complete
                      /\ RunsSound(cycle.facts.runs))
  BY <1>0, CycleSoFar DEF IInv, HolderSound
<1>4. (Numbered => Numbered') /\ (Numbered' => Numbered)
  <2>1. Numbered => Numbered'
    BY <1>1, <1>3 DEF Phases
  <2>2. Broken => ~Numbered'
    BY <1>1, NotBothNext
  <2> QED BY <1>3, <2>1, <2>2 DEF JournalSound
<1>5. JournalSound'
  BY <1>0, <1>1, <1>2, <1>3, <1>4 DEF JournalSound
<1>6. ~ At(Unplanned)' /\ ~ At({"recheck", "plan"})' /\ ~ At({"collect"})'
      /\ ~ At({"recheck"})' /\ ~ At({"recheck", "plan", "apply"})' /\ ~ At({"plan", "apply"})'
      /\ ~ At({"apply"})' /\ (At({"view"})' => at = "confirm") /\ (At(Recording)' => at # "confirm")
  BY <1>0 DEF At, Unplanned, Recording
<1>7. HolderSound'
  <2>1. Broken' => cycle.number = 1
    <3>1. SUFFICES ASSUME Broken' PROVE Broken
      BY <1>3
    <3> QED BY <1>3, <1>4, <3>1, NotBothNext DEF JournalSound
  <2> QED BY <1>0, <1>1, <1>2, <1>3, <1>4, <1>6, <2>1 DEF HolderSound
<1>8. /\ WorldSound' /\ StartsSound' /\ OneAgentPerItem' /\ AgentsWithinLimit'
      /\ \A runs : RunsSound(runs)' <=> RunsSound(runs)
  BY <1>0, <1>4, RecordKeepsWorld
<1>9. HistorySound'
  <2>1. Numbered => RunsSound(cycle.facts.runs)'
    <3>1. PICK runs : runs = cycle.facts.runs
      OBVIOUS
    <3>2. cycle'.facts.runs = runs
      BY <1>0, <3>1
    <3> QED BY <1>3, <1>8, <3>1, <3>2
  <2> QED BY <1>0, <1>1, <1>4, <1>6, <2>1 DEF HistorySound
<1>10. LaunchSound'
  BY <1>6 DEF LaunchSound
<1> QED BY <1>1, <1>5, <1>7, <1>8, <1>9, <1>10 DEF Rest
-----------------------------------------------------------------------------
(* Applying the plan.                                                       *)

LEMMA FiniteAgents == ASSUME TypeOK PROVE IsFiniteSet(AtWork) /\ Cardinality(AtWork) \in Nat
<1>1. AtWork \subseteq Dispatches
  BY DEF AtWork, TypeOK, Started
<1> QED BY <1>1, FiniteDispatches, FS_Subset, FS_CardinalityType

LEMMA LaunchStep ==
  ASSUME IInv, NEW p \in Procs, Launch(p)
  PROVE  Rest'
<1>0. /\ p # None /\ lock = p /\ pc[p] = "apply" /\ pc'[p] = "launched" /\ cycle.launch # None
      /\ UNCHANGED <<journal, payload, view, lock, fresh, cycle, shown, closed, delivery,
                     result, stale>>
      /\ TypeOK /\ CycleOK(cycle) /\ At(Recording) /\ At({"apply"}) /\ At({"plan", "apply"})
      /\ At({"recheck", "plan", "apply"})
  BY ControllerAssumption
     DEF IInv, TypeOK, Launch, Goto, store, bounds, At, Recording, PayloadSound
<1>1. PICK d : d = <<cycle.launch, cycle.number>>
  OBVIOUS
<1>2. /\ starts' = [starts EXCEPT ![d] = @ + 1] /\ agents' = agents \cup {d}
      /\ trees' = trees \cup {ItemOf(d)}
  BY <1>1 DEF Launch
<1>3. d \in Dispatches /\ ItemOf(d) = cycle.launch /\ d[2] = cycle.number
      /\ cycle.launch \in WorkItems /\ cycle.number \in Nat
  BY <1>0, <1>1, ControllerAssumption DEF CycleOK, Dispatches, ItemOf
<1>4. /\ \A e \in agents : ItemOf(e) = cycle.launch => result[e] # None
      /\ Cardinality(AtWork) < WipLimit
      /\ d \in DOMAIN cycle.facts.runs /\ cycle.facts.runs[d] = RunOf(cycle.launch, "launching")
      /\ Numbered => \A x \in Started : x[2] < cycle.number
  BY <1>0, <1>1 DEF IInv, LaunchSound
<1>5. /\ Numbered => ~Broken /\ Trailing = 1 /\ cycle.number = Complete + 1
                     /\ RunsSound(cycle.facts.runs)
      /\ Broken => cycle.number = 1
      /\ journal # <<>> /\ payload.facts = cycle.facts /\ payload.number = cycle.number
      /\ payload.launch = cycle.launch /\ JournalSound
  BY <1>0, CycleSoFar DEF IInv, HolderSound
<1>6. /\ Numbered' <=> Numbered
      /\ Broken' <=> Broken
      /\ Trailing' = Trailing /\ Complete' = Complete
  BY <1>0 DEF Numbered, Broken, Trailing, Complete
<1>7. /\ starts \in [Dispatches -> Nat] /\ starts'[d] = starts[d] + 1
      /\ \A x \in Dispatches : x # d => starts'[x] = starts[x]
      /\ Started' = Started \cup {d}
  BY <1>0, <1>2, <1>3 DEF TypeOK, Started
<1>8. WorldSound'
  BY <1>0, <1>2 DEF IInv, WorldSound, shown
<1>9. JournalSound' /\ PayloadSound'
  BY <1>0, <1>6 DEF IInv, JournalSound, PayloadSound, CycleOK
<1>10. ~ At(Unplanned)' /\ ~ At({"view"})' /\ ~ At({"recheck", "plan"})' /\ ~ At({"collect"})'
       /\ ~ At({"recheck"})' /\ ~ At({"recheck", "plan", "apply"})' /\ ~ At({"plan", "apply"})'
       /\ ~ At({"apply"})'
  BY <1>0 DEF At, Unplanned
<1>11. HolderSound' /\ LaunchSound'
  BY <1>0, <1>5, <1>6, <1>10 DEF HolderSound, LaunchSound
<1>12. HistorySound'
  <2>1. ASSUME Numbered PROVE RunsSound(payload.facts.runs)'
    <3>1. PICK runs : runs = payload.facts.runs
      OBVIOUS
    <3>2. payload'.facts.runs = runs /\ RunsSound(runs) /\ d \in DOMAIN runs
          /\ runs[d] = RunOf(cycle.launch, "launching")
      BY <1>0, <1>4, <1>5, <2>1, <3>1
    <3>3. runs[d].item = ItemOf(d) /\ runs[d].ev["recovery"] \notin TerminalKinds
      BY <1>3, <3>2, NewRun, CoordinationAssumption
    <3>4. RunsSound(runs)'
      BY <1>0, <1>2, <1>7, <3>2, <3>3 DEF RunsSound, RunBound
    <3> QED BY <3>2, <3>4
  <2> QED BY <1>0, <1>5, <1>6, <1>10, <2>1 DEF HistorySound
<1>13. StartsSound'
  <2>1. starts[d] > 0 => d[2] = 1 /\ Broken
    <3>1. SUFFICES ASSUME d \in Started PROVE cycle.number = 1 /\ Broken
      BY <1>3 DEF Started
    <3>2. ~Numbered
      BY <1>3, <1>4, <3>1
    <3> QED BY <1>5, <3>2 DEF JournalSound
  <2>2. ASSUME NEW x \in Dispatches, starts'[x] > 1 PROVE x[2] = 1 /\ Broken'
    BY <1>3, <1>6, <1>7, <2>1, <2>2 DEF IInv, StartsSound
  <2>4. ASSUME NEW x \in Dispatches, result'[x] # None \/ delivery'[x] # None PROVE starts'[x] > 0
    <3>1. starts[x] > 0 /\ starts[x] \in Nat
      BY <1>0, <1>7, <2>4 DEF IInv, StartsSound
    <3> QED BY <1>7, <3>1
  <2>5. ASSUME Numbered', NEW x \in Started' PROVE 3 * x[2] <= Len(journal') + 2
    <3>1. Len(journal) \in Nat
      BY <1>0 DEF TypeOK
    <3>2. Len(journal) = 3 * Complete + 1 /\ Complete \in Nat
      BY <1>5, <1>6, <2>5, <3>1 DEF Complete, Trailing
    <3>3. CASE x = d
      BY <1>0, <1>3, <1>5, <1>6, <2>5, <3>2, <3>3
    <3>4. CASE x # d
      <4>1. x \in Started
        BY <1>7, <2>5, <3>4
      <4> QED BY <1>0, <1>6, <2>5, <4>1 DEF IInv, StartsSound
    <3> QED BY <3>3, <3>4
  <2> QED BY <2>2, <2>4, <2>5 DEF StartsSound
<1>14. OneAgentPerItem'
  BY <1>0, <1>2, <1>3, <1>4 DEF IInv, OneAgentPerItem
<1>15. AgentsWithinLimit'
  <2>1. AtWork' \subseteq AtWork \cup {d}
    BY <1>0, <1>2, <1>3, <1>4 DEF AtWork, TypeOK, Started
  <2>2. IsFiniteSet(AtWork) /\ Cardinality(AtWork) \in Nat /\ Cardinality(AtWork) < WipLimit
    BY <1>0, <1>4, FiniteAgents
  <2>3. IsFiniteSet(AtWork \cup {d}) /\ Cardinality(AtWork \cup {d}) <= Cardinality(AtWork) + 1
    <3>1. PICK S : S = AtWork
      OBVIOUS
    <3>2. /\ IsFiniteSet(S \cup {d})
          /\ Cardinality(S \cup {d}) = IF d \in S THEN Cardinality(S) ELSE Cardinality(S) + 1
      BY <2>2, <3>1, FS_AddElement
    <3> QED BY <2>2, <3>1, <3>2
  <2>4. Cardinality(AtWork') <= Cardinality(AtWork \cup {d}) /\ Cardinality(AtWork') \in Nat
        /\ Cardinality(AtWork \cup {d}) \in Nat
    BY <2>1, <2>3, FS_Subset, FS_CardinalityType
  <2> QED BY <2>2, <2>3, <2>4, CoordinationAssumption DEF AgentsWithinLimit
<1> QED BY <1>8, <1>9, <1>11, <1>12, <1>13, <1>14, <1>15 DEF Rest

LEMMA PublishStep ==
  ASSUME IInv, NEW p \in Procs, Publish(p)
  PROVE  Rest'
<1>0. /\ p # None /\ lock = p /\ pc[p] = "apply"
      /\ UNCHANGED <<journal, payload, view, lock, pc, fresh, buried, closed, trees, agents, starts,
                     delivery, result, stale>>
      /\ cycle' = [cycle EXCEPT !.todo = Tail(@)] /\ CycleOK(cycle)
  BY ControllerAssumption
     DEF IInv, TypeOK, Publish, store, box, bounds, PayloadSound
<1>1. /\ cycle'.number = cycle.number /\ cycle'.facts = cycle.facts
      /\ cycle'.launch = cycle.launch /\ CycleOK(cycle)'
  BY <1>0 DEF CycleOK
<1>2. \A a \in ToSet(Artifacts) : buried'[a] <= tracker'[a] /\ tracker'[a] <= buried'[a] + 1
  <2>1. PICK b : b = Head(cycle.todo)
    OBVIOUS
  <2>2. tracker' = [tracker EXCEPT ![b] = IF tracker[b] = buried[b] THEN tracker[b] + 1 ELSE tracker[b]]
    BY <2>1 DEF Publish
  <2>3. /\ tracker \in [ToSet(Artifacts) -> Nat] /\ buried \in [ToSet(Artifacts) -> Nat]
        /\ \A a \in ToSet(Artifacts) : buried[a] <= tracker[a] /\ tracker[a] <= buried[a] + 1
        /\ buried' = buried
    BY <1>0 DEF IInv, WorldSound, TypeOK
  <2>4. PICK S : S = ToSet(Artifacts)
    OBVIOUS
  <2>5. ASSUME NEW a \in S PROVE buried'[a] <= tracker'[a] /\ tracker'[a] <= buried'[a] + 1
    <3>1. /\ tracker[a] \in Nat /\ buried[a] \in Nat
          /\ buried[a] <= tracker[a] /\ tracker[a] <= buried[a] + 1
      BY <2>3, <2>4
    <3>2. tracker'[a] = IF a = b /\ tracker[a] = buried[a] THEN tracker[a] + 1 ELSE tracker[a]
      BY <2>2, <2>3, <2>4
    <3> QED BY <2>3, <3>1, <3>2
  <2> QED BY <2>4, <2>5
<1>3. /\ Numbered' <=> Numbered
      /\ Broken' <=> Broken
      /\ Trailing' = Trailing /\ Complete' = Complete /\ Started' = Started
  BY <1>0 DEF Numbered, Broken, Trailing, Complete, Started
<1>4. \A runs : RunsSound(runs)' <=> RunsSound(runs)
  BY <1>0, <1>3 DEF RunsSound, RunBound
<1>5. \A steps : At(steps)' <=> At(steps)
  BY <1>0 DEF At
<1>6. ~ At(Unplanned) /\ ~ At({"recheck", "plan"}) /\ ~ At({"collect"}) /\ ~ At({"recheck"})
  BY <1>0 DEF At, Unplanned
<1>7. WorldSound' /\ StartsSound' /\ OneAgentPerItem' /\ AgentsWithinLimit'
  BY <1>0, <1>2, <1>3
     DEF IInv, WorldSound, StartsSound, OneAgentPerItem, AgentsWithinLimit, AtWork
<1>8. JournalSound' /\ PayloadSound'
  BY <1>0, <1>1, <1>3 DEF IInv, JournalSound, PayloadSound, CycleOK
<1>9. HolderSound'
  BY <1>0, <1>1, <1>3, <1>5, <1>6 DEF IInv, HolderSound
<1>10. HistorySound'
  BY <1>0, <1>3, <1>4, <1>5, <1>6 DEF IInv, HistorySound
<1>11. LaunchSound'
  BY <1>0, <1>1, <1>3, <1>5, <1>6 DEF IInv, LaunchSound, AtWork
<1> QED BY <1>7, <1>8, <1>9, <1>10, <1>11 DEF Rest
-----------------------------------------------------------------------------
(* The world.                                                               *)

\* Agents end, records are written and nothing is started: what is known stays sound.
LEMMA WorldMoves ==
  ASSUME IInv, UNCHANGED <<journal, payload, view, lock, pc, fresh, cycle, starts, stale>>,
         WorldSound', agents' \subseteq agents,
         \A d \in Dispatches : result[d] # None => result'[d] # None,
         \A d \in Dispatches : result'[d] # None \/ delivery'[d] # None => starts[d] > 0,
         trees' \subseteq trees
  PROVE  Rest'
<1>0. TypeOK /\ agents \subseteq Dispatches
  BY DEF IInv, TypeOK, Started
<1>1. /\ Numbered' <=> Numbered
      /\ Broken' <=> Broken
      /\ Trailing' = Trailing /\ Complete' = Complete /\ Started' = Started
  BY DEF Numbered, Broken, Trailing, Complete, Started
<1>2. ASSUME NEW runs, RunsSound(runs) PROVE RunsSound(runs)'
  BY <1>0, <1>1, <1>2 DEF RunsSound, RunBound
<1>3. \A steps : At(steps)' <=> At(steps)
  BY DEF At
<1>4. Cardinality(AtWork') <= Cardinality(AtWork) /\ Cardinality(AtWork') \in Nat
      /\ Cardinality(AtWork) \in Nat
  <2>1. AtWork' \subseteq AtWork
    BY <1>0 DEF AtWork
  <2> QED BY <1>0, <2>1, FiniteAgents, FS_Subset, FS_CardinalityType
<1>5. JournalSound' /\ PayloadSound'
  BY <1>1 DEF IInv, JournalSound, PayloadSound, CycleOK
<1>6. HolderSound'
  <2>1. (Orderly' <=> Orderly) /\ (Overlooked' <=> Overlooked)
    BY <1>1 DEF Orderly, Overlooked
  <2> QED BY <1>1, <1>3, <2>1 DEF IInv, HolderSound
<1>7. HistorySound'
  <2>1. Orderly' => Orderly
    BY <1>1 DEF Orderly
  <2>2. RunsSound(payload.facts.runs) => RunsSound(payload.facts.runs)'
    <3>1. PICK runs : runs = payload.facts.runs /\ payload'.facts.runs = runs
      OBVIOUS
    <3> QED BY <1>2, <3>1
  <2>3. RunsSound(cycle.facts.runs) => RunsSound(cycle.facts.runs)'
    <3>1. PICK runs : runs = cycle.facts.runs /\ cycle'.facts.runs = runs
      OBVIOUS
    <3> QED BY <1>2, <3>1
  <2> QED BY <1>1, <1>3, <2>1, <2>2, <2>3 DEF IInv, HistorySound
<1>8. LaunchSound'
  <2>1. ASSUME NEW i, \A e \in agents : ItemOf(e) = i => result[e] # None
        PROVE  \A e \in agents' : ItemOf(e) = i => result'[e] # None
    BY <1>0, <2>1
  <2>2. PICK c : c = cycle /\ cycle' = c
    OBVIOUS
  <2>3. LaunchSound
    BY DEF IInv
  <2>4. ASSUME At({"recheck", "plan", "apply"})', c.launch # None
        PROVE  /\ c.facts.items[c.launch] = "open"
               /\ \A e \in agents' : ItemOf(e) = c.launch => result'[e] # None
               /\ Cardinality(AtWork') < WipLimit
    <3>1. /\ c.facts.items[c.launch] = "open"
          /\ \A e \in agents : ItemOf(e) = c.launch => result[e] # None
          /\ Cardinality(AtWork) < WipLimit
      BY <1>3, <2>2, <2>3, <2>4 DEF LaunchSound
    <3>2. \A e \in agents' : ItemOf(e) = c.launch => result'[e] # None
      BY <2>1, <3>1
    <3>3. PICK m, n : m = Cardinality(AtWork') /\ n = Cardinality(AtWork)
      OBVIOUS
    <3>4. m < WipLimit
      BY <1>4, <3>1, <3>3, CoordinationAssumption
    <3> QED BY <3>1, <3>2, <3>3, <3>4
  <2>5. At({"collect"})' => c.launch = None
    BY <1>3, <2>2, <2>3 DEF LaunchSound
  <2>6. At({"recheck"})' => /\ c.launch # None
                             /\ DOMAIN c.facts = {"items", "runs", "debt", "bars"}
                             /\ LiveFor(c.facts, c.launch) = {}
    BY <1>3, <2>2, <2>3 DEF LaunchSound
  <2>7. At({"plan", "apply"})' /\ c.launch # None =>
          LET d == <<c.launch, c.number>> IN
            d \in DOMAIN c.facts.runs /\ c.facts.runs[d] = RunOf(c.launch, "launching")
    BY <1>3, <2>2, <2>3 DEF LaunchSound
  <2>8. At({"apply"})' /\ c.launch # None /\ Numbered' => \A d \in Started' : d[2] < c.number
    BY <1>1, <1>3, <2>2, <2>3 DEF LaunchSound
  <2>9. LiveFor(c.facts, c.launch)' = LiveFor(c.facts, c.launch)
    BY DEF LiveFor, LiveRuns
  <2> HIDE DEF LiveFor
  <2> QED BY <2>2, <2>4, <2>5, <2>6, <2>7, <2>8, <2>9 DEF LaunchSound
<1>9. StartsSound'
  BY <1>0, <1>1 DEF IInv, StartsSound
<1>10. OneAgentPerItem'
  BY <1>0 DEF IInv, OneAgentPerItem
<1>11. AgentsWithinLimit'
  BY <1>4, CoordinationAssumption DEF IInv, AgentsWithinLimit
<1> QED BY <1>5, <1>6, <1>7, <1>8, <1>9, <1>10, <1>11 DEF Rest

LEMMA EnvironmentStep ==
  ASSUME IInv, Environment
  PROVE  Rest'
<1> USE DEF store, box, shown, world, bounds
<1>0. TypeOK /\ WorldSound /\ StartsSound
  BY DEF IInv
<1>1. CASE ShowInitiative
  <2>1. WorldSound'
    BY <1>0, <1>1 DEF ShowInitiative, WorldSound
  <2> QED BY <1>0, <1>1, <2>1, WorldMoves DEF ShowInitiative, StartsSound
<1>6. ASSUME NEW b \in ToSet(Artifacts), Bury(b) PROVE Rest'
  <2>1. \A a \in ToSet(Artifacts) : buried'[a] <= tracker'[a] /\ tracker'[a] <= buried'[a] + 1
    <3>1. PICK S : S = ToSet(Artifacts)
      OBVIOUS
    <3>2. /\ tracker \in [S -> Nat] /\ buried \in [S -> Nat] /\ tracker' = tracker
          /\ buried' = [buried EXCEPT ![b] = @ + 1] /\ buried[b] < tracker[b]
          /\ \A a \in S : buried[a] <= tracker[a] /\ tracker[a] <= buried[a] + 1
      BY <1>0, <1>6, <3>1 DEF Bury, TypeOK, WorldSound
    <3>3. ASSUME NEW a \in S PROVE buried'[a] <= tracker'[a] /\ tracker'[a] <= buried'[a] + 1
      <4>1. buried'[a] = IF a = b THEN buried[a] + 1 ELSE buried[a]
        BY <3>2
      <4>2. tracker[a] \in Nat /\ buried[a] \in Nat
        BY <3>2
      <4> QED BY <3>2, <4>1, <4>2
    <3> QED BY <3>1, <3>3
  <2>2. WorldSound'
    BY <1>0, <1>6, <2>1 DEF Bury, WorldSound
  <2> QED BY <1>0, <1>6, <2>2, WorldMoves DEF Bury, StartsSound
<1>2. ASSUME NEW d \in Dispatches, AgentDies(d) PROVE Rest'
  <2>1. WorldSound'
    BY <1>0, <1>2 DEF AgentDies, WorldSound
  <2> QED BY <1>0, <1>2, <2>1, WorldMoves DEF AgentDies, StartsSound
<1>3. ASSUME NEW d \in Dispatches, Deliver(d) PROVE Rest'
  <2>1. PICK doc \in Deliveries : delivery' = [delivery EXCEPT ![d] = [doc EXCEPT !.item = ItemOf(d)]]
    BY <1>3 DEF Deliver
  <2>2. IsRun([doc EXCEPT !.item = ItemOf(d)])
    BY ControllerAssumption DEF IsRun
  <2>3. WorldSound'
    BY <1>0, <1>3, <2>1, <2>2 DEF Deliver, WorldSound
  <2>4. starts[d] > 0
    BY <1>0, <1>3 DEF Deliver, TypeOK, Started
  <2>5. \A x \in Dispatches : result'[x] # None \/ delivery'[x] # None => starts[x] > 0
    BY <1>0, <1>3, <2>1, <2>4 DEF Deliver, StartsSound, WorldSound
  <2> QED BY <1>3, <2>3, <2>5, WorldMoves DEF Deliver
<1>4. ASSUME NEW d \in Dispatches, PublishResult(d) PROVE Rest'
  <2>1. PICK doc \in Results : result' = [result EXCEPT ![d] = doc]
    BY <1>4 DEF PublishResult
  <2>2. doc # None /\ IsRun(doc) /\ d \in Started
    BY <1>4, <2>1, ControllerAssumption DEF PublishResult
  <2>3. WorldSound'
    BY <1>0, <1>4, <2>1, <2>2 DEF PublishResult, WorldSound
  <2>4. \A x \in Dispatches : /\ result[x] # None => result'[x] # None
                              /\ result'[x] # None \/ delivery'[x] # None => starts[x] > 0
    BY <1>0, <1>4, <2>1, <2>2 DEF PublishResult, StartsSound, WorldSound, Started
  <2> QED BY <1>4, <2>3, <2>4, WorldMoves DEF PublishResult
<1>5. ASSUME NEW i \in WorkItems, CloseIssue(i) \/ ReopenIssue(i) \/ RemoveTree(i) PROVE Rest'
  <2>1. WorldSound'
    BY <1>0, <1>5 DEF CloseIssue, ReopenIssue, RemoveTree, WorldSound
  <2> QED BY <1>0, <1>5, <2>1, WorldMoves DEF CloseIssue, ReopenIssue, RemoveTree, StartsSound
<1> QED BY <1>1, <1>2, <1>3, <1>4, <1>5, <1>6 DEF Environment
-----------------------------------------------------------------------------
(* The invariant, and what follows from it.                                 *)

\* A fresh start that overlooks no journal finds nothing recorded; every other cycle
\* keeps complete what the last record calls complete, and records it again.
LEMMA DoneStep == IInv /\ [Next]_vars => DoneSound'
<1> SUFFICES ASSUME IInv, [Next]_vars, ~stale' PROVE DoneSound'
  BY DEF DoneSound
<1> USE DEF store, bounds
<1>0. /\ TypeOK /\ LockSound /\ PayloadSound /\ HolderSound
      /\ pc \in [Procs -> {"idle", "mark", "lock"} \cup Working] /\ None \notin Procs
  BY ControllerAssumption DEF IInv, TypeOK, Working, Unplanned, Recording
<1>1. ~stale
  BY DEF Next, Process, Environment, Begin, MarkStarted, LockHeld, LoadRefused, Resume, Open,
         Collect, Recheck, Plan, Launch, Publish, PortFails, Applied, LaunchApplied, Confirm,
         Materialize, Crash, Record, Recover, ShowInitiative, Bury, AgentDies, Deliver,
         PublishResult, CloseIssue, ReopenIssue, RemoveTree, vars
<1>2. /\ done \subseteq IF journal = <<>> THEN {} ELSE CompleteIn(payload.facts.items)
      /\ At({"recheck", "plan"}) => done \subseteq CompleteIn(cycle.facts.items)
  BY <1>1 DEF IInv, DoneSound
<1>3. ASSUME UNCHANGED <<journal, payload, done>>,
             At({"recheck", "plan"})' => At({"recheck", "plan"}) /\ cycle' = cycle
      PROVE  DoneSound'
  BY <1>2, <1>3 DEF DoneSound, CompleteIn
<1>4. ASSUME NEW p \in Procs, Process(p) PROVE DoneSound'
  <2>1. CASE Begin(p) \/ MarkStarted(p) \/ LockHeld(p) \/ LoadRefused(p)
    <3>1. lock # p /\ UNCHANGED <<journal, payload, done, lock, cycle>>
      BY <1>0, <2>1 DEF Begin, MarkStarted, LockHeld, LoadRefused, LockSound, Working,
                        Unplanned, Recording
    <3>2. \A q \in Procs \ {p} : pc'[q] = pc[q]
      BY <1>0, <2>1 DEF Begin, MarkStarted, LockHeld, LoadRefused, Goto
    <3>3. lock # None => lock \in Procs
      BY <1>0 DEF TypeOK
    <3> QED BY <1>3, <3>1, <3>2, <3>3 DEF At
  <2>2. CASE Resume(p) \/ Open(p)
    <3>1. UNCHANGED <<journal, payload, done>> /\ pc'[p] \in {"apply", "confirm", "collect"}
          /\ lock' = p
      BY <1>0, <2>2 DEF Resume, Open, Goto
    <3> QED BY <1>3, <3>1 DEF At
  <2>3. CASE PortFails(p) \/ Materialize(p)
    BY <1>3, <2>3 DEF PortFails, Materialize, Release, At
  <2>4. CASE Crash(p)
    <3>1. lock # None /\ lock # p => pc'[lock] = pc[lock]
      BY <1>0, <2>4 DEF Crash, Goto
    <3> QED BY <1>3, <2>4, <3>1 DEF Crash, At
  <2>5. CASE Launch(p) \/ Publish(p)
    <3>1. UNCHANGED <<journal, payload, done, lock>> /\ lock = p
          /\ pc'[p] \in {"apply", "launched"}
      BY <1>0, <2>5 DEF Launch, Publish, Goto
    <3> QED BY <1>3, <3>1 DEF At
  <2>6. ASSUME NEW at, NEW phase, NEW then \in Recording \cup {"view"},
               Record(p, at, phase, then), at \in Recording \cup {"plan"}
        PROVE  DoneSound'
    <3>1. /\ lock = p /\ lock' = p /\ pc[p] = at /\ pc'[p] = then /\ payload' = cycle
          /\ done' = done \cup CompleteIn(cycle.facts.items)
          /\ journal' = Append(journal, [cycle |-> cycle.number, phase |-> phase])
      BY <1>0, <2>6 DEF Record, Goto
    <3>2. done \subseteq CompleteIn(cycle.facts.items)
      <4>1. CASE at = "plan"
        BY <1>0, <1>2, <3>1, <4>1 DEF At
      <4>2. CASE at \in Recording
        BY <1>0, <1>2, <3>1, <4>2 DEF At, HolderSound
      <4> QED BY <2>6, <4>1, <4>2
    <3>3. journal' # <<>>
      BY <1>0, <3>1 DEF TypeOK
    <3>4. ~ At({"recheck", "plan"})'
      BY <2>6, <3>1 DEF At, Recording
    <3>5. CompleteIn(payload'.facts.items) = CompleteIn(cycle.facts.items)
      BY <3>1
    <3> QED BY <3>1, <3>2, <3>3, <3>4, <3>5 DEF DoneSound, CompleteIn
  <2>7. CASE Plan(p) \/ Applied(p) \/ LaunchApplied(p) \/ Confirm(p)
    BY <2>6, <2>7 DEF Plan, Applied, LaunchApplied, Confirm, Recording
  <2>8. CASE Collect(p)
    <3>1. /\ lock = p /\ At({"collect"}) /\ At({"collect", "recheck"}) /\ At(Unplanned)
          /\ UNCHANGED <<journal, payload, done, lock>> /\ CycleOK(cycle)
      BY <1>0, <2>8 DEF Collect, At, Unplanned, PayloadSound
    <3>2. PICK f \in Facts(p) : cycle'.facts = f
      BY <2>8, <3>1 DEF Collect, CycleOK
    <3>3. Orderly
      BY <1>0, <1>1, <3>1 DEF HolderSound, Overlooked
    <3>4. done \subseteq CompleteIn(f.items)
      <4>1. CASE journal = <<>>
        BY <1>2, <4>1
      <4>2. CASE journal # <<>>
        <5>1. ~fresh[p]
          BY <3>1, <3>3, <4>2 DEF Orderly
        <5>2. ASSUME NEW i \in CompleteIn(payload.facts.items)
              PROVE  KeptItems(p, ItemsSeen)[i] = "complete"
          BY <5>1 DEF KeptItems, RetainCompleted, CompleteIn
        <5>3. \A i \in WorkItems : KeptItems(p, ItemsSeen)[i] = "complete" => f.items[i] = "complete"
          BY LookOf
        <5> QED BY <1>2, <4>2, <5>2, <5>3 DEF CompleteIn
      <4> QED BY <4>1, <4>2
    <3>5. CompleteIn(cycle'.facts.items) = CompleteIn(f.items)
      BY <3>2
    <3> QED BY <1>2, <3>1, <3>4, <3>5 DEF DoneSound, CompleteIn
  <2>9. CASE Recheck(p)
    <3>1. CASE Release(p)
      BY <1>3, <2>9, <3>1 DEF Recheck, Release, At
    <3>2. CASE ~Release(p)
      <4>1. PICK f : f = WithWorkRun(cycle.facts, <<cycle.launch, cycle.number>>, cycle.launch)
        OBVIOUS
      <4>2. /\ lock = p /\ UNCHANGED <<journal, payload, done, lock>>
            /\ cycle' = [cycle EXCEPT !.facts = f] /\ At({"recheck"}) /\ At({"recheck", "plan"})
            /\ CycleOK(cycle)
        BY <1>0, <2>9, <3>2, <4>1 DEF Recheck, At, PayloadSound
      <4>3. f.items = cycle.facts.items
        BY <4>1, <4>2, BindingIsSound
      <4>4. cycle'.facts = f
        BY <4>2 DEF CycleOK
      <4>5. CompleteIn(cycle'.facts.items) = CompleteIn(cycle.facts.items)
        BY <4>3, <4>4
      <4> QED BY <1>2, <4>2, <4>5 DEF DoneSound, CompleteIn
    <3> QED BY <3>1, <3>2
  <2> QED BY <1>4, <2>1, <2>2, <2>3, <2>4, <2>5, <2>7, <2>8, <2>9 DEF Process
<1>5. CASE Recover \/ Environment \/ UNCHANGED vars
  <2>1. UNCHANGED <<journal, payload, done, lock, pc, cycle>>
    BY <1>5 DEF Recover, Environment, ShowInitiative, Bury, AgentDies, Deliver, PublishResult,
                CloseIssue, ReopenIssue, RemoveTree, vars
  <2> QED BY <1>3, <2>1 DEF At
<1> QED BY <1>4, <1>5 DEF Next

LEMMA InitSound == Init => IInv
<1> SUFFICES ASSUME Init PROVE IInv
  OBVIOUS
<1>1. /\ Len(journal) = 0 /\ journal = <<>> /\ view = 0 /\ lock = None /\ agents = {}
      /\ Started = {} /\ None \notin Procs
  BY ControllerAssumption DEF Init, Started
<1>2. TypeOK
  <2>1. /\ marker \in BOOLEAN /\ torn \in BOOLEAN /\ stale \in BOOLEAN
        /\ lock \in Procs \cup {None} /\ trees \subseteq WorkItems
    BY <1>1 DEF Init
  <2>6. done \subseteq WorkItems
        /\ tracker \in [ToSet(Artifacts) -> Nat] /\ buried \in [ToSet(Artifacts) -> Nat]
    BY DEF Init
  <2>2. journal \in Seq([cycle : 1..MaxCycles, phase : ToSet(Phases)])
    <3> DEFINE R == [cycle : 1..MaxCycles, phase : ToSet(Phases)]
    <3> HIDE DEF R
    <3>1. journal \in Seq(R)
      BY <1>1
    <3> QED BY <3>1 DEF R
  <2>3. view \in 0..Len(journal) /\ agents \subseteq Started
    BY <1>1
  <2>4. fresh \in [Procs -> BOOLEAN] /\ starts \in [Dispatches -> Nat]
    BY DEF Init
  <2>5. pc \in [Procs -> {"idle", "mark", "lock", "collect", "recheck", "plan",
                          "apply", "launched", "confirm", "view"}]
    BY DEF Init
  <2> QED BY <2>1, <2>2, <2>3, <2>4, <2>5, <2>6 DEF TypeOK
<1>3. \A steps : ~ At(steps)
  BY <1>1 DEF At
<1>4. Numbered /\ ~Broken /\ Trailing = 0
  BY <1>1 DEF Numbered, Broken, Trailing
<1>5. LockSound
  BY <1>1 DEF Init, LockSound, Working, Unplanned, Recording
<1>6. WorldSound /\ JournalSound /\ PayloadSound
  BY <1>1, <1>4 DEF Init, WorldSound, JournalSound, PayloadSound
<1>7. HolderSound /\ HistorySound /\ LaunchSound
  BY <1>1, <1>3 DEF HolderSound, HistorySound, LaunchSound
<1>8. StartsSound
  BY <1>1 DEF Init, StartsSound
<1>9. OneAgentPerItem
  BY <1>1 DEF OneAgentPerItem
<1>10. AgentsWithinLimit
  <2>1. AtWork = {}
    BY <1>1 DEF AtWork
  <2> QED BY <2>1, FS_EmptySet, CoordinationAssumption DEF AgentsWithinLimit
<1>11. DoneSound
  BY <1>1, <1>3 DEF Init, DoneSound
<1> QED BY <1>2, <1>5, <1>6, <1>7, <1>8, <1>9, <1>10, <1>11 DEF IInv

LEMMA NextSound == IInv /\ [Next]_vars => IInv'
<1> SUFFICES ASSUME IInv, [Next]_vars PROVE IInv'
  OBVIOUS
<1>1. SUFFICES Rest' /\ TypeOK' /\ LockSound'
  BY DoneStep DEF Rest, IInv
<1>2. ASSUME NEW p \in Procs, Process(p) PROVE Rest' /\ TypeOK' /\ LockSound'
  <2>0. TypeOK' /\ LockSound'
    BY <1>2, ProcessTypes
  <2>1. {"apply", "launched", "confirm"} \subseteq Recording
    BY DEF Recording
  <2>2. Applied(p) \/ LaunchApplied(p) \/ Confirm(p) => Rest'
    BY <2>0, <2>1, LaterRecord DEF Applied, LaunchApplied, Confirm, Recording
  <2> QED BY <1>2, <2>0, <2>2, AsideStep, ResumeStep, OpenStep, CollectStep, RecheckStep,
             PlanStep, LaunchStep, PublishStep DEF Process
<1>3. CASE Recover
  <2>1. Rest'
    BY <1>3, OutsiderStep DEF Recover, bounds
  <2> QED BY <1>3, <2>1, WorldTypes
<1>4. CASE Environment
  BY <1>4, EnvironmentStep, WorldTypes
<1>5. CASE UNCHANGED vars
  <2>1. Rest'
    BY <1>5, OutsiderStep DEF vars, store, bounds
  <2>2. TypeOK' /\ LockSound'
    BY <1>5 DEF IInv, TypeOK, LockSound, vars, store, world, box, shown, bounds, Started
  <2> QED BY <2>1, <2>2
<1> QED BY <1>2, <1>3, <1>4, <1>5 DEF Next

LEMMA AlwaysSound == Spec => []IInv
  BY InitSound, NextSound, PTL DEF Spec

\* The Controller's variables keep their types.
THEOREM TypeCorrect == Spec => []TypeOK
<1>1. IInv => TypeOK
  BY DEF IInv
<1> QED BY <1>1, AlwaysSound, PTL

\* Two agents never work on one Work Item, unless a result was published for one of
\* them: the slot rule, the second look and the occupancy scan hold together across
\* crashes and races (controller_policy.py:246, controller_ports.py:428).
THEOREM OneAgentEach == Spec => []OneAgentPerItem
<1>1. IInv => OneAgentPerItem
  BY DEF IInv
<1> QED BY <1>1, AlwaysSound, PTL

\* The agents at work in a tree with no result published stay within the ruled limit,
\* though trees are removed and results published while an agent still works
\* (controller_policy.py:288).
THEOREM LimitHolds == Spec => []AgentsWithinLimit
<1>1. IInv => AgentsWithinLimit
  BY DEF IInv
<1> QED BY <1>1, AlwaysSound, PTL

\* No artifact has two copies where the lookup reads and, unless a fresh start overlooked
\* a journal, no dispatch is started twice (controller.py:252, controller_planning.py:1129).
THEOREM AppliedAtMostOnce == Spec => []AppliedOnce
<1>1. IInv => AppliedOnce
  <2> SUFFICES ASSUME IInv PROVE AppliedOnce
    OBVIOUS
  <2>1. \A a \in ToSet(Artifacts) : tracker[a] <= buried[a] + 1
    BY DEF IInv, WorldSound
  <2>2. ASSUME ~stale, NEW d \in Dispatches PROVE starts[d] <= 1
    <3>1. ~Broken
      BY <2>2, NotBoth DEF IInv, JournalSound
    <3>2. starts[d] \in Nat
      BY DEF IInv, TypeOK
    <3> QED BY <3>1, <3>2 DEF IInv, StartsSound
  <2> QED BY <2>1, <2>2 DEF AppliedOnce
<1> QED BY <1>1, AlwaysSound, PTL

LEMMA NumberedIsOrdered == ASSUME TypeOK, Numbered PROVE Ordered
<1> DEFINE L == Len(journal)
<1>1. L \in Nat
  BY DEF TypeOK
<1>2. ASSUME NEW k \in 1..L
      PROVE  /\ journal[k].phase = Phases[((k - 1) % 3) + 1]
             /\ journal[k].cycle = journal[3 * ((k - 1) \div 3) + 1].cycle
  <2> DEFINE m == (k - 1) \div 3
             h == 3 * m + 1
  <2>1. m \in Nat /\ h \in 1..L /\ h - 1 = 3 * m
    BY <1>1
  <2>2. journal[k] = [cycle |-> m + 1, phase |-> Phases[((k - 1) % 3) + 1]]
    BY DEF Numbered
  <2>3. journal[h] = [cycle |-> ((h - 1) \div 3) + 1, phase |-> Phases[((h - 1) % 3) + 1]]
    BY <2>1 DEF Numbered
  <2>4. (h - 1) \div 3 = m
    <3> HIDE DEF h, m
    <3>1. (3 * m) \div 3 = m
      BY <2>1
    <3> QED BY <2>1, <3>1
  <2> HIDE DEF h, m
  <2>5. journal[k].cycle = journal[h].cycle /\ journal[k].phase = Phases[((k - 1) % 3) + 1]
    BY <2>2, <2>3, <2>4
  <2> QED BY <2>5 DEF h, m
<1>3. ASSUME NEW n \in 0..Complete - 1 PROVE CycleAt(n)[1].cycle = n + 1
  <2>1. n \in Nat /\ 3 * n + 1 \in 1..L /\ 3 * n + 3 \in 1..L
    BY <1>1, <1>3 DEF Complete
  <2>2. CycleAt(n)[1] = journal[3 * n + 1]
    <3>1. PICK R : journal \in Seq(R)
      BY DEF TypeOK
    <3> QED BY <1>1, <2>1, <3>1 DEF CycleAt
  <2>3. ((3 * n + 1) - 1) \div 3 = n
    BY <2>1
  <2>4. journal[3 * n + 1] = [cycle |-> (((3 * n + 1) - 1) \div 3) + 1,
                              phase |-> Phases[(((3 * n + 1) - 1) % 3) + 1]]
    BY <2>1 DEF Numbered
  <2> QED BY <2>2, <2>3, <2>4
<1>4. \A m, n \in 0..Complete - 1 : m # n => CycleAt(m)[1].cycle # CycleAt(n)[1].cycle
  <2>1. ASSUME NEW m \in 0..Complete - 1, NEW n \in 0..Complete - 1, m # n
        PROVE  CycleAt(m)[1].cycle # CycleAt(n)[1].cycle
    <3>1. CycleAt(m)[1].cycle = m + 1 /\ CycleAt(n)[1].cycle = n + 1 /\ m \in Int /\ n \in Int
      BY <1>3
    <3> QED BY <2>1, <3>1
  <2> QED BY <2>1
<1> QED BY <1>2, <1>4 DEF Ordered

\* Between two processes the journal can be loaded, or one of three things happened to
\* it: an append cut short, a fresh start that overlooked it, a death between the
\* confirmed record and the view (controller_store.py:363, 400).
THEOREM UnreadableOnlyForACause == Spec => []UnreadableHasACause
<1>1. IInv => UnreadableHasACause
  <2> SUFFICES ASSUME IInv, journal # <<>>, ~torn, ~stale,
                      ~ (LastPhase = "confirmed" /\ view = Len(journal) - 3)
               PROVE  Loadable
    BY DEF UnreadableHasACause
  <2>1. TypeOK /\ JournalSound /\ Numbered
    BY DEF IInv, JournalSound
  <2>2. /\ Len(journal) \in Nat /\ Trailing \in 0..2 /\ Complete \in Nat
        /\ LastPhase = (IF Trailing = 0 THEN "confirmed"
                        ELSE IF Trailing = 1 THEN "planned" ELSE "applied")
        /\ journal[Len(journal)].cycle = IF Trailing = 0 THEN Complete ELSE Complete + 1
    BY <2>1, LastRecord
  <2>3. Ordered
    BY <2>1, NumberedIsOrdered
  <2>4. CASE Trailing = 0
    BY <2>1, <2>2, <2>3, <2>4 DEF Loadable, JournalSound
  <2>5. CASE Trailing # 0
    <3>1. view = 3 * Complete
      BY <2>1, <2>5 DEF JournalSound
    <3>2. ASSUME NEW n \in 0..Complete - 1 PROVE CycleAt(n)[1].cycle # Last(journal).cycle
      <4>1. CycleAt(n)[1].cycle = n + 1
        <5>1. n \in Nat /\ 3 * n + 1 \in 1..Len(journal) /\ 3 * n + 3 \in 1..Len(journal)
          BY <2>2 DEF Complete
        <5>2. CycleAt(n)[1] = journal[3 * n + 1]
          BY <2>1, <5>1 DEF CycleAt, TypeOK
        <5>3. ((3 * n + 1) - 1) \div 3 = n
          BY <5>1
        <5>4. journal[3 * n + 1] = [cycle |-> (((3 * n + 1) - 1) \div 3) + 1,
                                    phase |-> Phases[(((3 * n + 1) - 1) % 3) + 1]]
          BY <2>1, <5>1 DEF Numbered
        <5> QED BY <5>2, <5>3, <5>4
      <4>2. Last(journal).cycle = Complete + 1
        BY <2>2, <2>5 DEF Last
      <4> QED BY <2>2, <4>1, <4>2
    <3> QED BY <2>3, <2>5, <3>1, <3>2 DEF Loadable
  <2> QED BY <2>4, <2>5
<1> QED BY <1>1, AlwaysSound, PTL

\* Unless a fresh start overlooked the journal, what is launched was never recorded
\* complete, in no cycle before, whatever the tracker shows of it by now
\* (controller_policy.py:633, controller.py:516).
THEOREM CompletedStays == Spec => NoRelaunchOfCompleted
<1>1. IInv /\ [Next]_vars =>
        [\A d \in Dispatches : starts'[d] > starts[d] => stale \/ ItemOf(d) \notin done]_vars
  <2> SUFFICES ASSUME IInv, Next, NEW d \in Dispatches, starts'[d] > starts[d], ~stale
               PROVE  ItemOf(d) \notin done
    OBVIOUS
  <2>1. starts \in [Dispatches -> Nat]
    BY DEF IInv, TypeOK
  <2>2. PICK p \in Procs : Launch(p)
    <3>1. starts' # starts
      BY <2>1
    <3> QED BY <3>1 DEF Next, Process, Environment, Begin, MarkStarted, LockHeld, LoadRefused,
                       Resume, Open, Collect, Recheck, Plan, Publish, PortFails, Applied,
                       LaunchApplied, Confirm, Materialize, Crash, Record, Recover,
                       ShowInitiative, Bury, AgentDies, Deliver, PublishResult, CloseIssue,
                       ReopenIssue, RemoveTree, shown, world, box
  <2>3. d = <<cycle.launch, cycle.number>>
    BY <2>1, <2>2 DEF Launch
  <2>4. /\ At({"recheck", "plan", "apply"}) /\ At(Recording) /\ cycle.launch # None
    BY <2>2, ControllerAssumption DEF Launch, At, Recording
  <2>5. /\ cycle.facts.items[cycle.launch] = "open"
        /\ journal # <<>> /\ payload.facts = cycle.facts
    BY <2>4 DEF IInv, LaunchSound, HolderSound
  <2>6. done \subseteq CompleteIn(payload.facts.items)
    BY <2>5 DEF IInv, DoneSound
  <2> QED BY <2>3, <2>5, <2>6 DEF CompleteIn, ItemOf
<1> QED BY <1>1, AlwaysSound, PTL DEF Spec, NoRelaunchOfCompleted
-----------------------------------------------------------------------------
(* The SHAs of a run: what is merged into it and stays free of conflict names no other. *)

\* Neither a conflict nor a typed non-result.
Whole(run) == ~run.conflict /\ run.fail \notin NonResults

LEMMA FewShas == ASSUME NEW run PROVE IsFiniteSet(ShasOf(run))
<1>1. /\ IsFiniteSet({run.ev["candidate"]}) /\ IsFiniteSet({run.ev["reviewed"]})
      /\ IsFiniteSet({run.ev["adjudicated"]}) /\ IsFiniteSet({run.ev["gated"]})
      /\ IsFiniteSet({run.ev["landed"]}) /\ IsFiniteSet({run.ev["closed"]})
  BY FS_Singleton
<1>2. IsFiniteSet({run.ev["candidate"]} \cup {run.ev["reviewed"]} \cup {run.ev["adjudicated"]}
                  \cup {run.ev["gated"]} \cup {run.ev["landed"]} \cup {run.ev["closed"]})
  BY <1>1, FS_Union
<1>3. ShasOf(run) \subseteq {run.ev["candidate"]} \cup {run.ev["reviewed"]}
        \cup {run.ev["adjudicated"]} \cup {run.ev["gated"]} \cup {run.ev["landed"]}
        \cup {run.ev["closed"]}
  BY DEF ShasOf, Identities
<1> QED BY <1>2, <1>3, FS_Subset

LEMMA OnlyOne ==
  ASSUME NEW S, IsFiniteSet(S), ~ (Cardinality(S) > 1), NEW x \in S, NEW y \in S
  PROVE  x = y
<1>1. IsFiniteSet({x}) /\ Cardinality({x}) = 1
  BY FS_Singleton
<1>2. x # y => Cardinality({x} \cup {y}) = 2
  <2> DEFINE T == {x}
  <2>1. IsFiniteSet(T) /\ Cardinality(T) = 1 /\ (x # y => y \notin T)
    BY <1>1
  <2> HIDE DEF T
  <2>2. Cardinality(T \cup {y}) = IF y \in T THEN Cardinality(T) ELSE Cardinality(T) + 1
    BY <2>1, FS_AddElement
  <2> QED BY <2>1, <2>2 DEF T
<1>3. {x} \cup {y} \in SUBSET S
  OBVIOUS
<1>4. Cardinality({x} \cup {y}) <= Cardinality(S) /\ Cardinality(S) \in Nat
  BY <1>3, FS_Subset, FS_CardinalityType
<1> QED BY <1>2, <1>4

\* A merge that stays whole joined two whole observations, and has the SHAs of both.
LEMMA MergeShas ==
  ASSUME NEW old, NEW new, IsRun(old), IsRun(new), Whole(MergeRun(old, new))
  PROVE  /\ Whole(old) /\ Whole(new)
         /\ ShasOf(MergeRun(old, new)) = ShasOf(old) \cup ShasOf(new)
<1> DEFINE m == MergeIdentity(old, new)
           both == ShasOf(old) \cup ShasOf(new)
<1>1. MergeRun(old, new) =
        [m EXCEPT !.conflict = @ \/ (old.item # None /\ new.item # None /\ old.item # new.item),
                  !.item = Prefer(old.item, new.item),
                  !.published = old.published \/ new.published]
  BY DEF MergeRun
<1>2. IsRun(m)
  BY DEF MergeIdentity, IsRun, Evidence, Identities
<1> HIDE DEF m
<1>3. /\ MergeRun(old, new).ev = m.ev /\ MergeRun(old, new).fail = m.fail
      /\ MergeRun(old, new).conflict <=>
           m.conflict \/ (old.item # None /\ new.item # None /\ old.item # new.item)
  BY <1>1, <1>2 DEF IsRun
<1>4. ~m.conflict /\ m.fail \notin NonResults
  BY <1>3 DEF Whole
<1>5. /\ ~ (Cardinality(both) > 1) /\ ~old.conflict /\ ~new.conflict
      /\ old.fail \notin NonResults
      /\ m = IF new.fail \in NonResults THEN new
             ELSE IF old.ev["landed"] # None
             THEN [old EXCEPT !.ev["closed"] = Prefer(new.ev["closed"], @)]
             ELSE [new EXCEPT !.ev = [f \in Evidence |-> Prefer(@[f], old.ev[f])]]
  <2>1. m = IF \/ Cardinality(both) > 1 \/ old.conflict \/ new.conflict
               \/ old.fail \in NonResults
            THEN [old EXCEPT !.conflict = TRUE]
            ELSE IF new.fail \in NonResults THEN new
            ELSE IF old.ev["landed"] # None
            THEN [old EXCEPT !.ev["closed"] = Prefer(new.ev["closed"], @)]
            ELSE [new EXCEPT !.ev = [f \in Evidence |-> Prefer(@[f], old.ev[f])]]
    BY DEF m, MergeIdentity
  <2>2. [old EXCEPT !.conflict = TRUE].conflict
    BY DEF IsRun
  <2> HIDE DEF both
  <2> QED BY <1>4, <2>1, <2>2
<1>6. new.fail \notin NonResults
  BY <1>4, <1>5
<1>7. \A x, y \in both : x = y
  <2>1. IsFiniteSet(both)
    BY FewShas, FS_Union
  <2> HIDE DEF both
  <2> QED BY <1>5, <2>1, OnlyOne
<1>8. ShasOf(m) = both
  <2>1. CASE old.ev["landed"] # None
    <3>1. m.ev = [old.ev EXCEPT !["closed"] = Prefer(new.ev["closed"], @)]
      BY <1>5, <1>6, <2>1 DEF IsRun
    <3>2. old.ev["landed"] \in ShasOf(old) /\ m.ev["landed"] = old.ev["landed"]
      BY <2>1, <3>1 DEF ShasOf, Identities, IsRun, Evidence
    <3>3. m.ev["landed"] \in ShasOf(m)
      BY <2>1, <3>2 DEF ShasOf, Identities
    <3>4. \A f \in Identities : m.ev[f] \in {old.ev[f], new.ev[f]}
      BY <3>1 DEF Identities, IsRun, Evidence, Prefer
    <3>5. ShasOf(m) \subseteq both
      BY <3>4 DEF ShasOf
    <3> HIDE DEF both
    <3>6. ASSUME NEW x \in both PROVE x = m.ev["landed"]
      BY <1>7, <3>3, <3>5, <3>6
    <3> QED BY <3>3, <3>5, <3>6
  <2>2. CASE old.ev["landed"] = None
    <3>1. m.ev = [f \in Evidence |-> Prefer(new.ev[f], old.ev[f])]
      BY <1>5, <1>6, <2>2 DEF IsRun
    <3>2. \A f \in Identities : m.ev[f] = Prefer(new.ev[f], old.ev[f])
      BY <3>1 DEF Identities, Evidence
    <3>3. ShasOf(m) \subseteq both
      BY <3>2 DEF ShasOf, Prefer
    <3>4. both \subseteq ShasOf(m)
      <4>1. ASSUME NEW f \in Identities, new.ev[f] # None PROVE new.ev[f] \in ShasOf(m)
        BY <3>2, <4>1 DEF ShasOf, Prefer
      <4>2. ASSUME NEW f \in Identities, old.ev[f] # None PROVE old.ev[f] \in ShasOf(m)
        <5>1. CASE new.ev[f] = None
          BY <3>2, <4>2, <5>1 DEF ShasOf, Prefer
        <5>2. CASE new.ev[f] # None
          <6>1. new.ev[f] \in ShasOf(new) /\ old.ev[f] \in ShasOf(old)
            BY <4>2, <5>2 DEF ShasOf
          <6>2. new.ev[f] = old.ev[f]
            BY <1>7, <6>1
          <6> QED BY <4>1, <5>2, <6>2
        <5> QED BY <5>1, <5>2
      <4> QED BY <4>1, <4>2 DEF ShasOf
    <3> QED BY <3>3, <3>4
  <2> QED BY <2>1, <2>2
<1>9. ShasOf(MergeRun(old, new)) = ShasOf(m)
  BY <1>3 DEF ShasOf
<1> QED BY <1>5, <1>6, <1>8, <1>9 DEF Whole

\* What is read of a run's records.
RecordShas(dl, rs) ==
  (IF dl = None THEN {} ELSE ShasOf(ReadDelivery(dl))) \cup (IF rs = None THEN {} ELSE ShasOf(rs))

LEMMA ObserveShas ==
  ASSUME NEW run, NEW dl, NEW rs,
         IsRun(run), dl # None => IsRun(dl), rs # None => IsRun(rs), Whole(Observe(run, dl, rs))
  PROVE  /\ ShasOf(Observe(run, dl, rs)) = ShasOf(run) \cup RecordShas(dl, rs)
         /\ dl # None => Cardinality(ShasOf(dl)) <= 1
<1> DEFINE seen == IF dl = None THEN run ELSE MergeRun(run, ReadDelivery(dl))
<1>1. dl # None => /\ IsRun(ReadDelivery(dl))
                   /\ ReadDelivery(dl).conflict <=> dl.conflict \/ Cardinality(ShasOf(dl)) > 1
  BY DEF ReadDelivery, IsRun, Evidence, Identities
<1>2. rs # None => /\ IsRun(ReadResult(rs)) /\ ReadResult(rs).ev = rs.ev
  BY DEF ReadResult, IsRun, Evidence, Identities
<1>3. IsRun(seen)
  BY <1>1, MergeKeeps
<1>4. Observe(run, dl, rs) = IF rs = None THEN seen ELSE MergeRun(seen, ReadResult(rs))
  BY DEF Observe
<1> HIDE DEF seen
<1>5. Whole(seen) /\ ShasOf(Observe(run, dl, rs))
                       = ShasOf(seen) \cup (IF rs = None THEN {} ELSE ShasOf(rs))
  <2>1. CASE rs = None
    BY <1>4, <2>1
  <2>2. CASE rs # None
    <3>1. ShasOf(ReadResult(rs)) = ShasOf(rs)
      BY <1>2, <2>2 DEF ShasOf
    <3> QED BY <1>2, <1>3, <1>4, <2>2, <3>1, MergeShas
  <2> QED BY <2>1, <2>2
<1>6. CASE dl = None
  BY <1>5, <1>6 DEF seen, RecordShas
<1>7. CASE dl # None
  <2>1. seen = MergeRun(run, ReadDelivery(dl))
    BY <1>7 DEF seen
  <2>2. Whole(ReadDelivery(dl)) /\ ShasOf(seen) = ShasOf(run) \cup ShasOf(ReadDelivery(dl))
    BY <1>1, <1>5, <1>7, <2>1, MergeShas
  <2>3. ~ (Cardinality(ShasOf(dl)) > 1)
    BY <1>1, <1>7, <2>2 DEF Whole
  <2>4. Cardinality(ShasOf(dl)) \in Nat
    BY FewShas, FS_CardinalityType
  <2> QED BY <1>5, <1>7, <2>2, <2>3, <2>4 DEF RecordShas
<1> QED BY <1>6, <1>7

LEMMA RecoveryShas ==
  ASSUME NEW run, NEW verdict, IsRun(run), Whole(WithRecovery(run, verdict))
  PROVE  Whole(run) /\ ShasOf(WithRecovery(run, verdict)) = ShasOf(run)
<1> DEFINE r == WithRecovery(run, verdict)
<1>1. /\ r.conflict = run.conflict
      /\ r.fail = run.fail \/ r.fail = Prefer(run.fail, "interrupted")
      /\ \A f \in Identities : r.ev[f] = run.ev[f]
  BY DEF WithRecovery, IsRun, Evidence, Identities
<1> HIDE DEF r
<1>2. ShasOf(r) = ShasOf(run)
  BY <1>1 DEF ShasOf
<1>3. Whole(run)
  BY <1>1 DEF Whole, Prefer, NonResults, r
<1> QED BY <1>2, <1>3 DEF r

\* A run that a look takes for whole has the SHAs that were known and read, and no other.
LEMMA LookShas ==
  ASSUME WorldSound, NEW known, \A d \in DOMAIN known : IsRun(known[d]),
         NEW answer \in Answers(known),
         NEW d \in Dispatches, d \in DOMAIN known \cup Recorded,
         Whole(Merged(known, answer)[d])
  PROVE  /\ ShasOf(Merged(known, answer)[d]) =
              (IF d \in DOMAIN known THEN ShasOf(known[d]) ELSE {})
                \cup RecordShas(delivery[d], result[d])
         /\ delivery[d] # None => Cardinality(ShasOf(delivery[d])) <= 1
<1> DEFINE b == Before(known, d)
           o == Observe(b, delivery[d], result[d])
           s == WithRecovery(o, answer[d])
           r == Merged(known, answer)[d]
<1>1. /\ DOMAIN RunsSeen(known, answer) = DOMAIN known \cup Recorded \cup Held(known, answer)
      /\ DOMAIN Delivered(known, answer) = DOMAIN known \cup Recorded
      /\ d \notin Held(known, answer)
      /\ Delivered(known, answer)[d] = s
  BY HeldRuns DEF RunsSeen, Held, Delivered, Before
<1>2. (delivery[d] # None => IsRun(delivery[d])) /\ (result[d] # None => IsRun(result[d]))
  BY DEF WorldSound
<1>3. IsRun(b) /\ ShasOf(b) = IF d \in DOMAIN known THEN ShasOf(known[d]) ELSE {}
  <2>1. \A f \in Identities : RunOf(ItemOf(d), "running").ev[f] = None
    BY DEF RunOf, NoEvidence, Evidence
  <2>2. ShasOf(RunOf(ItemOf(d), "running")) = {}
    BY <2>1 DEF ShasOf
  <2> QED BY <2>2, NewRun DEF Before
<1>4. r = IF d \in DOMAIN known THEN MergeRun(b, s) ELSE s
  BY <1>1 DEF Merged, MergeRuns, RunsSeen, Held, Before
<1> HIDE DEF b, o, s, r
<1>5. IsRun(o) /\ IsRun(s)
  <2>1. IsRun(o)
    BY <1>2, <1>3, ObserveKeeps DEF o
  <2> QED BY <2>1, RecoveryKeeps DEF s
<1>6. /\ Whole(s)
      /\ \/ ShasOf(r) = ShasOf(b) \cup ShasOf(s)
         \/ d \notin DOMAIN known /\ ShasOf(r) = ShasOf(s)
  <2>1. Whole(r)
    BY DEF r
  <2>2. CASE d \in DOMAIN known
    <3>1. r = MergeRun(b, s)
      BY <1>4, <2>2
    <3>2. Whole(MergeRun(b, s))
      BY <2>1, <3>1
    <3>3. Whole(s) /\ ShasOf(MergeRun(b, s)) = ShasOf(b) \cup ShasOf(s)
      BY <1>3, <1>5, <3>2, MergeShas
    <3> QED BY <3>1, <3>3
  <2>3. CASE d \notin DOMAIN known
    BY <1>4, <2>1, <2>3
  <2> QED BY <2>2, <2>3
<1>7. Whole(o) /\ ShasOf(s) = ShasOf(o)
  BY <1>5, <1>6, RecoveryShas DEF s
<1>8. /\ ShasOf(o) = ShasOf(b) \cup RecordShas(delivery[d], result[d])
      /\ delivery[d] # None => Cardinality(ShasOf(delivery[d])) <= 1
  BY <1>2, <1>3, <1>7, ObserveShas DEF o
<1> QED BY <1>3, <1>6, <1>7, <1>8 DEF r

\* What the Controller completes by itself had one SHA in all that was read of it, in any
\* cycle, and another dispatch reviewed it (controller_policy.py:541, 579, 613).
THEOREM OneCandidate == Spec => CompletionOnOneCandidate
<1>1. IInv /\ [Next]_vars =>
        [\A p \in Procs : Collect(p) =>
            \A i \in Newly(p, cycle'.facts) :
                \E d \in Started :
                    /\ ItemOf(d) = i /\ d \in DOMAIN cycle'.facts.runs
                    /\ Cardinality(ShasKnown(p, d)) = 1
                    /\ delivery[d] # None => Cardinality(ShasOf(delivery[d])) <= 1
                    /\ cycle'.facts.runs[d].ev["reviewer"] # d]_vars
  <2> SUFFICES ASSUME IInv, NEW p \in Procs, Collect(p), NEW i \in Newly(p, cycle'.facts)
               PROVE  \E d \in Started :
                        /\ ItemOf(d) = i /\ d \in DOMAIN cycle'.facts.runs
                        /\ Cardinality(ShasKnown(p, d)) = 1
                        /\ delivery[d] # None => Cardinality(ShasOf(delivery[d])) <= 1
                        /\ cycle'.facts.runs[d].ev["reviewer"] # d
    OBVIOUS
  <2> DEFINE f == cycle'.facts
             known == KnownRuns(lock)
  <2>1. /\ lock = p /\ p # None /\ At({"collect"}) /\ At({"collect", "recheck"})
        /\ CycleOK(cycle)
    BY ControllerAssumption DEF Collect, At, IInv, PayloadSound
  <2>2. f \in Facts(lock)
    BY <2>1 DEF Collect, CycleOK
  <2> HIDE DEF f
  <2>3. i \in WorkItems /\ i \notin closed /\ f.items[i] = "complete"
        /\ (~fresh[p] => payload.facts.items[i] # "complete")
    BY DEF Newly, f
  <2>4. KeptItems(p, ItemsSeen)[i] # "complete"
    BY <2>3 DEF KeptItems, ItemsSeen, RetainCompleted
  <2>5. PICK d \in DOMAIN f.runs : f.runs[d].item = i /\ CompletionReady(d, f.runs[d])
    BY <2>1, <2>2, <2>3, <2>4, LookOf
  <2>6. PICK answer \in Answers(known) : f.runs = Merged(known, answer)
    BY <2>2, LookOf
  <2>7. \A x \in DOMAIN known : IsRun(known[x])
    BY <2>1, HistoryTaken
  <2> DEFINE run == f.runs[d]
             c == run.ev["candidate"]
  <2>8. /\ Whole(run) /\ c # None /\ run.ev["reviewer"] # d
        /\ \A g \in Identities : run.ev[g] = c
    BY <2>5 DEF CompletionReady, CandidateCleared, Whole, Identities
  <2>9. RunBound(d, run)
    BY <2>1, <2>2, LookIsBound
  <2>10. d \in Started /\ d \in Dispatches /\ ItemOf(d) = i
    BY <2>5, <2>8, <2>9 DEF RunBound, Started
  <2>11. d \in DOMAIN known \cup Recorded
    <3>1. SUFFICES ASSUME d \in Held(known, answer), d \notin DOMAIN known \cup Recorded
                   PROVE  FALSE
      BY <2>6, MergedDomain
    <3>2. run = RunOf(ItemOf(d), "running")
      BY <2>6, <3>1, HeldRuns DEF Merged, MergeRuns, RunsSeen, Held, Delivered
    <3> QED BY <2>8, <3>2, NewRun
  <2>12. ShasOf(run) = {c}
    BY <2>8 DEF ShasOf, Identities
  <2>13. WorldSound
    BY DEF IInv
  <2>14. /\ {c} = (IF d \in DOMAIN known THEN ShasOf(known[d]) ELSE {})
                     \cup RecordShas(delivery[d], result[d])
         /\ delivery[d] # None => Cardinality(ShasOf(delivery[d])) <= 1
    BY <2>6, <2>7, <2>8, <2>10, <2>11, <2>12, <2>13, LookShas
  <2>15. ShasKnown(p, d) = {c}
    BY <2>1, <2>14 DEF ShasKnown, RecordShas
  <2>16. Cardinality(ShasKnown(p, d)) = 1
    BY <2>15, FS_Singleton
  <2> QED BY <2>5, <2>8, <2>10, <2>14, <2>16 DEF f
<1> QED BY <1>1, AlwaysSound, PTL DEF Spec, CompletionOnOneCandidate
=============================================================================
