-------------------------- MODULE WorkCoordination --------------------------
(***************************************************************************)
(* Work Coordination (tools/controller_policy.py): the pure reduction of   *)
(* the facts one cycle of the Controller collected to at most one launch.  *)
(* The module has no variables; Controller.tla supplies the facts.         *)
(*                                                                         *)
(* Facts are [items, runs, debt, bars]: the state of every Work Item, the  *)
(* Work Runs by identity, the Work Items whose closed tree still owes its  *)
(* removal, and those an external bar keeps from launching.  The evidence  *)
(* of a run, one value per delivery field, is one function "ev".  Of the   *)
(* derived states only the ones that release a slot are told apart.        *)
(***************************************************************************)
EXTENDS Integers, Sequences, FiniteSets

CONSTANTS
    WorkItems,      \* keys of the Work Graph
    None,           \* an absent field
    BlockedBy,      \* WorkItems -> SUBSET WorkItems
    Resources,      \* WorkItems -> set of exclusive resources
    Priority,       \* the configured priority order, a sequence of WorkItems
    WipLimit        \* the queue's ruled limit

NonResults    == {"interrupted", "infra_unavailable"}
TerminalKinds == {"lost_work", "finished_and_cleaned"}

\* Priority is the order candidates are sorted in: it ranks every Work Item.
ASSUME CoordinationAssumption ==
    /\ BlockedBy \in [WorkItems -> SUBSET WorkItems]
    /\ WipLimit \in Nat
    /\ Priority \in Seq(WorkItems)
    /\ \A i \in WorkItems : \E n \in 1..Len(Priority) : Priority[n] = i
    /\ None \notin WorkItems \cup TerminalKinds

\* The fields whose value is a SHA: an observation that holds two different
\* ones speaks of two candidates.
Identities == {"candidate", "reviewed", "adjudicated", "gated", "landed",
               "closed"}

\* The delivery fields of a run; "reviewer" is the dispatch that reviewed.
Evidence == Identities \cup {"review", "reviewer", "adjudication", "gate",
                             "recovery"}

NoEvidence == [f \in Evidence |-> None]

\* A run of which only its Work Item is known: the one with_work_run records
\* when the launch is bound to its cycle, and the one a queue holder stands for.
RunOf(i, state) ==
    [item |-> i, state |-> state, fail |-> None, published |-> FALSE,
     conflict |-> FALSE, ev |-> NoEvidence]

\* The fields of a run, whatever they hold.
IsRun(r) ==
    /\ DOMAIN r = {"item", "state", "fail", "published", "conflict", "ev"}
    /\ DOMAIN r.ev = Evidence

ShasOf(r) == {r.ev[f] : f \in Identities} \ {None}

DerivedState(r) ==
    IF r.fail \in NonResults THEN "non_result"
    ELSE IF r.ev["landed"] # None THEN "landed"
    ELSE r.state

(***************************************************************************)
(* Completion: one SHA reviewed by another dispatch, adjudicated, gated,   *)
(* landed and closed on.                                                   *)
(***************************************************************************)
CandidateCleared(d, r) ==
    LET c == r.ev["candidate"] IN
    /\ ~r.conflict /\ c # None
    /\ r.ev["review"] = "cleared" /\ r.ev["reviewed"] = c
    /\ r.ev["reviewer"] \notin {None, d}
    /\ r.ev["adjudication"] = "cleared" /\ r.ev["adjudicated"] = c
    /\ r.ev["gate"] = "passed" /\ r.ev["gated"] = c

CompletionReady(d, r) ==
    /\ r.state = "landed" /\ r.fail \notin NonResults
    /\ CandidateCleared(d, r)
    /\ r.ev["landed"] = r.ev["candidate"]
    /\ r.ev["closed"] = r.ev["candidate"]

(***************************************************************************)
(* A run owns its Work Item's slot until one of two facts releases it.     *)
(***************************************************************************)
CompletedItem(r, items) == r.item # None /\ items[r.item] = "complete"

OwnsSlot(d, r, items) ==
    ~ \/ /\ r.state = "landed" /\ r.ev["landed"] # None
         /\ CompletionReady(d, r) \/ CompletedItem(r, items)
      \/ r.ev["recovery"] \in TerminalKinds
      \/ r.fail \in NonResults /\ r.published

LiveRuns(facts) ==
    {d \in DOMAIN facts.runs : OwnsSlot(d, facts.runs[d], facts.items)}

LiveFor(facts, i) == {d \in LiveRuns(facts) : facts.runs[d].item = i}

\* Fault: only the trees still to be removed count.
OccupiedByDebt(facts) == Cardinality(facts.debt)

OccupiedCapacity(facts) == 
    Cardinality(LiveRuns(facts)) + Cardinality(facts.debt)

HeldResources(facts) ==
    LET holders == {facts.runs[d].item : d \in LiveRuns(facts)} \ {None}
    IN UNION {Resources[i] : i \in holders \cup facts.debt}

Ready(facts, i) ==
    /\ facts.items[i] = "open"
    /\ \A b \in BlockedBy[i] : facts.items[b] = "complete"

Eligible(facts) ==
    {i \in WorkItems :
        /\ Ready(facts, i)
        /\ LiveFor(facts, i) = {}
        /\ i \notin facts.bars
        /\ Resources[i] \cap HeldResources(facts) = {}
        /\ OccupiedCapacity(facts) < WipLimit}

Rank(i) == CHOOSE n \in 1..Len(Priority) : Priority[n] = i

\* next_work_item: the first of the eligible in the configured order.
NextWorkItem(facts) ==
    IF Eligible(facts) = {} THEN None
    ELSE CHOOSE i \in Eligible(facts) :
            \A j \in Eligible(facts) : Rank(i) <= Rank(j)

\* What must still hold at launch: coordination_snapshot.
CoordinationSnapshot(facts) ==
    <<facts.items, [d \in LiveRuns(facts) |-> facts.runs[d]], facts.debt,
      facts.bars>>

WithWorkRun(facts, d, i) ==
    [facts EXCEPT !.runs =
        [e \in (DOMAIN facts.runs \ LiveFor(facts, i)) \cup {d} |->
            IF e = d THEN RunOf(i, "launching") ELSE facts.runs[e]]]

(***************************************************************************)
(* Merging a fresh observation of a run into what is known of it.          *)
(***************************************************************************)
Prefer(new, old) == IF new # None THEN new ELSE old

\* Fault: two observations are merged whatever SHAs they name.
MergeIdentityOfAny(old, new) ==
    IF old.fail \in NonResults THEN [old EXCEPT !.conflict = TRUE]
    ELSE IF new.fail \in NonResults THEN new
    ELSE [new EXCEPT !.ev = [f \in Evidence |-> Prefer(@[f], old.ev[f])]]

MergeIdentity(old, new) ==
    IF \/ Cardinality(ShasOf(old) \cup ShasOf(new)) > 1
       \/ old.conflict \/ new.conflict
       \/ old.fail \in NonResults
    THEN [old EXCEPT !.conflict = TRUE]
    ELSE IF new.fail \in NonResults THEN new
    ELSE IF old.ev["landed"] # None
    THEN [old EXCEPT !.ev["closed"] = Prefer(new.ev["closed"], @)]
    ELSE [new EXCEPT !.ev = [f \in Evidence |-> Prefer(@[f], old.ev[f])]]

\* merge_work_run_observation: the binding and the publication stamp are
\* preserved whatever branch resolved the identity.
MergeRun(old, new) ==
    [MergeIdentity(old, new) EXCEPT
        !.conflict  = @ \/ (old.item # None /\ new.item # None
                              /\ old.item # new.item),
        !.item      = Prefer(old.item, new.item),
        !.published = old.published \/ new.published]

\* Runs known before and runs observed now: _merge_local_facts.
MergeRuns(old, new) ==
    [d \in DOMAIN old \cup DOMAIN new |->
        IF d \notin DOMAIN new THEN old[d]
        ELSE IF d \notin DOMAIN old THEN new[d]
        ELSE MergeRun(old[d], new[d])]

RetainCompleted(old, items) ==
    [i \in WorkItems |->
        IF old[i] = "complete" THEN "complete" ELSE items[i]]

AdvanceCompleted(facts) ==
    [facts EXCEPT !.items = [i \in WorkItems |->
        IF \E d \in DOMAIN facts.runs :
              facts.runs[d].item = i /\ CompletionReady(d, facts.runs[d])
        THEN "complete" ELSE @[i]]]

(***************************************************************************)
(* Reading the delivery records of a dispatch (tools/controller_ports.py). *)
(* A record is [item, state, fail, conflict, ev]; only a result proves     *)
(* publication, landing and recovery.                                      *)
(***************************************************************************)
ReadDelivery(doc) ==
    LET read == [doc EXCEPT !.ev["landed"] = None, !.ev["recovery"] = None,
                            !.published = FALSE]
    IN [read EXCEPT !.state    = DerivedState(read),
                    !.conflict = @ \/ Cardinality(ShasOf(doc)) > 1]

ReadResult(doc) ==
    [doc EXCEPT !.state     = DerivedState(doc),
                !.published = TRUE,
                !.conflict  = @ \/ Cardinality(ShasOf(doc)) > 1]

Observe(run, delivery, result) ==
    LET delivered == IF delivery = None THEN run
                     ELSE MergeRun(run, ReadDelivery(delivery))
    IN IF result = None THEN delivered
       ELSE MergeRun(delivered, ReadResult(result))

\* _with_recovery: a landed run and one concluded earlier are not asked
\* about; a terminal verdict concludes, any other is only noted.
Concluded(r) ==
    \/ r.ev["landed"] # None
    \/ r.state = "non_result" /\ r.ev["recovery"] \in TerminalKinds \cup {None}

WithRecovery(r, verdict) ==
    IF Concluded(r) \/ verdict = None THEN r
    ELSE IF verdict \in TerminalKinds
    THEN [r EXCEPT !.state = "non_result",
                   !.fail = Prefer(@, "interrupted"),
                   !.ev["recovery"] = verdict]
    ELSE [r EXCEPT !.ev["recovery"] = verdict]
=============================================================================
