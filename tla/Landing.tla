------------------------------ MODULE Landing ------------------------------
(***************************************************************************)
(* Landing an issue's work: `just land` and `just land --stage`            *)
(* (tools/land.py), the verdict it needs (tools/review_exchange.py,        *)
(* tools/land_review.py) and the findings that verdict raised               *)
(* (tools/review_loop.py).  Each issue has one worktree; the worktrees     *)
(* share one repository, hence one tracking ref `origin/main`, and one     *)
(* main checkout.  Several agents land at the same time.                   *)
(*                                                                         *)
(* A SHA is a position in `commits`, the log of every commit ever made; 0  *)
(* is the commit all the trees start from.  A commit is the whole of a     *)
(* branch: what it changes (`diff`, the identity of `origin/main...sha`)   *)
(* on top of the first `onto` landings.  Uncommitted files, the routing,   *)
(* authorship and corpus rungs only ever refuse (Refuse).                  *)
(***************************************************************************)
EXTENDS Naturals, Sequences, FiniteSets

CONSTANTS
  Trees,        \* the worktrees, one an issue
  Diffs,        \* what a branch may change
  Findings,     \* ids of findings
  Grades,       \* their severities, "Low" the only one that never blocks
  Writers,      \* the review-loop commands that may be running at once
  None,
  HandsOff,     \* does everybody leave a tree alone while it is being landed?
  MaxCommits, MaxVerdicts,
  MaxWork       \* bound of the commits, the verdicts and the updates of loops together

\* What was found, with its severities; a verdict, ranked as bound_verdict tries them
\* (a human's first, an agent's by when its dispatch was planned); a review loop; what a
\* command will write.
Gradings == UNION {[raised -> Grades] : raised \in SUBSET Findings}
Verdicts == [sha : Nat, diff : Diffs \union {None}, found : Gradings, rank : Nat]
Loops    == [found : Gradings, adjudicated : SUBSET Findings]
Updates  == [tree : Trees, loop : Loops]

ASSUME LandingAssumption ==
  /\ None \notin Diffs \union Loops \union Updates \union Verdicts
  /\ HandsOff \in BOOLEAN
  /\ MaxCommits \in Nat /\ MaxVerdicts \in Nat /\ MaxWork \in Nat

VARIABLES
  commits,      \* the log of commits
  main,         \* what landed, in order: the commit, its verdict, what was gated
  base,         \* how much of `main` the tracking ref has
  checkout,     \* how much of `main` the main checkout has
  head,         \* the commit each tree is on
  rebasing,     \* what each tree is being rebased onto, stopped on a conflict
  pc,           \* where the landing of each tree stands
  clearing,     \* the verdict the review rung of that landing was cleared by
  green,        \* the commit its gate passed
  verdicts,     \* of each issue
  links,        \* of each issue, the clean rebases on record
  loop,         \* of each issue, its review loop, or None
  writing,      \* of each writer, the update it has computed, or None
  updates,      \* counter of a bound: the updates computed
  closed,       \* is the issue closed?
  adjudged      \* ghost: of each issue, every finding its loop ever held adjudicated

repository == <<commits, main, base, checkout, head, rebasing>>
landing    == <<pc, clearing, green>>
loops      == <<loop, writing, updates, adjudged>>
records    == <<verdicts, links, loops>>
vars       == <<repository, landing, records, closed>>

-----------------------------------------------------------------------------
(* Commits                                                                 *)

Landed(n)  == {0} \union {main[i].sha : i \in 1..n}
Ahead(t)   == head[t] \notin Landed(base)
Place(s)   == IF s = 0 THEN 0 ELSE CHOOSE i \in DOMAIN main : main[i].sha = s
Onto(s)    == IF s \in Landed(Len(main)) THEN Place(s) ELSE commits[s].onto

\* What `git diff origin/main...sha` hashes to: nothing for what is there already.
DiffId(s) == IF s \in Landed(base) THEN None ELSE commits[s].diff

\* A commit by the hand of somebody, or replayed by the tool from the commit `of`.
Commits == [tree : Trees, onto : Nat, diff : Diffs, of : Nat, hand : BOOLEAN]

Recorded == Cardinality(UNION {{t} \X verdicts[t] : t \in Trees})
Working  == Len(commits) + Recorded + updates < MaxWork

Make(t, onto, diff, of, hand) ==
  /\ Len(commits) < MaxCommits /\ Working
  /\ commits' = Append(commits, [tree |-> t, onto |-> onto, diff |-> diff,
                                 of |-> of, hand |-> hand])
  /\ head' = [head EXCEPT ![t] = Len(commits')]

-----------------------------------------------------------------------------
(* Verdicts and loops                                                      *)

\* carried_by_clean_rebase: is there a chain of recorded links between the two?
Carried(t, from, to) ==
  LET reached[n \in 0..Len(commits)] ==
        n = from \/ \E m \in 0..(n - 1) : <<m, n>> \in links[t] /\ reached[m]
  IN  reached[to]

\* Fault: an identical diff is enough, whoever made it.
SatisfiesByDiff(t, v, s) == v.sha = s \/ v.diff = DiffId(s)

Satisfies(t, v, s) ==
  v.sha = s \/ (Carried(t, v.sha, s) /\ v.diff = DiffId(s))

First(binding) == {v \in binding : \A u \in binding : u.rank <= v.rank}

\* bound_verdict: the first verdict that satisfies, if one does.
BoundVerdict(t, s) == First({v \in verdicts[t] : Satisfies(t, v, s)})

AboveLow(found)  == {f \in DOMAIN found : found[f] # "Low"}
StopCondition(l) == AboveLow(l.found) \subseteq l.adjudicated

\* Fault: the loop alone is asked what is left open.
ClearedByLoop(t, v) == loop[t] # None => StopCondition(loop[t])

\* review_finding: nothing to adjudicate and no loop, or a loop that agrees with the
\* verdict and has nothing above Low left open.
Cleared(t, v) ==
  IF loop[t] = None THEN AboveLow(v.found) = {}
  ELSE /\ \A f \in DOMAIN v.found \intersect DOMAIN loop[t].found :
             v.found[f] = loop[t].found[f]
       /\ AboveLow(v.found) \subseteq loop[t].adjudicated
       /\ StopCondition(loop[t])

-----------------------------------------------------------------------------
Init ==
  /\ commits = <<>> /\ main = <<>> /\ base = 0 /\ checkout = 0
  /\ head = [t \in Trees |-> 0]
  /\ rebasing = [t \in Trees |-> None]
  /\ pc = [t \in Trees |-> "idle"]
  /\ clearing = [t \in Trees |-> None]
  /\ green = [t \in Trees |-> None]
  /\ verdicts = [t \in Trees |-> {}]
  /\ links = [t \in Trees |-> {}]
  /\ loop = [t \in Trees |-> None] /\ adjudged = [t \in Trees |-> {}]
  /\ writing = [w \in Writers |-> None] /\ updates = 0
  /\ closed = [t \in Trees |-> FALSE]

-----------------------------------------------------------------------------
(* The hand in the tree                                                    *)

Free(t) == HandsOff => pc[t] = "idle"

Commit(t) ==
  /\ Free(t) /\ rebasing[t] = None
  /\ \E d \in Diffs : Make(t, Onto(head[t]), d, 0, TRUE)
  /\ UNCHANGED <<main, base, checkout, rebasing, landing, records, closed>>

\* `git rebase --continue` after the conflicts were resolved: no link records it.
Resolve(t) ==
  /\ Free(t) /\ rebasing[t] # None
  /\ \E d \in Diffs : Make(t, rebasing[t], d, head[t], TRUE)
  /\ rebasing' = [rebasing EXCEPT ![t] = None]
  /\ UNCHANGED <<main, base, checkout, landing, records, closed>>

Abort(t) ==
  /\ Free(t) /\ rebasing[t] # None
  /\ rebasing' = [rebasing EXCEPT ![t] = None]
  /\ UNCHANGED <<commits, main, base, checkout, head, landing, records, closed>>

-----------------------------------------------------------------------------
(* The reviewer and the loop                                               *)

\* Where a verdict may come among those of its issue.
Ranks(t) ==
  IF verdicts[t] = {} THEN {MaxVerdicts}
  ELSE (1..(2 * MaxVerdicts - 1)) \ {v.rank : v \in verdicts[t]}

\* record_verdict: on any commit of the issue, however old by now.
Review(t) ==
  /\ Recorded < MaxVerdicts /\ Working
  /\ \E s \in {n \in DOMAIN commits : commits[n].tree = t},
        found \in Gradings, rank \in Ranks(t) :
       verdicts' = [verdicts EXCEPT ![t] =
          @ \union {[sha |-> s, diff |-> DiffId(s), found |-> found, rank |-> rank]}]
  /\ UNCHANGED <<repository, landing, links, loops, closed>>

\* A command computes a new loop from the one it loads ...
Computes(w, t, new) ==
  /\ writing[w] = None /\ Working /\ updates' = updates + 1
  /\ writing' = [writing EXCEPT ![w] = [tree |-> t, loop |-> new]]
  /\ UNCHANGED <<repository, landing, verdicts, links, loop, adjudged, closed>>

\* ... and stores it, over whatever the file holds by then.
StoreLoop(w) ==
  /\ writing[w] # None
  /\ LET t == writing[w].tree  new == writing[w].loop
     IN  /\ loop' = [loop EXCEPT ![t] = new]
         /\ adjudged' = [adjudged EXCEPT ![t] = @ \union new.adjudicated]
  /\ writing' = [writing EXCEPT ![w] = None]
  /\ UNCHANGED <<repository, landing, verdicts, links, updates, closed>>

Opened(found) == [found |-> found, adjudicated |-> {}]

Folded(l, found) ==
  [l EXCEPT !.found = [f \in DOMAIN @ \union DOMAIN found |->
                         IF f \in DOMAIN @ THEN @[f] ELSE found[f]]]

\* `review-loop open` and `round`: the caller grades the findings, which are new.
OpenLoop(w, t) ==
  /\ loop[t] = None
  /\ \E found \in Gradings : Computes(w, t, Opened(found))

Round(w, t) ==
  /\ loop[t] # None
  /\ \E found \in Gradings :
       /\ DOMAIN found \intersect DOMAIN loop[t].found = {}
       /\ Computes(w, t, Folded(loop[t], found))

\* `review-loop sync`: opens the loop, or adds a round, from the verdict on exactly that
\* commit; one that grades a held finding anew is refused, one that finds nothing new
\* writes nothing.
Sync(w, t) ==
  \E s \in DOMAIN commits : \E v \in First({u \in verdicts[t] : u.sha = s}) :
    IF loop[t] = None THEN Computes(w, t, Opened(v.found))
    ELSE /\ \A f \in DOMAIN v.found \intersect DOMAIN loop[t].found :
              v.found[f] = loop[t].found[f]
         /\ ~ (DOMAIN v.found \subseteq DOMAIN loop[t].found)
         /\ Computes(w, t, Folded(loop[t], v.found))

\* adjudicate: once a finding; every route closes it alike.
Adjudicate(w, t) ==
  /\ loop[t] # None
  /\ \E f \in DOMAIN loop[t].found \ loop[t].adjudicated :
       Computes(w, t, [loop[t] EXCEPT !.adjudicated = @ \union {f}])

-----------------------------------------------------------------------------
(* The rebase that `land` and `land --stage` share                         *)

\* A replay may reshape the diff, and the link may fail to be written.
Replay(t, onto) ==
  /\ \E d \in Diffs : Make(t, onto, d, head[t], FALSE)
  /\ links' \in {links, [links EXCEPT ![t] = @ \union {<<head[t], Len(commits')>>}]}
  /\ UNCHANGED rebasing

Stop(t, onto) ==
  /\ rebasing' = [rebasing EXCEPT ![t] = onto]
  /\ UNCHANGED <<commits, head, links>>

Stage(t) ==
  /\ pc[t] = "idle" /\ rebasing[t] = None
  /\ base' = Len(main)
  /\ head[t] \notin Landed(base')
  /\ IF Onto(head[t]) = base' THEN UNCHANGED <<commits, head, rebasing, links>>
     ELSE Replay(t, base') \/ Stop(t, base')
  /\ UNCHANGED <<main, checkout, landing, verdicts, loops, closed>>

-----------------------------------------------------------------------------
(* `just land`                                                             *)

Goto(t, to) == pc' = [pc EXCEPT ![t] = to]

Done(t) ==
  /\ Goto(t, "idle")
  /\ clearing' = [clearing EXCEPT ![t] = None]
  /\ green' = [green EXCEPT ![t] = None]

\* The tree is fit, the remote fetched and the commits counted.  With none to push and
\* the main checkout behind, this is taken for the run that completes a blocked merge;
\* with both level it is refused (nothing_to_land).
Begin(t) ==
  /\ pc[t] = "idle" /\ rebasing[t] = None
  /\ base' = Len(main)
  /\ \/ head[t] \notin Landed(base') /\ Goto(t, "fetched")
     \/ head[t] \in Landed(base') /\ checkout < base' /\ Goto(t, "pushed")
     \/ head[t] \in Landed(base') /\ checkout = base' /\ UNCHANGED pc
  /\ UNCHANGED <<commits, main, checkout, head, rebasing, clearing, green, records, closed>>

Rebase(t) ==
  /\ pc[t] = "fetched"
  /\ \/ /\ Onto(head[t]) = base
        /\ Goto(t, "rebased") /\ UNCHANGED <<commits, head, rebasing, links>>
     \/ Onto(head[t]) # base /\ Goto(t, "rebased") /\ Replay(t, base)
     \/ Onto(head[t]) # base /\ Goto(t, "idle") /\ Stop(t, base)
  /\ UNCHANGED <<main, base, checkout, clearing, green, verdicts, loops, closed>>

ReviewRung(t) ==
  /\ pc[t] = "rebased"
  /\ \/ /\ \A v \in BoundVerdict(t, head[t]) : ~ Cleared(t, v)
        /\ Done(t)
     \/ \E v \in BoundVerdict(t, head[t]) :
          /\ Cleared(t, v)
          /\ Goto(t, "reviewed")
          /\ clearing' = [clearing EXCEPT ![t] = v]
          /\ UNCHANGED green
  /\ UNCHANGED <<repository, records, closed>>

\* The gate judges the tree as it stands.
Gate(t) ==
  /\ pc[t] = "reviewed"
  /\ Goto(t, "gated")
  /\ green' = [green EXCEPT ![t] = head[t]]
  /\ UNCHANGED <<repository, clearing, records, closed>>

\* A red gate, a rung outside this module, or the end of the process.
Refuse(t) ==
  /\ pc[t] \in {"fetched", "rebased", "reviewed", "gated"}
  /\ Done(t)
  /\ UNCHANGED <<repository, records, closed>>

\* Fault: the push is forced.
PushForced(t) ==
  /\ pc[t] = "gated"
  /\ main' = Append(main, [sha |-> head[t], verdict |-> clearing[t], gated |-> green[t]])
  /\ base' = Len(main') /\ Goto(t, "pushed")
  /\ UNCHANGED <<commits, checkout, head, rebasing, clearing, green, records, closed>>

\* `git push origin HEAD:main`, which the remote takes only as a fast-forward.
Push(t) ==
  /\ pc[t] = "gated"
  /\ IF Onto(head[t]) = Len(main)
     THEN /\ main' = Append(main, [sha |-> head[t], verdict |-> clearing[t],
                                   gated |-> green[t]])
          /\ base' = Len(main')
          /\ Goto(t, "pushed") /\ UNCHANGED <<clearing, green>>
     ELSE Done(t) /\ UNCHANGED <<main, base>>
  /\ UNCHANGED <<commits, checkout, head, rebasing, records, closed>>

\* Fault: a blocked merge counts as done.
MergeOrNot(t) ==
  /\ pc[t] = "pushed"
  /\ checkout' \in {checkout, base} /\ Goto(t, "merged")
  /\ UNCHANGED <<commits, main, base, head, rebasing, clearing, green, records, closed>>

\* `git merge --ff-only origin/main` in the main checkout; blocked, the run ends.
Merge(t) ==
  /\ pc[t] = "pushed"
  /\ \/ checkout' = base /\ Goto(t, "merged") /\ UNCHANGED <<clearing, green>>
     \/ UNCHANGED checkout /\ Done(t)
  /\ UNCHANGED <<commits, main, base, head, rebasing, records, closed>>

\* The audit is posted and the issue closed, or either fails and the run ends as well.
Close(t) ==
  /\ pc[t] = "merged"
  /\ Done(t)
  /\ closed' \in {closed, [closed EXCEPT ![t] = TRUE]}
  /\ UNCHANGED <<repository, records>>

-----------------------------------------------------------------------------
Lander(t) ==
  \/ Commit(t) \/ Resolve(t) \/ Abort(t) \/ Review(t)
  \/ Stage(t) \/ Begin(t) \/ Rebase(t) \/ ReviewRung(t) \/ Gate(t)
  \/ Refuse(t) \/ Push(t) \/ Merge(t) \/ Close(t)

Writer(w) ==
  \/ \E t \in Trees : OpenLoop(w, t) \/ Round(w, t) \/ Sync(w, t) \/ Adjudicate(w, t)
  \/ StoreLoop(w)

Next == (\E t \in Trees : Lander(t)) \/ (\E w \in Writers : Writer(w))

Spec == Init /\ [][Next]_vars

-----------------------------------------------------------------------------
(* Properties                                                              *)

TypeOK ==
  /\ commits \in Seq(Commits)
  /\ main \in Seq([sha : Nat, verdict : Verdicts \union {None}, gated : Nat \union {None}])
  /\ base \in Nat /\ checkout \in Nat
  /\ head \in [Trees -> Nat] /\ rebasing \in [Trees -> Nat \union {None}]
  /\ pc \in [Trees -> {"idle", "fetched", "rebased", "reviewed", "gated", "pushed", "merged"}]
  /\ clearing \in [Trees -> Verdicts \union {None}]
  /\ green \in [Trees -> Nat \union {None}]
  /\ verdicts \in [Trees -> SUBSET Verdicts]
  /\ links \in [Trees -> SUBSET (Nat \X Nat)]
  /\ loop \in [Trees -> Loops \union {None}]
  /\ writing \in [Writers -> Updates \union {None}] /\ updates \in Nat
  /\ closed \in [Trees -> BOOLEAN] /\ adjudged \in [Trees -> SUBSET Findings]

OwnerOf(i) == commits[main[i].sha].tree

\* The commits a commit was replayed from with no hand in between.
Untouched(s) ==
  LET origins[n \in 1..Len(commits)] ==
        {n} \union (IF commits[n].hand THEN {} ELSE origins[commits[n].of])
  IN  origins[s]

\* What landed is what somebody reviewed: the very commit, or one that became it by
\* clean replays of the tool alone and changes the same lines.  A conflict resolved by
\* hand between the two, even to an identical diff, needs a review of its own
\* (satisfies, record_rebase and the order of the rungs in _rebase_and_gate).
PushedWasReviewed ==
  \A i \in DOMAIN main :
    LET s == main[i].sha
    IN  \E v \in verdicts[OwnerOf(i)] :
          v.sha \in Untouched(s) /\ v.diff = commits[s].diff

\* The gate was green on the very tree that is on main after the push, with everything
\* under it that had landed by then: two landings that race cannot both go in on a gate
\* that saw neither of the other's commits.
PushedWasGated ==
  \A i \in DOMAIN main :
    /\ main[i].gated = main[i].sha
    /\ commits[main[i].gated].onto = i - 1

\* No finding above Low of the verdict a landing rode on went without its adjudication:
\* the loop had recorded one, whatever order verdicts, syncs, adjudications, caller's
\* gradings and rebases came in, and whichever of its writers overwrote another since
\* (review_finding, land_review.py:819; the writers, review_loop.py:1673-1816).
LandedOwesNothing ==
  \A i \in DOMAIN main : AboveLow(main[i].verdict.found) \subseteq adjudged[OwnerOf(i)]

\* An issue is closed only when nothing of its landing is outstanding: all it pushed is in
\* the main checkout too, also when the merge was blocked at first and is completed by
\* another run (_merge, which does not close on EXIT_LANDED_INCOMPLETE).
ClosedMeansMerged ==
  [][\A t \in Trees : closed'[t] # closed[t] =>
       \A i \in DOMAIN main : OwnerOf(i) = t => i <= checkout]_vars

\* "A landing closes the issue it landed (#439), on the success path and nowhere else"
\* (tools/land.py:76).
ClosedMeansLanded ==
  \A t \in Trees : closed[t] => \E i \in DOMAIN main : OwnerOf(i) = t
=============================================================================
