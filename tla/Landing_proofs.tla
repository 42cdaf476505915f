---------------------------- MODULE Landing_proofs ---------------------------
(***************************************************************************)
(* What is proved of Landing for any worktrees, changes, findings, grades  *)
(* and bounds: who races whom, and in which order the records come, is     *)
(* free.                                                                   *)
(***************************************************************************)
EXTENDS Landing, SequenceTheorems, WellFoundedInduction, TLAPS

\* A tree is on a commit of its own, and only commits land.
HeadSound ==
  /\ \A t \in Trees : head[t] # 0 =>
       head[t] \in DOMAIN commits /\ commits[head[t]].tree = t
  /\ \A i \in DOMAIN main : main[i].sha \in DOMAIN commits
  /\ base = Len(main) /\ checkout <= base

\* Between the fetch and the push a tree is on a commit that has not landed, and the
\* gate was green on it if nobody touched the tree since.
RunSound ==
  \A t \in Trees :
    /\ pc[t] \in {"fetched", "rebased", "reviewed", "gated"} =>
         head[t] \notin Landed(Len(main))
    /\ HandsOff /\ pc[t] = "gated" => green[t] = head[t]

\* What a loop holds adjudicated it once recorded; past the review rung, all that the
\* verdict which cleared it asks for was recorded.
LoopSound == \A t \in Trees : loop[t] # None => loop[t].adjudicated \subseteq adjudged[t]

Settled(v, done) == AboveLow(v.found) \subseteq done

ClearSound ==
  /\ \A t \in Trees : pc[t] \in {"reviewed", "gated"} =>
       clearing[t] # None /\ Settled(clearing[t], adjudged[t])
  /\ LoopSound
  /\ LandedOwesNothing

\* Past the merge, nothing of the tree is outside the main checkout.
MergeSound ==
  \A t \in Trees : pc[t] = "merged" =>
    \A i \in DOMAIN main : OwnerOf(i) = t => i <= checkout

IInv == /\ TypeOK /\ HeadSound /\ RunSound /\ ClearSound /\ MergeSound
        /\ HandsOff => PushedWasGated
-----------------------------------------------------------------------------
(* Commits.                                                                 *)

\* What is known of the trees and of what landed.
TreeInv == /\ HeadSound /\ RunSound /\ MergeSound
           /\ HandsOff => PushedWasGated

LEMMA OntoType ==
  ASSUME TypeOK, HeadSound, NEW s \in Nat, s # 0 => s \in DOMAIN commits
  PROVE  Onto(s) \in Nat
<1>1. CASE s \in Landed(Len(main))
  <2>1. s # 0 => \E i \in DOMAIN main : main[i].sha = s
    BY <1>1 DEF Landed, TypeOK
  <2>2. s # 0 => Place(s) \in DOMAIN main
    BY <2>1 DEF Place
  <2>3. DOMAIN main \subseteq Nat
    BY DEF TypeOK
  <2> QED BY <1>1, <2>2, <2>3 DEF Onto, Place
<1>2. CASE s \notin Landed(Len(main))
  <2>1. s \in DOMAIN commits
    BY <1>2 DEF Landed
  <2>2. commits[s] \in Commits
    BY <2>1 DEF TypeOK
  <2> QED BY <1>2, <2>2 DEF Onto, Commits
<1> QED BY <1>1, <1>2

\* A new commit is the tree's, and no commit before it changes.
LEMMA MakeFacts ==
  ASSUME TypeOK, HeadSound, NEW t \in Trees, NEW onto \in Nat, NEW diff \in Diffs,
         NEW of \in Nat, NEW hand \in BOOLEAN, Make(t, onto, diff, of, hand)
  PROVE  /\ commits' \in Seq(Commits) /\ head' \in [Trees -> Nat]
         /\ DOMAIN commits \subseteq DOMAIN commits'
         /\ \A n \in DOMAIN commits : commits'[n] = commits[n]
         /\ head'[t] \in DOMAIN commits' \ DOMAIN commits
         /\ commits'[head'[t]].tree = t
         /\ \A u \in Trees \ {t} : head'[u] = head[u]
<1> DEFINE c == [tree |-> t, onto |-> onto, diff |-> diff, of |-> of, hand |-> hand]
<1>1. c \in Commits /\ c.tree = t
  BY DEF Commits
<1>2. commits' = Append(commits, c) /\ head' = [head EXCEPT ![t] = Len(commits')]
  BY DEF Make
<1>3. commits \in Seq(Commits) /\ head \in [Trees -> Nat]
  BY DEF TypeOK
<1> HIDE DEF c
<1>4. /\ commits' \in Seq(Commits) /\ Len(commits') = Len(commits) + 1
      /\ \A n \in 1..Len(commits) : commits'[n] = commits[n]
      /\ commits'[Len(commits) + 1] = c
  BY <1>1, <1>2, <1>3, AppendProperties
<1>5. /\ DOMAIN commits = 1..Len(commits) /\ DOMAIN commits' = 1..Len(commits')
      /\ Len(commits) \in Nat
  BY <1>3, <1>4
<1>6. head'[t] = Len(commits) + 1 /\ head' \in [Trees -> Nat]
  BY <1>2, <1>3, <1>4, <1>5
<1> QED BY <1>1, <1>2, <1>3, <1>4, <1>5, <1>6

\* So what is known of the trees stays known, but for a gate that saw the old commit.
LEMMA MakeKeeps ==
  ASSUME TypeOK, TreeInv, NEW t \in Trees, NEW onto \in Nat, NEW diff \in Diffs,
         NEW of \in Nat, NEW hand \in BOOLEAN, Make(t, onto, diff, of, hand),
         main' = main, checkout' = checkout, base' = Len(main),
         \A u \in Trees : u # t => pc'[u] = pc[u] /\ green'[u] = green[u],
         HandsOff => pc'[t] # "gated", pc'[t] = "merged" => pc[t] = "merged"
  PROVE  TreeInv'
<1>0. HeadSound /\ RunSound /\ MergeSound
  BY DEF TreeInv
<1>1. /\ DOMAIN commits \subseteq DOMAIN commits'
      /\ \A n \in DOMAIN commits : commits'[n] = commits[n]
      /\ head'[t] \in DOMAIN commits' \ DOMAIN commits
      /\ commits'[head'[t]].tree = t
      /\ \A u \in Trees \ {t} : head'[u] = head[u]
  BY <1>0, MakeFacts
<1>2. /\ DOMAIN main = 1..Len(main) /\ 0 \notin DOMAIN commits'
      /\ Len(main) \in Nat /\ 0 \notin DOMAIN commits
  <2>1. commits' \in Seq(Commits)
    BY <1>0, MakeFacts
  <2> QED BY <2>1 DEF TypeOK
<1>3. \A i \in DOMAIN main : main[i].sha \in DOMAIN commits /\ OwnerOf(i)' = OwnerOf(i)
  BY <1>0, <1>1 DEF HeadSound, OwnerOf
<1>4. HeadSound'
  BY <1>0, <1>1, <1>2 DEF HeadSound
<1>5. head'[t] \notin Landed(Len(main))
  BY <1>1, <1>2, <1>3 DEF Landed
<1>6. RunSound'
  <2>1. Landed(Len(main))' = Landed(Len(main))
    BY DEF Landed
  <2>2. t \in Trees /\ \A u \in Trees \ {t} : pc'[u] = pc[u] /\ green'[u] = green[u]
    OBVIOUS
  <2> QED BY <1>0, <1>1, <1>5, <2>1, <2>2 DEF RunSound
<1>7. MergeSound'
  BY <1>0, <1>3 DEF MergeSound
<1>8. PushedWasGated => PushedWasGated'
  BY <1>1, <1>3 DEF PushedWasGated
<1> QED BY <1>4, <1>6, <1>7, <1>8 DEF TreeInv

\* Steps that make no commit and land nothing: a landing goes on or ends.
LEMMA RestKeeps ==
  ASSUME TypeOK, TreeInv, UNCHANGED <<commits, main, checkout, head>>, base' = Len(main),
         \A t \in Trees :
           \/ pc'[t] = pc[t] /\ green'[t] = green[t]
           \/ pc'[t] \in {"idle", "pushed"}
           \/ pc'[t] \in {"rebased", "reviewed"} /\ pc[t] \in {"fetched", "rebased"}
           \/ pc'[t] = "gated" /\ pc[t] = "reviewed" /\ green'[t] = head[t]
           \/ pc'[t] = "fetched" /\ head[t] \notin Landed(Len(main))
  PROVE  TreeInv'
<1>1. HeadSound'
  BY DEF TreeInv, HeadSound
<1>2. Landed(Len(main))' = Landed(Len(main)) /\ \A i \in DOMAIN main : OwnerOf(i)' = OwnerOf(i)
  BY DEF Landed, OwnerOf
<1>3. RunSound'
  BY <1>2 DEF TreeInv, RunSound
<1>4. MergeSound'
  BY <1>2 DEF TreeInv, MergeSound
<1>5. PushedWasGated => PushedWasGated'
  BY DEF PushedWasGated
<1> QED BY <1>1, <1>3, <1>4, <1>5 DEF TreeInv

\* The commands on a loop touch no commit, no verdict and no landing.
LEMMA WriterRest ==
  ASSUME NEW w \in Writers, Writer(w)
  PROVE  UNCHANGED <<repository, landing, verdicts, links, closed>>
<1>1. ASSUME NEW t \in Trees, NEW new, Computes(w, t, new)
      PROVE  UNCHANGED <<repository, landing, verdicts, links, closed>>
  BY <1>1 DEF Computes
<1>2. CASE StoreLoop(w)
  BY <1>2 DEF StoreLoop
<1>3. ASSUME NEW t \in Trees, OpenLoop(w, t) \/ Round(w, t) \/ Sync(w, t) \/ Adjudicate(w, t)
      PROVE  \E new : Computes(w, t, new)
  BY <1>3 DEF OpenLoop, Round, Sync, Adjudicate
<1> QED BY <1>1, <1>2, <1>3 DEF Writer

\* Every step keeps what is known of the trees.
LEMMA TreeStep ==
  ASSUME TypeOK, TreeInv, Next
  PROVE  TreeInv'
<1>0. /\ HeadSound /\ RunSound /\ MergeSound
      /\ base = Len(main) /\ Len(main) \in Nat /\ head \in [Trees -> Nat]
      /\ DOMAIN main = 1..Len(main)
  BY DEF TreeInv, HeadSound, TypeOK
<1>1. ASSUME NEW t \in Trees, Commit(t) PROVE TreeInv'
  <2>1. Onto(head[t]) \in Nat /\ HandsOff => pc[t] # "gated"
    BY <1>0, <1>1 DEF Commit, Free
  <2>2. Onto(head[t]) \in Nat
    BY <1>0, OntoType DEF HeadSound
  <2>3. PICK d \in Diffs : Make(t, Onto(head[t]), d, 0, TRUE)
    BY <1>1 DEF Commit
  <2>4. /\ main' = main /\ checkout' = checkout /\ base' = base
        /\ pc' = pc /\ green' = green /\ (HandsOff => pc[t] # "gated")
    BY <1>1 DEF Commit, Free, landing
  <2> QED BY <1>0, <2>2, <2>3, <2>4, MakeKeeps
<1>2. ASSUME NEW t \in Trees, Resolve(t) PROVE TreeInv'
  <2>1. rebasing[t] \in Nat
    BY <1>2 DEF Resolve, TypeOK
  <2>2. PICK d \in Diffs : Make(t, rebasing[t], d, head[t], TRUE)
    BY <1>2 DEF Resolve
  <2>3. /\ main' = main /\ checkout' = checkout /\ base' = base
        /\ pc' = pc /\ green' = green /\ (HandsOff => pc[t] # "gated")
    BY <1>2 DEF Resolve, Free, landing
  <2> QED BY <1>0, <2>1, <2>2, <2>3, MakeKeeps
<1>3. ASSUME \/ \E t \in Trees : Abort(t) \/ Review(t)
             \/ \E w \in Writers : Writer(w)
      PROVE  TreeInv'
  <2>1. UNCHANGED <<commits, main, base, checkout, head, pc, green>>
    BY <1>3, WriterRest DEF Abort, Review, landing, repository
  <2> QED BY <1>0, <2>1, RestKeeps
<1>4. ASSUME NEW t \in Trees, Stage(t) PROVE TreeInv'
  <2>1. /\ base' = Len(main) /\ pc[t] = "idle"
        /\ UNCHANGED <<main, checkout, pc, green>>
    BY <1>4 DEF Stage, landing
  <2>2. CASE UNCHANGED <<commits, head>>
    BY <1>0, <2>1, <2>2, RestKeeps
  <2>3. CASE Replay(t, base')
    <3>1. PICK d \in Diffs : Make(t, base', d, head[t], FALSE)
      BY <2>3 DEF Replay
    <3> QED BY <1>0, <2>1, <3>1, MakeKeeps
  <2> QED BY <1>4, <2>2, <2>3 DEF Stage, Stop
<1>5. ASSUME NEW t \in Trees, Begin(t) PROVE TreeInv'
  <2>1. /\ base' = Len(main) /\ UNCHANGED <<commits, main, checkout, head, green>>
        /\ \/ head[t] \notin Landed(base') /\ pc' = [pc EXCEPT ![t] = "fetched"]
           \/ pc' = [pc EXCEPT ![t] = "pushed"]
           \/ pc' = pc
    BY <1>5 DEF Begin, Goto
  <2>2. /\ \A u \in Trees \ {t} : pc'[u] = pc[u] /\ green'[u] = green[u]
        /\ \/ pc'[t] = "fetched" /\ head[t] \notin Landed(Len(main))
           \/ pc'[t] = "pushed"
           \/ pc'[t] = pc[t] /\ green'[t] = green[t]
    BY <2>1 DEF TypeOK
  <2> QED BY <2>1, <2>2, RestKeeps
<1>6. ASSUME NEW t \in Trees, Rebase(t) PROVE TreeInv'
  <2>1. /\ pc[t] = "fetched" /\ UNCHANGED <<main, base, checkout, green>>
        /\ \E at \in {"rebased", "idle"} : pc' = [pc EXCEPT ![t] = at]
    BY <1>6 DEF Rebase, Goto
  <2>2. /\ pc'[t] \in {"rebased", "idle"}
        /\ \A u \in Trees \ {t} : pc'[u] = pc[u] /\ green'[u] = green[u]
    BY <2>1 DEF TypeOK
  <2>3. CASE UNCHANGED <<commits, head>>
    BY <1>0, <2>1, <2>2, <2>3, RestKeeps
  <2>4. CASE Replay(t, base)
    <3>1. PICK d \in Diffs : Make(t, base, d, head[t], FALSE)
      BY <2>4 DEF Replay
    <3> QED BY <1>0, <2>1, <2>2, <3>1, MakeKeeps
  <2> QED BY <1>6, <2>3, <2>4 DEF Rebase, Stop
<1>7. ASSUME NEW t \in Trees, ReviewRung(t) \/ Gate(t) \/ Refuse(t) \/ Close(t)
      PROVE  TreeInv'
  <2>1. /\ UNCHANGED <<commits, main, base, checkout, head>>
        /\ pc \in [Trees -> {"idle", "fetched", "rebased", "reviewed", "gated", "pushed", "merged"}]
        /\ green \in [Trees -> Nat \union {None}]
    BY <1>7 DEF ReviewRung, Gate, Refuse, Close, repository, TypeOK
  <2>2. \/ /\ pc' = [pc EXCEPT ![t] = "idle"] /\ green' = [green EXCEPT ![t] = None]
        \/ /\ pc[t] = "rebased" /\ pc' = [pc EXCEPT ![t] = "reviewed"] /\ green' = green
        \/ /\ pc[t] = "reviewed" /\ pc' = [pc EXCEPT ![t] = "gated"]
           /\ green' = [green EXCEPT ![t] = head[t]]
    BY <1>7 DEF ReviewRung, Gate, Refuse, Close, Done, Goto
  <2>3. \A u \in Trees \ {t} : pc'[u] = pc[u] /\ green'[u] = green[u]
    BY <2>1, <2>2
  <2>4. \/ pc'[t] = "idle"
        \/ pc'[t] = "reviewed" /\ pc[t] = "rebased"
        \/ pc'[t] = "gated" /\ pc[t] = "reviewed" /\ green'[t] = head[t]
    BY <2>1, <2>2
  <2> QED BY <1>0, <2>1, <2>3, <2>4, RestKeeps
<1>8. ASSUME NEW t \in Trees, Push(t) PROVE TreeInv'
  <2>1. CASE Onto(head[t]) = Len(main)
    <3> DEFINE e == [sha |-> head[t], verdict |-> clearing[t], gated |-> green[t]]
    <3>1. /\ main' = Append(main, e) /\ base' = Len(main')
          /\ pc' = [pc EXCEPT ![t] = "pushed"] /\ pc[t] = "gated"
          /\ UNCHANGED <<commits, checkout, head, green>>
      BY <1>8, <2>1 DEF Push, Goto
    <3>2. /\ Len(main') = Len(main) + 1 /\ main'[Len(main) + 1] = e
          /\ DOMAIN main' = 1..(Len(main) + 1)
          /\ \A i \in DOMAIN main : main'[i] = main[i]
      BY <3>1, <1>0 DEF TypeOK
    <3>3. /\ head[t] \notin Landed(Len(main)) /\ head[t] # 0
          /\ head[t] \in DOMAIN commits /\ commits[head[t]].tree = t
          /\ commits[head[t]].onto = Len(main)
      <4>1. head[t] \notin Landed(Len(main))
        BY <1>0, <3>1 DEF RunSound
      <4>2. head[t] # 0
        BY <4>1 DEF Landed
      <4> QED BY <1>0, <2>1, <4>1, <4>2 DEF HeadSound, Onto
    <3>4. HeadSound'
      <4>1. \A i \in DOMAIN main' : main'[i].sha \in DOMAIN commits'
        <5>1. \A i \in DOMAIN main' : i \in DOMAIN main \/ i = Len(main) + 1
          BY <1>0, <3>2
        <5> QED BY <1>0, <3>1, <3>2, <3>3, <5>1 DEF HeadSound
      <4>2. checkout' <= base'
        BY <1>0, <3>1, <3>2 DEF HeadSound, TypeOK
      <4> QED BY <1>0, <3>1, <4>1, <4>2 DEF HeadSound
    <3>5. RunSound'
      <4> SUFFICES ASSUME NEW u \in Trees
                   PROVE  /\ pc'[u] \in {"fetched", "rebased", "reviewed", "gated"} =>
                               head'[u] \notin Landed(Len(main))'
                          /\ HandsOff /\ pc'[u] = "gated" => green'[u] = head'[u]
        BY DEF RunSound
      <4>1. CASE u = t
        BY <3>1, <4>1 DEF TypeOK
      <4>2. CASE u # t
        <5>1. (pc'[u] = pc[u] /\ head[u] # head[t]) \/ head[u] = 0
          BY <1>0, <3>1, <3>3, <4>2 DEF HeadSound
        <5>2. Landed(Len(main))' = Landed(Len(main)) \union {head[t]}
          <6>1. main'[Len(main) + 1].sha = head[t]
            BY <3>2
          <6>2. \A i \in 1..Len(main) : main'[i].sha = main[i].sha
            BY <1>0, <3>2
          <6>3. 1..Len(main') = 1..Len(main) \union {Len(main) + 1}
            BY <1>0, <3>2
          <6>4. {main'[i].sha : i \in 1..Len(main')}
                  = {main[i].sha : i \in 1..Len(main)} \union {head[t]}
            BY <6>1, <6>2, <6>3
          <6> QED BY <6>4 DEF Landed
        <5>3. pc'[u] = pc[u]
          BY <3>1, <4>2 DEF TypeOK
        <5>4. head[u] = 0 => head[u] \in Landed(Len(main))
          BY DEF Landed
        <5> QED BY <1>0, <3>1, <5>1, <5>2, <5>3, <5>4 DEF RunSound
      <4> QED BY <4>1, <4>2
    <3>6. MergeSound'
      <4> SUFFICES ASSUME NEW u \in Trees, pc'[u] = "merged", NEW i \in DOMAIN main',
                          commits'[main'[i].sha].tree = u
                   PROVE  i <= checkout'
        BY DEF MergeSound, OwnerOf
      <4>1. u # t /\ pc[u] = "merged"
        BY <3>1 DEF TypeOK
      <4>2. CASE i \in DOMAIN main
        BY <1>0, <3>1, <3>2, <4>1, <4>2 DEF MergeSound, OwnerOf
      <4>3. CASE i = Len(main) + 1
        BY <3>1, <3>2, <3>3, <4>1, <4>3
      <4> QED BY <1>0, <3>2, <4>2, <4>3
    <3>7. HandsOff => PushedWasGated'
      <4> SUFFICES ASSUME HandsOff, NEW i \in DOMAIN main'
                   PROVE  /\ main'[i].gated = main'[i].sha
                          /\ commits'[main'[i].gated].onto = i - 1
        BY DEF PushedWasGated
      <4>1. CASE i \in DOMAIN main
        BY <3>1, <3>2, <4>1 DEF PushedWasGated, TreeInv
      <4>2. CASE i = Len(main) + 1
        <5>1. green[t] = head[t]
          BY <1>0, <3>1 DEF RunSound
        <5> QED BY <1>0, <3>1, <3>2, <3>3, <4>2, <5>1
      <4> QED BY <1>0, <3>2, <4>1, <4>2
    <3> QED BY <3>4, <3>5, <3>6, <3>7 DEF TreeInv
  <2>2. CASE Onto(head[t]) # Len(main)
    <3>1. /\ pc' = [pc EXCEPT ![t] = "idle"] /\ green' = [green EXCEPT ![t] = None]
          /\ UNCHANGED <<commits, main, base, checkout, head>>
      BY <1>8, <2>2 DEF Push, Done, Goto
    <3>2. /\ pc'[t] = "idle" /\ \A u \in Trees \ {t} : pc'[u] = pc[u] /\ green'[u] = green[u]
      BY <3>1 DEF TypeOK
    <3> QED BY <1>0, <3>1, <3>2, RestKeeps
  <2> QED BY <2>1, <2>2
<1>9. ASSUME NEW t \in Trees, Merge(t) PROVE TreeInv'
  <2>1. UNCHANGED <<commits, main, base, head>>
    BY <1>9 DEF Merge
  <2>2. CASE UNCHANGED checkout /\ Done(t)
    <3>1. pc' = [pc EXCEPT ![t] = "idle"] /\ green' = [green EXCEPT ![t] = None]
      BY <2>2 DEF Done, Goto
    <3>2. /\ pc'[t] = "idle" /\ \A u \in Trees \ {t} : pc'[u] = pc[u] /\ green'[u] = green[u]
      BY <3>1 DEF TypeOK
    <3> QED BY <1>0, <2>1, <2>2, <3>2, RestKeeps
  <2>3. CASE checkout' = base /\ Goto(t, "merged") /\ UNCHANGED green
    <3>1. /\ \A u \in Trees : u # t => pc'[u] = pc[u]
          /\ pc'[t] = "merged" /\ green' = green /\ checkout' = Len(main)
      BY <1>0, <2>3 DEF Goto, TypeOK
    <3>2. HeadSound'
      BY <1>0, <2>1, <3>1 DEF HeadSound
    <3>3. RunSound'
      <4>1. Landed(Len(main))' = Landed(Len(main))
        BY <2>1 DEF Landed
      <4> QED BY <1>0, <2>1, <3>1, <4>1 DEF RunSound
    <3>4. MergeSound'
      BY <1>0, <2>1, <3>1 DEF MergeSound
    <3>5. PushedWasGated => PushedWasGated'
      BY <2>1 DEF PushedWasGated
    <3> QED BY <3>2, <3>3, <3>4, <3>5 DEF TreeInv
  <2> QED BY <1>9, <2>2, <2>3 DEF Merge
<1> QED BY <1>1, <1>2, <1>3, <1>4, <1>5, <1>6, <1>7, <1>8, <1>9 DEF Next, Lander
-----------------------------------------------------------------------------
(* Verdicts and loops.                                                      *)

LEMMA FoldedType ==
  ASSUME NEW l \in Loops, NEW found \in Gradings
  PROVE  Folded(l, found) \in Loops
<1>1. PICK raised \in SUBSET Findings : found \in [raised -> Grades]
  BY DEF Gradings
<1>2. PICK held \in SUBSET Findings : l.found \in [held -> Grades]
  BY DEF Loops, Gradings
<1> DEFINE both == [f \in held \union raised |-> IF f \in held THEN l.found[f] ELSE found[f]]
<1>3. both \in [held \union raised -> Grades] /\ held \union raised \in SUBSET Findings
  BY <1>1, <1>2
<1>4. both \in Gradings
  BY <1>3 DEF Gradings
<1>5. Folded(l, found) = [l EXCEPT !.found = both]
  BY <1>1, <1>2 DEF Folded
<1> HIDE DEF both
<1> QED BY <1>4, <1>5 DEF Loops

\* What a command computes is a loop.
LEMMA ComputedType ==
  ASSUME TypeOK, NEW w \in Writers, NEW t \in Trees,
         OpenLoop(w, t) \/ Round(w, t) \/ Sync(w, t) \/ Adjudicate(w, t)
  PROVE  \E new \in Loops : Computes(w, t, new)
<1>0. loop \in [Trees -> Loops \union {None}] /\ verdicts \in [Trees -> SUBSET Verdicts]
  BY DEF TypeOK
<1>1. \A found \in Gradings : Opened(found) \in Loops
  BY DEF Opened, Loops
<1>2. CASE OpenLoop(w, t)
  BY <1>1, <1>2 DEF OpenLoop
<1>3. CASE Round(w, t)
  BY <1>0, <1>3, FoldedType DEF Round
<1>4. CASE Sync(w, t)
  <2>0. PICK s \in DOMAIN commits : \E v \in First({u \in verdicts[t] : u.sha = s}) :
          \/ loop[t] = None /\ Computes(w, t, Opened(v.found))
          \/ loop[t] # None /\ Computes(w, t, Folded(loop[t], v.found))
    BY <1>4 DEF Sync
  <2>1. PICK v \in First({u \in verdicts[t] : u.sha = s}) :
          \/ loop[t] = None /\ Computes(w, t, Opened(v.found))
          \/ loop[t] # None /\ Computes(w, t, Folded(loop[t], v.found))
    BY <2>0
  <2>2. v.found \in Gradings
    BY <1>0, <2>1 DEF First, Verdicts
  <2> QED BY <1>0, <1>1, <2>1, <2>2, FoldedType
<1>5. CASE Adjudicate(w, t)
  <2>1. PICK f \in DOMAIN loop[t].found :
          Computes(w, t, [loop[t] EXCEPT !.adjudicated = @ \union {f}])
    BY <1>5 DEF Adjudicate
  <2>2. loop[t] \in Loops
    BY <1>0, <1>5 DEF Adjudicate
  <2>3. f \in Findings
    BY <2>1, <2>2 DEF Loops, Gradings
  <2>4. [loop[t] EXCEPT !.adjudicated = @ \union {f}] \in Loops
    BY <2>2, <2>3 DEF Loops
  <2> QED BY <2>1, <2>4
<1> QED BY <1>2, <1>3, <1>4, <1>5

LoopsTyped ==
  /\ loop \in [Trees -> Loops \union {None}] /\ adjudged \in [Trees -> SUBSET Findings]
  /\ writing \in [Writers -> Updates \union {None}] /\ updates \in Nat

\* A loop is written by a command that may have read it long ago, so an adjudication may be
\* lost from it; what it ever recorded only grows.
LEMMA LoopStep ==
  ASSUME TypeOK, Next
  PROVE  /\ LoopsTyped'
         /\ \A t \in Trees : adjudged[t] \subseteq adjudged'[t]
         /\ LoopSound => LoopSound'
<1> USE LandingAssumption
<1>0. LoopsTyped
  BY DEF TypeOK, LoopsTyped
<1>1. CASE UNCHANGED loops
  BY <1>0, <1>1 DEF loops, LoopsTyped, LoopSound
<1>2. ASSUME NEW w \in Writers, NEW t \in Trees, NEW new \in Loops, Computes(w, t, new)
      PROVE  LoopsTyped' /\ UNCHANGED <<loop, adjudged>>
  <2>1. [tree |-> t, loop |-> new] \in Updates
    BY DEF Updates
  <2> QED BY <1>0, <1>2, <2>1 DEF Computes, LoopsTyped
<1>3. ASSUME NEW w \in Writers, StoreLoop(w)
      PROVE  /\ LoopsTyped'
             /\ \A t \in Trees : adjudged[t] \subseteq adjudged'[t]
             /\ LoopSound => LoopSound'
  <2> DEFINE t == writing[w].tree  new == writing[w].loop
  <2>1. t \in Trees /\ new \in Loops
    BY <1>0, <1>3 DEF StoreLoop, LoopsTyped, Updates
  <2>2. /\ loop' = [loop EXCEPT ![t] = new]
        /\ adjudged' = [adjudged EXCEPT ![t] = @ \union new.adjudicated]
        /\ writing' = [writing EXCEPT ![w] = None] /\ updates' = updates
    BY <1>3 DEF StoreLoop
  <2> HIDE DEF t, new
  <2>3. new.adjudicated \in SUBSET Findings
    BY <2>1 DEF Loops
  <2>4. LoopsTyped'
    BY <1>0, <2>1, <2>2, <2>3 DEF LoopsTyped
  <2>5. \A u \in Trees : adjudged[u] \subseteq adjudged'[u]
    BY <1>0, <2>1, <2>2 DEF LoopsTyped
  <2>6. LoopSound => LoopSound'
    BY <1>0, <2>1, <2>2 DEF LoopsTyped, LoopSound
  <2> QED BY <2>4, <2>5, <2>6
<1>4. ASSUME NEW w \in Writers, Writer(w)
      PROVE  \/ StoreLoop(w)
             \/ \E t \in Trees : \E new \in Loops : Computes(w, t, new)
  BY <1>4, ComputedType DEF Writer
<1>5. ASSUME NEW t \in Trees, Lander(t) PROVE UNCHANGED loops
  BY <1>5 DEF Lander, Commit, Resolve, Abort, Review, Stage, Begin, Rebase, ReviewRung, Gate,
     Refuse, Push, Merge, Close, records
<1>6. CASE \E w \in Writers : Writer(w)
  BY <1>2, <1>3, <1>4, <1>6 DEF LoopSound
<1> QED BY <1>1, <1>5, <1>6 DEF Next

\* The verdict a rung is cleared by is one that is on record.
LEMMA BoundVerdictType ==
  ASSUME TypeOK, NEW t \in Trees, NEW s
  PROVE  BoundVerdict(t, s) \subseteq Verdicts
BY DEF TypeOK, BoundVerdict, First

\* Every step keeps what a cleared verdict no longer owes.
LEMMA ClearStep ==
  ASSUME TypeOK, TreeInv, ClearSound, Next
  PROVE  ClearSound'
<1>0. /\ HeadSound /\ RunSound /\ DOMAIN main = 1..Len(main) /\ Len(main) \in Nat
      /\ pc \in [Trees -> {"idle", "fetched", "rebased", "reviewed", "gated", "pushed", "merged"}]
      /\ clearing \in [Trees -> Verdicts \union {None}]
  BY DEF TreeInv, TypeOK
<1>1. LoopSound' /\ \A t \in Trees : \A v : Settled(v, adjudged[t]) => Settled(v, adjudged'[t])
  BY LoopStep DEF ClearSound, Settled
<1>2. ASSUME NEW t \in Trees, pc'[t] \in {"reviewed", "gated"},
             pc[t] \in {"reviewed", "gated"}, clearing'[t] = clearing[t]
      PROVE  clearing'[t] # None /\ Settled(clearing'[t], adjudged'[t])
  BY <1>1, <1>2 DEF ClearSound
<1>3. \A i \in DOMAIN main : main[i].sha \in DOMAIN commits /\ OwnerOf(i) \in Trees
  <2> SUFFICES ASSUME NEW i \in DOMAIN main
               PROVE  main[i].sha \in DOMAIN commits /\ OwnerOf(i) \in Trees
    OBVIOUS
  <2>1. main[i].sha \in DOMAIN commits
    BY <1>0 DEF HeadSound
  <2>2. commits \in Seq(Commits)
    BY DEF TypeOK
  <2>3. commits[main[i].sha] \in Commits
    BY <2>1, <2>2
  <2> QED BY <2>1, <2>3 DEF OwnerOf, Commits
<1>4. ASSUME NEW i \in DOMAIN main, main'[i] = main[i], commits'[main[i].sha] = commits[main[i].sha]
      PROVE  Settled(main'[i].verdict, adjudged'[OwnerOf(i)'])
  <2>1. OwnerOf(i)' = OwnerOf(i) /\ OwnerOf(i) \in Trees
    BY <1>3, <1>4 DEF OwnerOf
  <2>2. Settled(main[i].verdict, adjudged[OwnerOf(i)])
    BY DEF ClearSound, LandedOwesNothing, Settled
  <2> QED BY <1>1, <1>4, <2>1, <2>2
<1>5. ASSUME NEW t \in Trees, NEW onto \in Nat, NEW d \in Diffs, NEW of \in Nat,
             NEW hand \in BOOLEAN, Make(t, onto, d, of, hand)
      PROVE  \A n \in DOMAIN commits : commits'[n] = commits[n]
  BY <1>0, <1>5, MakeFacts
<1>6. \A n \in DOMAIN commits : commits'[n] = commits[n]
  <2>1. head \in [Trees -> Nat] /\ base \in Nat /\ Len(main) \in Nat
    BY DEF TypeOK
  <2>2. ASSUME NEW t \in Trees, Commit(t) PROVE \A n \in DOMAIN commits : commits'[n] = commits[n]
    <3>1. Onto(head[t]) \in Nat
      BY <1>0, <2>1, OntoType DEF HeadSound
    <3> QED BY <1>5, <2>2, <3>1 DEF Commit
  <2>3. ASSUME NEW t \in Trees, Resolve(t) PROVE \A n \in DOMAIN commits : commits'[n] = commits[n]
    <3>1. rebasing[t] \in Nat
      BY <2>3 DEF Resolve, TypeOK
    <3> QED BY <1>5, <2>1, <2>3, <3>1 DEF Resolve
  <2>4. ASSUME NEW t \in Trees, NEW onto \in Nat, Replay(t, onto)
        PROVE  \A n \in DOMAIN commits : commits'[n] = commits[n]
    BY <1>5, <2>1, <2>4 DEF Replay
  <2>5. ASSUME NEW t \in Trees, Stage(t) PROVE \A n \in DOMAIN commits : commits'[n] = commits[n]
    BY <2>1, <2>4, <2>5 DEF Stage, Stop
  <2>6. ASSUME NEW t \in Trees, Rebase(t) PROVE \A n \in DOMAIN commits : commits'[n] = commits[n]
    BY <2>1, <2>4, <2>6 DEF Rebase, Stop
  <2>7. ASSUME NEW t \in Trees,
               \/ Abort(t) \/ Review(t) \/ Begin(t) \/ ReviewRung(t)
               \/ Gate(t) \/ Refuse(t) \/ Push(t) \/ Merge(t) \/ Close(t)
        PROVE  UNCHANGED commits
    BY <2>7 DEF Abort, Review, Begin, ReviewRung, Gate, Refuse, Push, Merge, Close, repository
  <2>8. ASSUME NEW w \in Writers, Writer(w) PROVE UNCHANGED commits
    BY <2>8, WriterRest DEF repository
  <2> QED BY <2>2, <2>3, <2>5, <2>6, <2>7, <2>8 DEF Next, Lander
<1>7. ASSUME main' = main PROVE LandedOwesNothing'
  BY <1>3, <1>4, <1>6, <1>7 DEF LandedOwesNothing, Settled
<1>8. ASSUME main' = main,
             \A t \in Trees :
               pc'[t] \in {"reviewed", "gated"} =>
                 pc[t] \in {"reviewed", "gated"} /\ clearing'[t] = clearing[t]
      PROVE  ClearSound'
  BY <1>1, <1>2, <1>7, <1>8 DEF ClearSound
<1>9. ASSUME NEW t \in Trees,
             \/ Commit(t) \/ Resolve(t) \/ Abort(t) \/ Review(t)
             \/ Stage(t) \/ Begin(t) \/ Rebase(t) \/ Gate(t) \/ Refuse(t) \/ Merge(t) \/ Close(t)
      PROVE  ClearSound'
  <2>1. main' = main
    BY <1>9 DEF Commit, Resolve, Abort, Review, Stage, Begin, Rebase, Gate, Refuse, Merge, Close,
       repository
  <2>2. CASE pc' = pc /\ clearing' = clearing
    BY <1>8, <2>1, <2>2
  <2>3. ASSUME NEW at \in {"idle", "fetched", "rebased", "pushed", "merged"},
               pc' = [pc EXCEPT ![t] = at],
               \A u \in Trees \ {t} : clearing'[u] = clearing[u]
        PROVE  ClearSound'
    <3>1. \A u \in Trees : \/ pc'[u] \notin {"reviewed", "gated"}
                           \/ pc'[u] = pc[u] /\ clearing'[u] = clearing[u]
      BY <1>0, <2>3
    <3> QED BY <1>8, <2>1, <3>1
  <2>4. Done(t) => \A u \in Trees \ {t} : clearing'[u] = clearing[u]
    BY <1>0 DEF Done
  <2>5. CASE Gate(t)
    <3>1. /\ pc[t] = "reviewed" /\ pc' = [pc EXCEPT ![t] = "gated"]
          /\ clearing' = clearing
      BY <2>5 DEF Gate, Goto
    <3>2. \A u \in Trees : \/ pc'[u] = pc[u]
                           \/ pc[u] = "reviewed"
      BY <1>0, <3>1
    <3> QED BY <1>8, <2>1, <3>1, <3>2
  <2>6. CASE Begin(t) \/ Rebase(t)
    BY <2>2, <2>3, <2>6 DEF Begin, Rebase, Goto
  <2>7. CASE Refuse(t) \/ Merge(t) \/ Close(t)
    BY <2>3, <2>4, <2>7 DEF Refuse, Merge, Close, Done, Goto
  <2>8. CASE Commit(t) \/ Resolve(t) \/ Abort(t) \/ Review(t) \/ Stage(t)
    BY <2>2, <2>8 DEF Commit, Resolve, Abort, Review, Stage, landing
  <2> QED BY <1>9, <2>5, <2>6, <2>7, <2>8
<1>10. ASSUME NEW t \in Trees, ReviewRung(t) PROVE ClearSound'
  <2>1. main' = main /\ adjudged' = adjudged
    BY <1>10 DEF ReviewRung, repository, records, loops
  <2>2. CASE Done(t)
    <3>1. \A u \in Trees : pc'[u] = "idle" \/ (pc'[u] = pc[u] /\ clearing'[u] = clearing[u])
      BY <1>0, <2>2 DEF Done, Goto
    <3> QED BY <1>8, <2>1, <3>1
  <2>3. ASSUME NEW v \in BoundVerdict(t, head[t]), Cleared(t, v), Goto(t, "reviewed"),
               clearing' = [clearing EXCEPT ![t] = v]
        PROVE  ClearSound'
    <3>1. v \in Verdicts /\ Settled(v, adjudged[t])
      BY <2>3, BoundVerdictType DEF Cleared, Settled, ClearSound, LoopSound
    <3>2. v # None
      BY <3>1, LandingAssumption
    <3>3. pc' = [pc EXCEPT ![t] = "reviewed"]
      BY <2>3 DEF Goto
    <3>4. ASSUME NEW u \in Trees, pc'[u] \in {"reviewed", "gated"}
          PROVE  clearing'[u] # None /\ Settled(clearing'[u], adjudged'[u])
      <4>1. CASE u = t
        BY <1>0, <2>1, <2>3, <3>1, <3>2, <4>1
      <4>2. CASE u # t
        BY <1>0, <1>2, <2>3, <3>3, <3>4, <4>2
      <4> QED BY <4>1, <4>2
    <3> QED BY <1>1, <1>7, <2>1, <3>4 DEF ClearSound
  <2> QED BY <1>10, <2>2, <2>3 DEF ReviewRung
<1>11. ASSUME NEW t \in Trees, Push(t) PROVE ClearSound'
  <2>1. CASE Onto(head[t]) # Len(main)
    <3>1. Done(t) /\ main' = main
      BY <1>11, <2>1 DEF Push
    <3>2. \A u \in Trees : pc'[u] = "idle" \/ (pc'[u] = pc[u] /\ clearing'[u] = clearing[u])
      BY <1>0, <3>1 DEF Done, Goto
    <3> QED BY <1>8, <3>1, <3>2
  <2>2. CASE Onto(head[t]) = Len(main)
    <3> DEFINE e == [sha |-> head[t], verdict |-> clearing[t], gated |-> green[t]]
    <3>1. /\ pc[t] = "gated" /\ main' = Append(main, e) /\ commits' = commits
          /\ pc' = [pc EXCEPT ![t] = "pushed"] /\ clearing' = clearing /\ adjudged' = adjudged
      BY <1>11, <2>2 DEF Push, Goto, records, loops
    <3>2. /\ DOMAIN main' = 1..(Len(main) + 1) /\ main'[Len(main) + 1] = e
          /\ \A i \in DOMAIN main : main'[i] = main[i]
      BY <1>0, <3>1 DEF TypeOK
    <3>3. commits[head[t]].tree = t
      <4>1. head[t] # 0
        BY <1>0, <3>1 DEF RunSound, Landed
      <4> QED BY <1>0, <4>1 DEF HeadSound
    <3>4. Settled(clearing[t], adjudged[t])
      BY <3>1 DEF ClearSound
    <3>5. ASSUME NEW i \in DOMAIN main' PROVE Settled(main'[i].verdict, adjudged'[OwnerOf(i)'])
      <4>1. CASE i \in DOMAIN main
        BY <1>3, <1>4, <3>1, <3>2, <4>1
      <4>2. CASE i = Len(main) + 1
        BY <3>1, <3>2, <3>3, <3>4, <4>2 DEF OwnerOf
      <4> QED BY <1>0, <3>2, <4>1, <4>2
    <3>6. LandedOwesNothing'
      BY <3>5 DEF LandedOwesNothing, Settled
    <3>7. \A u \in Trees : pc'[u] \in {"reviewed", "gated"} =>
            clearing'[u] # None /\ Settled(clearing'[u], adjudged'[u])
      BY <1>0, <3>1 DEF ClearSound
    <3> QED BY <1>1, <3>6, <3>7 DEF ClearSound
  <2> QED BY <2>1, <2>2
<1>12. ASSUME NEW w \in Writers, Writer(w) PROVE ClearSound'
  BY <1>8, <1>12, WriterRest DEF repository, landing
<1> QED BY <1>9, <1>10, <1>11, <1>12 DEF Next, Lander
-----------------------------------------------------------------------------
(* Types.                                                                   *)

Stages == {"idle", "fetched", "rebased", "reviewed", "gated", "pushed", "merged"}

\* A new commit is well formed, and so are the rebase and the link that go with it.
LEMMA ReplayType ==
  ASSUME TypeOK, HeadSound, NEW t \in Trees, NEW onto \in Nat, Replay(t, onto)
  PROVE  /\ commits' \in Seq(Commits) /\ head' \in [Trees -> Nat]
         /\ links' \in [Trees -> SUBSET (Nat \X Nat)] /\ rebasing' = rebasing
<1>1. head \in [Trees -> Nat] /\ links \in [Trees -> SUBSET (Nat \X Nat)]
  BY DEF TypeOK
<1>2. PICK d \in Diffs : Make(t, onto, d, head[t], FALSE)
  BY DEF Replay
<1>3. commits' \in Seq(Commits) /\ head' \in [Trees -> Nat]
  BY <1>1, <1>2, MakeFacts
<1>4. Len(commits') \in Nat
  BY <1>3
<1>5. links' \in [Trees -> SUBSET (Nat \X Nat)]
  BY <1>1, <1>4 DEF Replay
<1> QED BY <1>3, <1>5 DEF Replay

\* A landing that ends leaves its records well formed.
LEMMA DoneType ==
  ASSUME TypeOK, NEW t \in Trees, Done(t)
  PROVE  /\ pc' \in [Trees -> Stages] /\ clearing' \in [Trees -> Verdicts \union {None}]
         /\ green' \in [Trees -> Nat \union {None}]
BY DEF TypeOK, Done, Goto, Stages

\* Every step keeps the types.
LEMMA TypeStep ==
  ASSUME TypeOK, HeadSound, Next
  PROVE  TypeOK'
<1>1. /\ commits \in Seq(Commits)
      /\ main \in Seq([sha : Nat, verdict : Verdicts \union {None}, gated : Nat \union {None}])
      /\ base \in Nat /\ checkout \in Nat /\ Len(main) \in Nat
      /\ head \in [Trees -> Nat] /\ rebasing \in [Trees -> Nat \union {None}]
      /\ pc \in [Trees -> Stages] /\ clearing \in [Trees -> Verdicts \union {None}]
      /\ green \in [Trees -> Nat \union {None}] /\ verdicts \in [Trees -> SUBSET Verdicts]
      /\ links \in [Trees -> SUBSET (Nat \X Nat)] /\ closed \in [Trees -> BOOLEAN]
  BY DEF TypeOK, Stages
<1>2. /\ loop' \in [Trees -> Loops \union {None}] /\ adjudged' \in [Trees -> SUBSET Findings]
      /\ writing' \in [Writers -> Updates \union {None}] /\ updates' \in Nat
  BY LoopStep DEF LoopsTyped
<1>3. ASSUME NEW t \in Trees, Commit(t) PROVE TypeOK'
  <2>1. Onto(head[t]) \in Nat
    BY <1>1, OntoType DEF HeadSound
  <2>2. PICK d \in Diffs : Make(t, Onto(head[t]), d, 0, TRUE)
    BY <1>3 DEF Commit
  <2>3. commits' \in Seq(Commits) /\ head' \in [Trees -> Nat]
    BY <2>1, <2>2, MakeFacts
  <2> QED BY <1>1, <1>2, <1>3, <2>3 DEF TypeOK, Stages, Commit, landing, records
<1>4. ASSUME NEW t \in Trees, Resolve(t) PROVE TypeOK'
  <2>1. rebasing[t] \in Nat
    BY <1>1, <1>4 DEF Resolve
  <2>2. PICK d \in Diffs : Make(t, rebasing[t], d, head[t], TRUE)
    BY <1>4 DEF Resolve
  <2>3. commits' \in Seq(Commits) /\ head' \in [Trees -> Nat]
    BY <1>1, <2>1, <2>2, MakeFacts
  <2> QED BY <1>1, <1>2, <1>4, <2>3 DEF TypeOK, Stages, Resolve, landing, records
<1>5. ASSUME (\E t \in Trees : Abort(t)) \/ (\E w \in Writers : Writer(w)) PROVE TypeOK'
  <2>1. /\ rebasing' \in [Trees -> Nat \union {None}]
        /\ UNCHANGED <<commits, main, base, checkout, head, landing, verdicts, links, closed>>
    BY <1>1, <1>5, WriterRest DEF Abort, repository, records
  <2> QED BY <1>1, <1>2, <2>1 DEF TypeOK, Stages, landing
<1>6. ASSUME NEW t \in Trees, Review(t) PROVE TypeOK'
  <2>1. PICK s \in DOMAIN commits, found \in Gradings, rank \in Ranks(t) :
          verdicts' = [verdicts EXCEPT ![t] = @ \union
             {[sha |-> s, diff |-> DiffId(s), found |-> found, rank |-> rank]}]
    BY <1>6 DEF Review
  <2>2. s \in Nat /\ DiffId(s) \in Diffs \union {None}
    <3>1. commits[s] \in Commits /\ s \in Nat
      BY <1>1
    <3> QED BY <3>1 DEF DiffId, Commits
  <2>3. rank \in Nat
    <3>1. Ranks(t) \subseteq Nat
      BY LandingAssumption DEF Ranks
    <3> QED BY <2>1, <3>1
  <2>4. [sha |-> s, diff |-> DiffId(s), found |-> found, rank |-> rank] \in Verdicts
    BY <2>2, <2>3 DEF Verdicts
  <2>6. verdicts' \in [Trees -> SUBSET Verdicts]
    BY <1>1, <2>1, <2>4
  <2> QED BY <1>1, <1>2, <1>6, <2>6 DEF TypeOK, Stages, Review, repository, landing
<1>7. ASSUME NEW t \in Trees, Stage(t) PROVE TypeOK'
  <2>1. base' \in Nat
    BY <1>1, <1>7 DEF Stage
  <2>2. /\ commits' \in Seq(Commits) /\ head' \in [Trees -> Nat]
        /\ links' \in [Trees -> SUBSET (Nat \X Nat)] /\ rebasing' \in [Trees -> Nat \union {None}]
    <3>1. CASE UNCHANGED <<commits, head, rebasing, links>>
      BY <1>1, <3>1
    <3>2. CASE Replay(t, base')
      BY <1>1, <2>1, <3>2, ReplayType
    <3>3. CASE Stop(t, base')
      BY <1>1, <2>1, <3>3 DEF Stop
    <3> QED BY <1>7, <3>1, <3>2, <3>3 DEF Stage
  <2> QED BY <1>1, <1>2, <1>7, <2>1, <2>2 DEF TypeOK, Stages, Stage, landing
<1>8. ASSUME NEW t \in Trees, Begin(t) PROVE TypeOK'
  <2>1. base' \in Nat /\ pc' \in [Trees -> Stages]
    BY <1>1, <1>8 DEF Begin, Goto, Stages
  <2> QED BY <1>1, <1>2, <1>8, <2>1 DEF TypeOK, Stages, Begin, records
<1>9. ASSUME NEW t \in Trees, Rebase(t) PROVE TypeOK'
  <2>1. pc' \in [Trees -> Stages]
    BY <1>1, <1>9 DEF Rebase, Goto, Stages
  <2>2. /\ commits' \in Seq(Commits) /\ head' \in [Trees -> Nat]
        /\ links' \in [Trees -> SUBSET (Nat \X Nat)] /\ rebasing' \in [Trees -> Nat \union {None}]
    <3>1. CASE UNCHANGED <<commits, head, rebasing, links>>
      BY <1>1, <3>1
    <3>2. CASE Replay(t, base)
      BY <1>1, <3>2, ReplayType
    <3>3. CASE Stop(t, base)
      BY <1>1, <3>3 DEF Stop
    <3>4. UNCHANGED <<commits, head, rebasing, links>> \/ Replay(t, base) \/ Stop(t, base)
      BY <1>9 DEF Rebase
    <3> QED BY <3>1, <3>2, <3>3, <3>4
  <2> QED BY <1>1, <1>2, <1>9, <2>1, <2>2 DEF TypeOK, Stages, Rebase
<1>10. ASSUME NEW t \in Trees, ReviewRung(t) \/ Gate(t) \/ Refuse(t) \/ Close(t)
       PROVE  TypeOK'
  <2>1. /\ pc' \in [Trees -> Stages] /\ clearing' \in [Trees -> Verdicts \union {None}]
        /\ green' \in [Trees -> Nat \union {None}]
    <3>1. CASE Done(t)
      BY <3>1, DoneType
    <3>2. ASSUME NEW v \in BoundVerdict(t, head[t]), Goto(t, "reviewed"),
                 clearing' = [clearing EXCEPT ![t] = v], UNCHANGED green
          PROVE  /\ pc' \in [Trees -> Stages] /\ clearing' \in [Trees -> Verdicts \union {None}]
                 /\ green' \in [Trees -> Nat \union {None}]
      <4>1. v \in Verdicts
        BY BoundVerdictType
      <4> QED BY <1>1, <3>2, <4>1 DEF Goto, Stages
    <3>3. CASE Gate(t)
      BY <1>1, <3>3 DEF Gate, Goto, Stages
    <3> QED BY <1>10, <3>1, <3>2, <3>3 DEF ReviewRung, Refuse, Close
  <2>2. closed' \in [Trees -> BOOLEAN]
    BY <1>1, <1>10 DEF ReviewRung, Gate, Refuse, Close
  <2>3. UNCHANGED <<repository, verdicts, links>>
    BY <1>10 DEF ReviewRung, Gate, Refuse, Close, records
  <2> QED BY <1>1, <1>2, <2>1, <2>2, <2>3 DEF TypeOK, Stages, repository
<1>11. ASSUME NEW t \in Trees, Push(t) PROVE TypeOK'
  <2>1. CASE Done(t) /\ UNCHANGED <<main, base>>
    <3>1. UNCHANGED <<commits, checkout, head, rebasing, verdicts, links, closed>>
      BY <1>11 DEF Push, records
    <3> QED BY <1>1, <1>2, <2>1, <3>1, DoneType DEF TypeOK, Stages
  <2>2. CASE /\ main' = Append(main, [sha |-> head[t], verdict |-> clearing[t], gated |-> green[t]])
             /\ base' = Len(main') /\ Goto(t, "pushed") /\ UNCHANGED <<clearing, green>>
    <3>1. [sha |-> head[t], verdict |-> clearing[t], gated |-> green[t]]
            \in [sha : Nat, verdict : Verdicts \union {None}, gated : Nat \union {None}]
      BY <1>1
    <3>2. /\ main' \in Seq([sha : Nat, verdict : Verdicts \union {None}, gated : Nat \union {None}])
          /\ base' \in Nat
      BY <1>1, <2>2, <3>1
    <3>3. pc' \in [Trees -> Stages]
      BY <1>1, <2>2 DEF Goto, Stages
    <3>4. UNCHANGED <<commits, checkout, head, rebasing, verdicts, links, closed>>
      BY <1>11 DEF Push, records
    <3> QED BY <1>1, <1>2, <2>2, <3>2, <3>3, <3>4 DEF TypeOK, Stages
  <2> QED BY <1>11, <2>1, <2>2 DEF Push
<1>12. ASSUME NEW t \in Trees, Merge(t) PROVE TypeOK'
  <2>1. UNCHANGED <<commits, main, base, head, rebasing, verdicts, links, closed>>
    BY <1>12 DEF Merge, records
  <2>2. checkout' \in Nat
    BY <1>1, <1>12 DEF Merge
  <2>3. /\ pc' \in [Trees -> Stages] /\ clearing' \in [Trees -> Verdicts \union {None}]
        /\ green' \in [Trees -> Nat \union {None}]
    <3>1. CASE Done(t)
      BY <3>1, DoneType
    <3>2. CASE Goto(t, "merged") /\ UNCHANGED <<clearing, green>>
      BY <1>1, <3>2 DEF Goto, Stages
    <3> QED BY <1>12, <3>1, <3>2 DEF Merge
  <2> QED BY <1>1, <1>2, <2>1, <2>2, <2>3 DEF TypeOK, Stages
<1> QED BY <1>3, <1>4, <1>5, <1>6, <1>7, <1>8, <1>9, <1>10, <1>11, <1>12 DEF Next, Lander
-----------------------------------------------------------------------------
(* The theorems.                                                            *)

LEMMA Initially == Init => IInv
<1> SUFFICES ASSUME Init PROVE IInv
  OBVIOUS
<1>1. TypeOK
  BY DEF Init, TypeOK
<1>2. DOMAIN main = {} /\ Len(main) = 0
  BY DEF Init
<1>3. HeadSound /\ RunSound
  BY <1>2 DEF Init, HeadSound, RunSound
<1>4. ClearSound /\ MergeSound /\ PushedWasGated
  BY <1>2 DEF Init, ClearSound, LoopSound, LandedOwesNothing, MergeSound, PushedWasGated
<1> QED BY <1>1, <1>3, <1>4 DEF IInv

LEMMA Inductive == IInv /\ [Next]_vars => IInv'
<1> SUFFICES ASSUME IInv, [Next]_vars PROVE IInv'
  OBVIOUS
<1>1. TypeOK /\ TreeInv /\ ClearSound /\ HeadSound
  BY DEF IInv, TreeInv
<1>2. CASE Next
  <2>1. TypeOK' /\ TreeInv' /\ ClearSound'
    BY <1>1, <1>2, TypeStep, TreeStep, ClearStep
  <2> QED BY <2>1 DEF IInv, TreeInv
<1>3. CASE UNCHANGED vars
  <2>1. UNCHANGED <<commits, main, base, checkout, head, rebasing, pc, clearing, green, verdicts,
                    links, loop, writing, updates, adjudged, closed>>
    BY <1>3 DEF vars, repository, landing, records, loops
  <2>2. TypeOK'
    BY <1>1, <2>1 DEF TypeOK
  <2>3. HeadSound' /\ RunSound'
    BY <1>1, <2>1 DEF TreeInv, HeadSound, RunSound, Landed
  <2>4. MergeSound' /\ ClearSound'
    BY <1>1, <2>1 DEF TreeInv, MergeSound, ClearSound, LoopSound, LandedOwesNothing,
       OwnerOf, Settled
  <2>5. HandsOff => PushedWasGated'
    BY <1>1, <2>1 DEF TreeInv, PushedWasGated
  <2> QED BY <2>2, <2>3, <2>4, <2>5 DEF IInv
<1> QED BY <1>2, <1>3

LEMMA Invariant == Spec => []IInv
BY Initially, Inductive, PTL DEF Spec

\* Every variable keeps its type: each landing, commit and verdict is well formed
\* whatever order the worktrees' steps come in.
THEOREM TypeCorrect == Spec => []TypeOK
<1>1. IInv => TypeOK
  BY DEF IInv
<1> QED BY <1>1, Invariant, PTL

\* If nobody works in a tree while it lands, what is on main was gated as it stands
\* there, on top of everything that had landed before it, however landings race.
THEOREM GatedPushes == Spec => [](HandsOff => PushedWasGated)
<1>1. IInv => (HandsOff => PushedWasGated)
  BY DEF IInv
<1> QED BY <1>1, Invariant, PTL

\* Whoever works in the trees, and when, and whichever writer of a loop overwrites another:
\* of every finding above Low of a verdict that something landed on, the loop had recorded
\* the adjudication.
THEOREM NothingOwed == Spec => []LandedOwesNothing
<1>1. IInv => LandedOwesNothing
  BY DEF IInv, ClearSound
<1> QED BY <1>1, Invariant, PTL

\* An issue is closed only when all it landed is in the main checkout.
THEOREM ClosedAreMerged == Spec => ClosedMeansMerged
<1> DEFINE Closing == \A t \in Trees : closed'[t] # closed[t] =>
                        \A i \in DOMAIN main : OwnerOf(i) = t => i <= checkout
<1>1. IInv /\ [Next]_vars => [Closing]_vars
  <2> SUFFICES ASSUME IInv, Next PROVE Closing
    OBVIOUS
  <2>1. closed \in [Trees -> BOOLEAN] /\ MergeSound
    BY DEF IInv, TypeOK
  <2>2. ASSUME NEW t \in Trees, Close(t) PROVE Closing
    <3>1. pc[t] = "merged" /\ \A u \in Trees \ {t} : closed'[u] = closed[u]
      BY <2>1, <2>2 DEF Close
    <3> QED BY <2>1, <3>1 DEF MergeSound
  <2>3. ASSUME NEW t \in Trees,
               \/ Commit(t) \/ Resolve(t) \/ Abort(t) \/ Review(t) \/ Stage(t) \/ Begin(t)
               \/ Rebase(t) \/ ReviewRung(t) \/ Gate(t) \/ Refuse(t) \/ Push(t) \/ Merge(t)
        PROVE  closed' = closed
    BY <2>3 DEF Commit, Resolve, Abort, Review, Stage, Begin, Rebase, ReviewRung, Gate, Refuse,
       Push, Merge
  <2>4. ASSUME NEW w \in Writers, Writer(w) PROVE closed' = closed
    BY <2>4, WriterRest
  <2> QED BY <2>2, <2>3, <2>4 DEF Next, Lander
<1>2. Spec => [][Closing]_vars
  BY <1>1, Invariant, PTL DEF Spec
<1> QED BY <1>2 DEF ClosedMeansMerged
-----------------------------------------------------------------------------
(* The log, read from its end to its beginning.                             *)

\* A set of numbers has a least one, which is all the induction there is below.
LEMMA LeastNumber ==
  ASSUME NEW S, S \subseteq Nat, S # {}
  PROVE  \E n \in S : \A m \in S : n <= m
<1> DEFINE R == {ss \in Nat \X Nat : ss[1] < ss[2]}
<1>1. IsWellFoundedOn(R, Nat)
  BY NatLessThanWellFounded DEF OpToRel
<1> HIDE DEF R
<1>2. PICK n \in S : \A m \in S : ~ (<<m, n>> \in R)
  BY <1>1, WFMin
<1>3. \A m \in S : ~ (m < n)
  BY <1>2 DEF R
<1> QED BY <1>2, <1>3

\* What the tool replays is a commit made before.
Replayed(log) == \A n \in 1..Len(log) : ~ log[n].hand => log[n].of \in 1..(n - 1)

\* The function inside Untouched, of the first `size` commits of a log.
IsOrigins(g, log, size) ==
  g = [n \in 1..size |-> {n} \union (IF log[n].hand THEN {} ELSE g[log[n].of])]

OriginsIn(log) == CHOOSE g : IsOrigins(g, log, Len(log))

LEMMA UntouchedIs == \A s : Untouched(s) = OriginsIn(commits)[s]
BY DEF Untouched, OriginsIn, IsOrigins

\* There is such a function of every log.
LEMMA OriginsExist ==
  ASSUME NEW log, Len(log) \in Nat, Replayed(log)
  PROVE  \E g : IsOrigins(g, log, Len(log))
<1> DEFINE Missing == {k \in 0..Len(log) : ~ \E g : IsOrigins(g, log, k)}
<1> SUFFICES ASSUME Missing # {} PROVE FALSE
  OBVIOUS
<1>1. PICK k \in Missing : \A j \in Missing : k <= j
  <2>1. Missing \subseteq Nat
    OBVIOUS
  <2> HIDE DEF Missing
  <2> QED BY <2>1, LeastNumber
<1>2. k # 0
  <2>1. IsOrigins([n \in 1..0 |-> {}], log, 0)
    BY DEF IsOrigins
  <2> QED BY <1>1, <2>1
<1>3. k \in 1..Len(log) /\ k - 1 \in 0..Len(log) /\ ~ (k <= k - 1)
  BY <1>1, <1>2
<1>4. PICK g : IsOrigins(g, log, k - 1)
  BY <1>1, <1>3
<1> DEFINE h == [n \in 1..k |-> IF n < k THEN g[n]
                               ELSE {k} \union (IF log[k].hand THEN {} ELSE g[log[k].of])]
<1>5. ASSUME NEW n \in 1..k
      PROVE  h[n] = {n} \union (IF log[n].hand THEN {} ELSE h[log[n].of])
  <2>1. ~ log[n].hand => log[n].of \in 1..(n - 1) /\ log[n].of \in 1..k /\ log[n].of < k
    BY <1>3 DEF Replayed
  <2>2. ~ log[n].hand => h[log[n].of] = g[log[n].of]
    BY <2>1
  <2>3. CASE n = k
    <3>1. h[k] = {k} \union (IF log[k].hand THEN {} ELSE g[log[k].of])
      BY <1>3
    <3> HIDE DEF h
    <3> QED BY <2>2, <2>3, <3>1
  <2>4. CASE n # k
    <3>1. n \in 1..(k - 1) /\ n < k
      BY <1>3, <2>4
    <3>2. g[n] = {n} \union (IF log[n].hand THEN {} ELSE g[log[n].of])
      BY <1>4, <3>1 DEF IsOrigins
    <3> QED BY <2>2, <3>1, <3>2
  <2> QED BY <2>3, <2>4
<1>6. h = [n \in 1..k |-> {n} \union (IF log[n].hand THEN {} ELSE h[log[n].of])]
  <2>1. h = [n \in 1..k |-> h[n]]
    OBVIOUS
  <2> HIDE DEF h
  <2> QED BY <1>5, <2>1
<1> HIDE DEF h
<1>7. IsOrigins(h, log, k)
  BY <1>6 DEF IsOrigins
<1> QED BY <1>1, <1>7

\* So every commit of a log is among its own origins, with those of what it replays.
LEMMA OriginsOf ==
  ASSUME NEW log, Len(log) \in Nat, Replayed(log), NEW n \in 1..Len(log)
  PROVE  OriginsIn(log)[n] = {n} \union (IF log[n].hand THEN {} ELSE OriginsIn(log)[log[n].of])
<1>1. IsOrigins(OriginsIn(log), log, Len(log))
  BY OriginsExist DEF OriginsIn
<1> HIDE DEF OriginsIn
<1> QED BY <1>1 DEF IsOrigins

\* And a longer log gives the commits it had the origins they had.
LEMMA OriginsStay ==
  ASSUME NEW log, NEW longer, Len(log) \in Nat, Len(longer) \in Nat, Len(log) <= Len(longer),
         Replayed(longer), \A n \in 1..Len(log) : longer[n] = log[n]
  PROVE  \A n \in 1..Len(log) : OriginsIn(longer)[n] = OriginsIn(log)[n]
<1> DEFINE Changed == {n \in 1..Len(log) : OriginsIn(longer)[n] # OriginsIn(log)[n]}
<1> SUFFICES ASSUME Changed # {} PROVE FALSE
  OBVIOUS
<1>1. PICK n \in Changed : \A m \in Changed : n <= m
  <2>1. Changed \subseteq Nat
    OBVIOUS
  <2> HIDE DEF Changed
  <2> QED BY <2>1, LeastNumber
<1>2. n \in 1..Len(log) /\ n \in 1..Len(longer) /\ longer[n] = log[n]
  BY <1>1
<1>3. Replayed(log)
  BY <1>2 DEF Replayed
<1>4. /\ OriginsIn(log)[n] = {n} \union (IF log[n].hand THEN {} ELSE OriginsIn(log)[log[n].of])
      /\ OriginsIn(longer)[n] = {n} \union (IF log[n].hand THEN {} ELSE OriginsIn(longer)[log[n].of])
  BY <1>2, <1>3, OriginsOf
<1>5. ~ log[n].hand => log[n].of \in 1..Len(log) /\ ~ (n <= log[n].of)
  BY <1>2, <1>3 DEF Replayed
<1>6. ~ log[n].hand => OriginsIn(longer)[log[n].of] = OriginsIn(log)[log[n].of]
  BY <1>1, <1>5
<1> QED BY <1>1, <1>4, <1>6

-----------------------------------------------------------------------------
\* Links go from a commit to one that replays it.
Joins(joined, log) ==
  \A m, n : <<m, n>> \in joined =>
    m \in 1..Len(log) /\ n \in 1..Len(log) /\ ~ log[n].hand /\ log[n].of = m

\* The function inside Carried, of the first `size` commits and the links `joined`.
IsReached(g, size, joined, from) ==
  g = [n \in 0..size |-> n = from \/ \E m \in 0..(n - 1) : <<m, n>> \in joined /\ g[m]]

ReachedIn(size, joined, from) == CHOOSE g : IsReached(g, size, joined, from)

LEMMA CarriedIs ==
  \A t, from, to : Carried(t, from, to) = ReachedIn(Len(commits), links[t], from)[to]
BY DEF Carried, ReachedIn, IsReached

\* There is such a function too.
LEMMA ReachedExist ==
  ASSUME NEW size \in Nat, NEW joined, NEW from
  PROVE  \E g : IsReached(g, size, joined, from)
<1> DEFINE Missing == {k \in 0..size : ~ \E g : IsReached(g, k, joined, from)}
<1> SUFFICES ASSUME Missing # {} PROVE FALSE
  OBVIOUS
<1>1. PICK k \in Missing : \A j \in Missing : k <= j
  <2>1. Missing \subseteq Nat
    OBVIOUS
  <2> HIDE DEF Missing
  <2> QED BY <2>1, LeastNumber
<1>2. k # 0
  <2> DEFINE g0 == [n \in 0..0 |-> n = from]
  <2>1. \A n \in 0..0 : g0[n] = (n = from \/ \E m \in 0..(n - 1) : <<m, n>> \in joined /\ g0[m])
    <3>1. \A n \in 0..0 : g0[n] = (n = from)
      OBVIOUS
    <3>2. \A n \in 0..0 : ~ \E m \in 0..(n - 1) : <<m, n>> \in joined /\ g0[m]
      <4>1. \A n \in 0..0 : \A m \in 0..(n - 1) : FALSE
        OBVIOUS
      <4> QED BY <4>1, Zenon
    <3> HIDE DEF g0
    <3> QED BY <3>1, <3>2, Zenon
  <2>2. g0 = [n \in 0..0 |-> g0[n]]
    OBVIOUS
  <2> HIDE DEF g0
  <2>3. IsReached(g0, 0, joined, from)
    BY <2>1, <2>2 DEF IsReached
  <2> QED BY <1>1, <2>3
<1>3. k \in 1..size /\ k - 1 \in 0..size /\ ~ (k <= k - 1)
  BY <1>1, <1>2
<1>4. PICK g : IsReached(g, k - 1, joined, from)
  BY <1>1, <1>3
<1> DEFINE h == [n \in 0..k |-> IF n < k THEN g[n]
                               ELSE n = from \/ \E m \in 0..(n - 1) : <<m, n>> \in joined /\ g[m]]
<1>5. ASSUME NEW n \in 0..k
      PROVE  h[n] = (n = from \/ \E m \in 0..(n - 1) : <<m, n>> \in joined /\ h[m])
  <2>1. \A m \in 0..(n - 1) : h[m] = g[m]
    BY <1>3
  <2>2. CASE n = k
    <3>1. h[k] = (k = from \/ \E m \in 0..(k - 1) : <<m, k>> \in joined /\ g[m])
      <4>1. k \in 0..k /\ ~ (k < k)
        BY <1>3
      <4> QED BY <4>1
    <3> HIDE DEF h
    <3> QED BY <2>1, <2>2, <3>1
  <2>3. CASE n # k
    <3>1. n \in 0..(k - 1) /\ n < k
      BY <1>3, <2>3
    <3>2. g[n] = (n = from \/ \E m \in 0..(n - 1) : <<m, n>> \in joined /\ g[m])
      BY <1>4, <3>1 DEF IsReached
    <3> QED BY <2>1, <3>1, <3>2
  <2> QED BY <2>2, <2>3
<1>6. h = [n \in 0..k |-> n = from \/ \E m \in 0..(n - 1) : <<m, n>> \in joined /\ h[m]]
  <2>1. h = [n \in 0..k |-> h[n]]
    OBVIOUS
  <2> HIDE DEF h
  <2> QED BY <1>5, <2>1
<1> HIDE DEF h
<1>7. IsReached(h, k, joined, from)
  BY <1>6 DEF IsReached
<1> QED BY <1>1, <1>7

LEMMA ReachedOf ==
  ASSUME NEW size \in Nat, NEW joined, NEW from, NEW n \in 0..size
  PROVE  ReachedIn(size, joined, from)[n] =
           (n = from \/ \E m \in 0..(n - 1) : <<m, n>> \in joined /\ ReachedIn(size, joined, from)[m])
<1>1. IsReached(ReachedIn(size, joined, from), size, joined, from)
  BY ReachedExist DEF ReachedIn
<1> HIDE DEF ReachedIn
<1> QED BY <1>1 DEF IsReached

\* A chain of links leads only to commits that come from where it starts, replayed.
LEMMA ChainIsUntouched ==
  ASSUME NEW log, Len(log) \in Nat, Replayed(log), NEW joined, Joins(joined, log),
         NEW from, NEW to \in 1..Len(log), ReachedIn(Len(log), joined, from)[to]
  PROVE  from \in OriginsIn(log)[to]
<1> DEFINE Stray == {n \in 1..Len(log) :
                       ReachedIn(Len(log), joined, from)[n] /\ from \notin OriginsIn(log)[n]}
<1> SUFFICES ASSUME to \in Stray PROVE FALSE
  OBVIOUS
<1>1. PICK n \in Stray : \A m \in Stray : n <= m
  <2>1. Stray \subseteq Nat
    OBVIOUS
  <2> HIDE DEF Stray
  <2> QED BY <2>1, LeastNumber
<1>2. /\ n \in 1..Len(log) /\ n \in 0..Len(log) /\ ReachedIn(Len(log), joined, from)[n]
      /\ from \notin OriginsIn(log)[n]
  BY <1>1
<1>3. OriginsIn(log)[n] = {n} \union (IF log[n].hand THEN {} ELSE OriginsIn(log)[log[n].of])
  BY <1>2, OriginsOf
<1>4. n = from \/ \E m \in 0..(n - 1) : <<m, n>> \in joined /\ ReachedIn(Len(log), joined, from)[m]
  BY <1>2, ReachedOf
<1>5. PICK m \in 0..(n - 1) : <<m, n>> \in joined /\ ReachedIn(Len(log), joined, from)[m]
  BY <1>2, <1>3, <1>4
<1>6. m \in 1..Len(log) /\ ~ log[n].hand /\ log[n].of = m /\ ~ (n <= m)
  BY <1>2, <1>5 DEF Joins
<1>7. from \in OriginsIn(log)[m]
  BY <1>1, <1>5, <1>6
<1> QED BY <1>2, <1>3, <1>6, <1>7
-----------------------------------------------------------------------------
(* What landed was reviewed.                                                *)

\* A verdict tells what its commit changes, unless that had landed already.
VerdictSound(v) ==
  /\ v.sha \in DOMAIN commits
  /\ v.diff = commits[v.sha].diff \/ v.sha \in Landed(Len(main))

\* The tool replays what was there before, and records no other links.
LogSound ==
  /\ Replayed(commits)
  /\ \A t \in Trees : Joins(links[t], commits)
  /\ \A t \in Trees : \A v \in verdicts[t] : VerdictSound(v)

\* One of the verdicts `given` is on an origin of the commit and on the same change.
Reviewed(given, log, s) ==
  \E v \in given : v.sha \in OriginsIn(log)[s] /\ v.diff = log[s].diff

\* So it is of a tree between its review and its push, and of all that landed.
ReviewSound ==
  /\ \A t \in Trees : pc[t] \in {"reviewed", "gated"} => Reviewed(verdicts[t], commits, head[t])
  /\ \A i \in DOMAIN main : Reviewed(verdicts[OwnerOf(i)], commits, main[i].sha)

RInv == LogSound /\ (HandsOff => ReviewSound)

\* More verdicts, and more commits, leave what was reviewed reviewed.
LEMMA ReviewedStays ==
  ASSUME NEW given, NEW later, NEW log, NEW longer, NEW s \in 1..Len(log), Reviewed(given, log, s),
         given \subseteq later,
         OriginsIn(longer)[s] = OriginsIn(log)[s], longer[s] = log[s]
  PROVE  Reviewed(later, longer, s)
BY DEF Reviewed

\* A new commit, by hand or by a replay, with its link or without.
LEMMA MakeReview ==
  ASSUME TypeOK, HeadSound, RunSound, RInv, NEW t \in Trees, NEW onto \in Nat, NEW diff \in Diffs,
         NEW of \in Nat, NEW hand \in BOOLEAN, Make(t, onto, diff, of, hand),
         ~ hand => of \in DOMAIN commits,
         UNCHANGED <<main, verdicts>>,
         \/ links' = links
         \/ ~ hand /\ links' = [links EXCEPT ![t] = @ \union {<<of, Len(commits')>>}],
         \A u \in Trees : u # t => pc'[u] = pc[u],
         HandsOff => pc'[t] \notin {"reviewed", "gated"}
  PROVE  RInv'
<1> DEFINE c == [tree |-> t, onto |-> onto, diff |-> diff, of |-> of, hand |-> hand]
<1>1. /\ commits \in Seq(Commits) /\ Len(commits) \in Nat /\ DOMAIN commits = 1..Len(commits)
      /\ links \in [Trees -> SUBSET (Nat \X Nat)]
  BY DEF TypeOK
<1>2. c \in Commits /\ c.hand = hand /\ c.of = of
  BY DEF Commits
<1>3. commits' = Append(commits, c)
  BY DEF Make
<1> HIDE DEF c
<1>4. /\ Len(commits') = Len(commits) + 1 /\ DOMAIN commits' = 1..Len(commits')
      /\ \A n \in 1..Len(commits) : commits'[n] = commits[n]
      /\ commits'[Len(commits) + 1] = c
  BY <1>1, <1>2, <1>3, AppendProperties
<1>5. \A u \in Trees \ {t} : head'[u] = head[u]
  BY DEF Make, TypeOK
<1>6. LogSound
  BY DEF RInv
<1>7. Replayed(commits')
  <2> SUFFICES ASSUME NEW n \in 1..Len(commits'), ~ commits'[n].hand
               PROVE  commits'[n].of \in 1..(n - 1)
    BY DEF Replayed
  <2>1. CASE n \in 1..Len(commits)
    BY <1>4, <1>6, <2>1 DEF LogSound, Replayed
  <2>2. CASE n = Len(commits) + 1
    BY <1>1, <1>2, <1>4, <2>2
  <2> QED BY <1>1, <1>4, <2>1, <2>2
<1>8. ASSUME NEW u \in Trees PROVE Joins(links'[u], commits')
  <2>1. ASSUME NEW m, NEW n, <<m, n>> \in links'[u]
        PROVE  <<m, n>> \in links[u] \/ (~ hand /\ m = of /\ n = Len(commits) + 1)
    BY <1>1, <1>4, <2>1
  <2>2. ASSUME NEW m, NEW n, <<m, n>> \in links[u]
        PROVE  m \in 1..Len(commits) /\ n \in 1..Len(commits) /\ ~ commits[n].hand /\ commits[n].of = m
    BY <1>6, <2>2 DEF LogSound, Joins
  <2>3. ASSUME NEW m, NEW n, <<m, n>> \in links'[u]
        PROVE  m \in 1..Len(commits') /\ n \in 1..Len(commits') /\ ~ commits'[n].hand
               /\ commits'[n].of = m
    <3>1. CASE <<m, n>> \in links[u]
      BY <1>1, <1>4, <2>2, <3>1
    <3>2. CASE ~ hand /\ m = of /\ n = Len(commits) + 1
      BY <1>1, <1>2, <1>4, <3>2
    <3> QED BY <2>1, <2>3, <3>1, <3>2
  <2> QED BY <2>3 DEF Joins
<1>9. \A s : s \in Landed(Len(main))' <=> s \in Landed(Len(main))
  BY DEF Landed
<1>10. LogSound'
  <2>1. ASSUME NEW u \in Trees, NEW v \in verdicts'[u]
        PROVE  /\ v.sha \in DOMAIN commits'
               /\ v.diff = commits'[v.sha].diff \/ v.sha \in Landed(Len(main))'
    BY <1>1, <1>4, <1>6, <1>9, <2>1 DEF LogSound, VerdictSound
  <2> QED BY <1>7, <1>8, <2>1 DEF LogSound, VerdictSound
<1>11. \A n \in 1..Len(commits) : OriginsIn(commits')[n] = OriginsIn(commits)[n]
  <2>1. Len(commits) \in Nat /\ Len(commits') \in Nat /\ Len(commits) <= Len(commits')
    BY <1>1, <1>4
  <2> QED BY <1>4, <1>7, <2>1, OriginsStay
<1>12. ASSUME NEW n \in 1..Len(commits), NEW u \in Trees, Reviewed(verdicts[u], commits, n)
       PROVE  Reviewed(verdicts'[u], commits', n)
  BY <1>4, <1>11, <1>12, ReviewedStays
<1>13. ASSUME HandsOff PROVE ReviewSound'
  <2>1. ASSUME NEW u \in Trees, pc'[u] \in {"reviewed", "gated"}
        PROVE  Reviewed(verdicts'[u], commits', head'[u])
    <3>1. u # t /\ pc[u] = pc'[u] /\ head'[u] = head[u]
      BY <1>5, <1>13, <2>1
    <3>2. Reviewed(verdicts[u], commits, head[u])
      BY <1>13, <2>1, <3>1 DEF RInv, ReviewSound
    <3>3. head[u] \in 1..Len(commits)
      BY <1>1, <2>1, <3>1 DEF HeadSound, RunSound, Landed
    <3> QED BY <1>12, <3>1, <3>2, <3>3
  <2>2. ASSUME NEW i \in DOMAIN main' PROVE Reviewed(verdicts'[OwnerOf(i)'], commits', main'[i].sha)
    <3>1. main[i].sha \in 1..Len(commits) /\ OwnerOf(i)' = OwnerOf(i) /\ OwnerOf(i) \in Trees
      <4>1. main[i].sha \in 1..Len(commits)
        BY <1>1, <2>2 DEF HeadSound
      <4>2. commits[main[i].sha] \in Commits
        BY <1>1, <4>1
      <4> QED BY <1>4, <4>1, <4>2 DEF OwnerOf, Commits
    <3>2. Reviewed(verdicts[OwnerOf(i)], commits, main[i].sha)
      BY <1>13, <2>2 DEF RInv, ReviewSound
    <3> QED BY <1>12, <3>1, <3>2
  <2> QED BY <2>1, <2>2 DEF ReviewSound
<1> QED BY <1>10, <1>13 DEF RInv

\* A step that makes no commit and lands nothing: a verdict more, or a landing that goes
\* on to its push with a verdict, or ends.
LEMMA RestReview ==
  ASSUME RInv, UNCHANGED <<commits, main, head, links>>,
         \A t \in Trees : verdicts[t] \subseteq verdicts'[t],
         \A t \in Trees : \A v \in verdicts'[t] : v \in verdicts[t] \/ VerdictSound(v),
         HandsOff => \A t \in Trees : pc'[t] \in {"reviewed", "gated"} =>
           pc[t] \in {"reviewed", "gated"} \/ Reviewed(verdicts[t], commits, head[t]),
         \A i \in DOMAIN main : OwnerOf(i) \in Trees
  PROVE  RInv'
<1>1. Landed(Len(main))' = Landed(Len(main)) /\ \A i \in DOMAIN main : OwnerOf(i)' = OwnerOf(i)
  BY DEF Landed, OwnerOf
<1>2. LogSound'
  <2>1. ASSUME NEW t \in Trees, NEW v \in verdicts'[t]
        PROVE  /\ v.sha \in DOMAIN commits'
               /\ v.diff = commits'[v.sha].diff \/ v.sha \in Landed(Len(main))'
    BY <1>1, <2>1 DEF RInv, LogSound, VerdictSound
  <2> QED BY <2>1 DEF RInv, LogSound, VerdictSound
<1>3. ASSUME NEW t \in Trees, NEW s, Reviewed(verdicts[t], commits, s)
      PROVE  Reviewed(verdicts'[t], commits', s)
  BY <1>3 DEF Reviewed
<1>4. ASSUME HandsOff PROVE ReviewSound'
  <2>1. ASSUME NEW t \in Trees, pc'[t] \in {"reviewed", "gated"}
        PROVE  Reviewed(verdicts'[t], commits', head'[t])
    BY <1>3, <1>4, <2>1 DEF RInv, ReviewSound
  <2>2. ASSUME NEW i \in DOMAIN main' PROVE Reviewed(verdicts'[OwnerOf(i)'], commits', main'[i].sha)
    BY <1>1, <1>3, <1>4, <2>2 DEF RInv, ReviewSound
  <2> QED BY <2>1, <2>2 DEF ReviewSound
<1> QED BY <1>2, <1>4 DEF RInv

\* The verdict that clears the review rung is on an origin of the commit it clears.
LEMMA BindingIsReviewed ==
  ASSUME TypeOK, HeadSound, LogSound, NEW t \in Trees, head[t] \notin Landed(Len(main)),
         NEW v \in BoundVerdict(t, head[t])
  PROVE  Reviewed(verdicts[t], commits, head[t])
<1> DEFINE s == head[t]
<1>1. v \in verdicts[t] /\ Satisfies(t, v, s)
  BY DEF BoundVerdict, First
<1>2. s \in 1..Len(commits) /\ Len(commits) \in Nat
  BY DEF HeadSound, TypeOK, Landed
<1>3. Replayed(commits) /\ Joins(links[t], commits)
  BY DEF LogSound
<1>4. DiffId(s) = commits[s].diff
  BY DEF DiffId, HeadSound
<1>5. CASE v.sha = s
  <2>1. s \in OriginsIn(commits)[s]
    BY <1>2, <1>3, OriginsOf
  <2>2. v.diff = commits[s].diff
    BY <1>1, <1>5 DEF LogSound, VerdictSound
  <2> QED BY <1>1, <1>5, <2>1, <2>2 DEF Reviewed
<1>6. CASE v.sha # s
  <2>1. Carried(t, v.sha, s) /\ v.diff = DiffId(s)
    BY <1>1, <1>6 DEF Satisfies
  <2>2. ReachedIn(Len(commits), links[t], v.sha)[s]
    BY <2>1, CarriedIs
  <2>3. v.sha \in OriginsIn(commits)[s]
    BY <1>2, <1>3, <2>2, ChainIsUntouched
  <2> QED BY <1>1, <1>4, <2>1, <2>3 DEF Reviewed
<1> QED BY <1>5, <1>6

\* Every step keeps what is known of the verdicts and of what landed on them.
LEMMA ReviewStep ==
  ASSUME TypeOK, TreeInv, RInv, Next
  PROVE  RInv'
<1>0. /\ HeadSound /\ RunSound /\ base = Len(main) /\ Len(main) \in Nat
      /\ head \in [Trees -> Nat] /\ DOMAIN main = 1..Len(main) /\ DOMAIN commits = 1..Len(commits)
      /\ pc \in [Trees -> Stages] /\ verdicts \in [Trees -> SUBSET Verdicts]
  BY DEF TreeInv, HeadSound, TypeOK, Stages
<1>1. \A t \in Trees : head[t] \notin Landed(Len(main)) => head[t] \in DOMAIN commits
  BY <1>0 DEF HeadSound, Landed
<1>2. \A i \in DOMAIN main : OwnerOf(i) \in Trees
  <2>1. \A i \in DOMAIN main : commits[main[i].sha] \in Commits
    BY <1>0 DEF HeadSound, TypeOK
  <2> QED BY <2>1 DEF OwnerOf, Commits
<1>3. ASSUME NEW t \in Trees, Commit(t) PROVE RInv'
  <2>1. Onto(head[t]) \in Nat
    BY <1>0, OntoType DEF HeadSound
  <2>2. PICK d \in Diffs : Make(t, Onto(head[t]), d, 0, TRUE)
    BY <1>3 DEF Commit
  <2>3. UNCHANGED <<main, verdicts, links, pc>> /\ (HandsOff => pc[t] = "idle")
    BY <1>3 DEF Commit, Free, landing, records
  <2> QED BY <1>0, <2>1, <2>2, <2>3, MakeReview
<1>4. ASSUME NEW t \in Trees, Resolve(t) PROVE RInv'
  <2>1. rebasing[t] \in Nat
    BY <1>4 DEF Resolve, TypeOK
  <2>2. PICK d \in Diffs : Make(t, rebasing[t], d, head[t], TRUE)
    BY <1>4 DEF Resolve
  <2>3. UNCHANGED <<main, verdicts, links, pc>> /\ (HandsOff => pc[t] = "idle")
    BY <1>4 DEF Resolve, Free, landing, records
  <2> QED BY <1>0, <2>1, <2>2, <2>3, MakeReview
<1>5. ASSUME NEW t \in Trees, NEW onto \in Nat, Replay(t, onto), head[t] \in DOMAIN commits,
             UNCHANGED <<main, verdicts>>, \A u \in Trees : u # t => pc'[u] = pc[u],
             pc'[t] \notin {"reviewed", "gated"}
      PROVE  RInv'
  <2>1. PICK d \in Diffs : Make(t, onto, d, head[t], FALSE)
    BY <1>5 DEF Replay
  <2>2. \/ links' = links
        \/ links' = [links EXCEPT ![t] = @ \union {<<head[t], Len(commits')>>}]
    BY <1>5 DEF Replay
  <2> QED BY <1>0, <1>5, <2>1, <2>2, MakeReview
<1>6. ASSUME UNCHANGED <<commits, main, head, links, verdicts>>,
             \A u \in Trees : pc'[u] \in {"reviewed", "gated"} => pc[u] \in {"reviewed", "gated"}
      PROVE  RInv'
  BY <1>2, <1>6, RestReview
<1>7. ASSUME NEW t \in Trees, Stage(t) PROVE RInv'
  <2>1. base' = Len(main) /\ pc[t] = "idle" /\ UNCHANGED <<main, verdicts, pc>>
        /\ head[t] \notin Landed(base')
    BY <1>7 DEF Stage, landing
  <2>2. CASE UNCHANGED <<commits, head, links>>
    BY <1>6, <2>1, <2>2
  <2>3. CASE Replay(t, base')
    BY <1>0, <1>1, <1>5, <2>1, <2>3
  <2> QED BY <1>7, <2>2, <2>3 DEF Stage, Stop
<1>8. ASSUME NEW t \in Trees, Rebase(t) PROVE RInv'
  <2>1. pc[t] = "fetched" /\ UNCHANGED <<main, base, verdicts>>
        /\ \E at \in {"rebased", "idle"} : pc' = [pc EXCEPT ![t] = at]
    BY <1>8 DEF Rebase, Goto
  <2>2. pc'[t] \in {"rebased", "idle"} /\ \A u \in Trees : u # t => pc'[u] = pc[u]
    BY <1>0, <2>1
  <2>3. head[t] \in DOMAIN commits
    BY <1>0, <1>1, <2>1 DEF RunSound
  <2>4. CASE UNCHANGED <<commits, head, links>>
    BY <1>6, <2>1, <2>2, <2>4
  <2>5. CASE Replay(t, base)
    BY <1>0, <1>5, <2>1, <2>2, <2>3, <2>5
  <2> QED BY <1>8, <2>4, <2>5 DEF Rebase, Stop
<1>9. ASSUME NEW t \in Trees, Review(t) PROVE RInv'
  <2>1. PICK s \in DOMAIN commits, found \in Gradings, rank \in Ranks(t) :
          verdicts' = [verdicts EXCEPT ![t] = @ \union
             {[sha |-> s, diff |-> DiffId(s), found |-> found, rank |-> rank]}]
    BY <1>9 DEF Review
  <2> DEFINE v == [sha |-> s, diff |-> DiffId(s), found |-> found, rank |-> rank]
  <2>2. VerdictSound(v)
    BY <1>0 DEF VerdictSound, DiffId
  <2>3. verdicts' = [verdicts EXCEPT ![t] = verdicts[t] \union {v}]
    BY <2>1
  <2> HIDE DEF v
  <2>4. \A u \in Trees : verdicts'[u] = verdicts[u] \/ verdicts'[u] = verdicts[u] \union {v}
    BY <1>0, <2>3
  <2>5. UNCHANGED <<commits, main, head, links, pc>>
    BY <1>9 DEF Review, repository, landing
  <2> QED BY <1>2, <2>2, <2>4, <2>5, RestReview
<1>10. ASSUME NEW t \in Trees, ReviewRung(t) PROVE RInv'
  <2>1. UNCHANGED <<commits, main, head, links, verdicts>> /\ pc[t] = "rebased"
    BY <1>10 DEF ReviewRung, repository, records
  <2>2. CASE Done(t)
    <3>1. \A u \in Trees : pc'[u] = "idle" \/ pc'[u] = pc[u]
      BY <1>0, <2>2 DEF Done, Goto
    <3> QED BY <1>6, <2>1, <3>1
  <2>3. ASSUME NEW v \in BoundVerdict(t, head[t]), Goto(t, "reviewed") PROVE RInv'
    <3>1. head[t] \notin Landed(Len(main))
      BY <1>0, <2>1 DEF RunSound
    <3>2. Reviewed(verdicts[t], commits, head[t])
      BY <1>0, <3>1, BindingIsReviewed DEF RInv
    <3>3. \A u \in Trees : u # t => pc'[u] = pc[u]
      BY <1>0, <2>3 DEF Goto
    <3> QED BY <1>2, <2>1, <3>2, <3>3, RestReview
  <2> QED BY <1>10, <2>2, <2>3 DEF ReviewRung
<1>11. ASSUME NEW t \in Trees,
              Abort(t) \/ Begin(t) \/ Gate(t) \/ Refuse(t) \/ Merge(t) \/ Close(t)
       PROVE  RInv'
  <2>1. UNCHANGED <<commits, main, head, links, verdicts>>
    BY <1>11 DEF Abort, Begin, Gate, Refuse, Merge, Close, repository, records
  <2>2. \/ pc' = pc
        \/ pc[t] = "reviewed" /\ pc' = [pc EXCEPT ![t] = "gated"]
        \/ \E at \in {"idle", "fetched", "pushed", "merged"} : pc' = [pc EXCEPT ![t] = at]
    BY <1>11 DEF Abort, Begin, Gate, Refuse, Merge, Close, Done, Goto, landing
  <2>3. \A u \in Trees : pc'[u] \in {"reviewed", "gated"} => pc[u] \in {"reviewed", "gated"}
    BY <1>0, <2>2
  <2> QED BY <1>6, <2>1, <2>3
<1>12. ASSUME NEW t \in Trees, Push(t) PROVE RInv'
  <2>1. CASE Onto(head[t]) # Len(main)
    <3>1. UNCHANGED <<commits, main, head, links, verdicts>>
          /\ \A u \in Trees : pc'[u] = "idle" \/ pc'[u] = pc[u]
      BY <1>0, <1>12, <2>1 DEF Push, Done, Goto, records
    <3> QED BY <1>6, <3>1
  <2>2. CASE Onto(head[t]) = Len(main)
    <3> DEFINE e == [sha |-> head[t], verdict |-> clearing[t], gated |-> green[t]]
    <3>1. /\ pc[t] = "gated" /\ main' = Append(main, e)
          /\ pc' = [pc EXCEPT ![t] = "pushed"]
          /\ UNCHANGED <<commits, head, links, verdicts>>
      BY <1>12, <2>2 DEF Push, Goto, records
    <3>2. /\ DOMAIN main' = 1..(Len(main) + 1) /\ main'[Len(main) + 1].sha = head[t]
          /\ Len(main') = Len(main) + 1
          /\ \A i \in DOMAIN main : main'[i] = main[i]
      BY <1>0, <3>1 DEF TypeOK
    <3>3. commits[head[t]].tree = t
      BY <1>0, <3>1 DEF RunSound, Landed, HeadSound
    <3>4. \A s : s \in Landed(Len(main)) => s \in Landed(Len(main))'
      BY <1>0, <3>2 DEF Landed
    <3>5. LogSound'
      <4>1. ASSUME NEW u \in Trees, NEW v \in verdicts'[u]
            PROVE  /\ v.sha \in DOMAIN commits'
                   /\ v.diff = commits'[v.sha].diff \/ v.sha \in Landed(Len(main))'
        BY <3>1, <3>4, <4>1 DEF RInv, LogSound, VerdictSound
      <4> QED BY <3>1, <4>1 DEF RInv, LogSound, VerdictSound
    <3>6. ASSUME HandsOff PROVE ReviewSound'
      <4>1. \A u \in Trees : pc'[u] \in {"reviewed", "gated"} => pc[u] \in {"reviewed", "gated"}
        BY <1>0, <3>1
      <4>2. ASSUME NEW i \in DOMAIN main' PROVE Reviewed(verdicts'[OwnerOf(i)'], commits', main'[i].sha)
        <5>1. CASE i \in DOMAIN main
          BY <3>1, <3>2, <3>6, <5>1 DEF RInv, ReviewSound, OwnerOf
        <5>2. CASE i = Len(main) + 1
          BY <3>1, <3>2, <3>3, <3>6, <5>2 DEF RInv, ReviewSound, OwnerOf
        <5> QED BY <1>0, <3>2, <5>1, <5>2
      <4> QED BY <3>1, <3>6, <4>1, <4>2 DEF RInv, ReviewSound
    <3> QED BY <3>5, <3>6 DEF RInv
  <2> QED BY <2>1, <2>2
<1>13. ASSUME NEW w \in Writers, Writer(w) PROVE RInv'
  BY <1>6, <1>13, WriterRest DEF repository, landing
<1> QED BY <1>3, <1>4, <1>7, <1>8, <1>9, <1>10, <1>11, <1>12, <1>13 DEF Next, Lander

\* What landed was reviewed, if nobody works in a tree while it lands: the very commit, or
\* one that the tool alone made of it and that changes the same lines, however many
\* rebases, landings of others and conflicts resolved by hand came in between.
THEOREM ReviewedPushes == Spec => [](HandsOff => PushedWasReviewed)
<1>1. Init => RInv
  <2> SUFFICES ASSUME Init PROVE RInv
    OBVIOUS
  <2>1. Len(commits) = 0 /\ DOMAIN main = {} /\ \A t \in Trees : links[t] = {} /\ verdicts[t] = {}
        /\ pc[t] = "idle"
    BY DEF Init
  <2>2. Replayed(commits) /\ \A t \in Trees : Joins(links[t], commits)
    BY <2>1 DEF Replayed, Joins
  <2> QED BY <2>1, <2>2 DEF RInv, LogSound, ReviewSound
<1>2. IInv /\ RInv /\ [Next]_vars => RInv'
  <2> SUFFICES ASSUME IInv, RInv, [Next]_vars PROVE RInv'
    OBVIOUS
  <2>1. CASE Next
    BY <2>1, ReviewStep DEF IInv, TreeInv
  <2>2. CASE UNCHANGED vars
    <3>1. UNCHANGED <<commits, main, head, links, verdicts, pc>>
      BY <2>2 DEF vars, repository, landing, records
    <3> QED BY <3>1 DEF RInv, LogSound, VerdictSound, ReviewSound, Landed, OwnerOf
  <2> QED BY <2>1, <2>2
<1>3. RInv => (HandsOff => PushedWasReviewed)
  BY UntouchedIs DEF RInv, ReviewSound, Reviewed, PushedWasReviewed
<1> QED BY <1>1, <1>2, <1>3, Invariant, PTL DEF Spec
=============================================================================
