------------------------ MODULE SquadLifecycle_proofs ------------------------
(***************************************************************************)
(* What is proved of SquadLifecycle for any players, seats and bounds: who  *)
(* leads what, which group answers to which id, and that a Squad on its way *)
(* is not taken for lost.                                                   *)
(***************************************************************************)
EXTENDS SquadLifecycle, SequenceTheorems, FiniteSetTheorems, TLAPS

\* The ids a queued Effect of one kind is about.
Queued(name) == {outbox[k].squad : k \in {n \in DOMAIN outbox : outbox[n].effect = name}}

\* A Squad was bought, and its group is its own; or it is a player's, and its group is
\* one the engine put a player in.  Nothing makes one into the other.
Bought   == {i \in Ids : registered[i] \in Ids} \union Queued("squad_spawned")
OfPlayer == {i \in roster : squad[i].led # None} \union {i \in Ids : registered[i] \in Seats}
              \union Queued("squad_enrolled")

KindSound ==
  /\ Bought \intersect OfPlayer = {}
  /\ \A k \in DOMAIN outbox : outbox[k].squad \in 1..minted
  /\ \A i \in Ids : registered[i] # None => i \in 1..minted
  /\ \A i \in Ids : registered[i] \in Ids => registered[i] = i
  /\ \A p \in Players : seat[p] \in Seats \union {None}

\* The bound on what a report says of a Squad: one player sits at most.
SeatSound ==
  /\ \A p, q \in Players : seat[p] # None /\ seat[q] # None => p = q
  /\ \A g \in Groups : bodies[g] <= deaths

\* A Squad is bought once, and until its men stand nothing is known of it.
OnItsWay(i) ==
  \E k \in (carried + 1)..Len(outbox) : outbox[k].effect = "squad_spawned" /\ outbox[k].squad = i

WaySound ==
  /\ \A k, n \in DOMAIN outbox :
       (outbox[k].effect = "squad_spawned" /\ outbox[n].effect = "squad_spawned"
          /\ outbox[k].squad = outbox[n].squad) => k = n
  /\ \A i \in Ids : report.seen[i] # 0 => i \in 1..minted
  /\ \A i \in Ids : OnItsWay(i) =>
       /\ registered[i] = None /\ report.seen[i] = 0
       /\ i \in roster => ~ squad[i].fielded

IInv == /\ TypeOK /\ KindSound /\ SeatSound /\ WaySound
        /\ OneSquadPerPlayer /\ OneIdPerGroup
-----------------------------------------------------------------------------
(* Queues, groups and reports.                                               *)

LEMMA Constants ==
  /\ Full \in Nat /\ Full >= 2 /\ MaxSquads \in Nat /\ MaxQueued \in Nat /\ MaxDeaths \in Nat
  /\ MaxReturns \in Nat /\ MaxLost \in Nat
  /\ IsFiniteSet(Players) /\ None \notin Players /\ None \notin Groups
  /\ Seats \intersect Ids = {} /\ Ids \subseteq Groups /\ Seats \subseteq Groups
BY LifecycleAssumption DEF Groups, Ids

\* An Effect pushed is the last of the queue, and the others stay where they are.
LEMMA Pushed ==
  ASSUME TypeOK, NEW e \in Effect, Push(e)
  PROVE  /\ outbox' \in Seq(Effect) /\ Len(outbox') = Len(outbox) + 1
         /\ DOMAIN outbox = 1..Len(outbox) /\ DOMAIN outbox' = 1..(Len(outbox) + 1)
         /\ \A k \in 1..Len(outbox) : outbox'[k] = outbox[k]
         /\ outbox'[Len(outbox) + 1] = e
         /\ batch' = batch /\ drained' = drained /\ carried' = carried
BY DEF TypeOK, Push, drain

\* An acknowledgement takes the first Effects off the queue.
LEMMA Acknowledged ==
  ASSUME TypeOK, Acknowledge
  PROVE  /\ outbox' \in Seq(Effect) /\ Len(outbox') = Len(outbox) - batch
         /\ DOMAIN outbox = 1..Len(outbox) /\ DOMAIN outbox' = 1..(Len(outbox) - batch)
         /\ \A k \in DOMAIN outbox' :
              outbox'[k] = outbox[k + batch] /\ k + batch \in DOMAIN outbox
         /\ batch \in Nat /\ batch <= carried /\ carried <= Len(outbox)
<1>1. batch \in 1..Len(outbox) /\ outbox \in Seq(Effect) /\ batch <= carried
      /\ carried \in 0..Len(outbox)
  BY DEF TypeOK, Acknowledge
<1>2. outbox' = SubSeq(outbox, batch + 1, Len(outbox))
  BY DEF Acknowledge
<1>3. \A k \in (batch + 1)..Len(outbox) : outbox[k] \in Effect
  BY <1>1
<1>4. /\ outbox' \in Seq(Effect)
      /\ Len(outbox') = IF batch + 1 <= Len(outbox) THEN Len(outbox) - (batch + 1) + 1 ELSE 0
      /\ \A k \in 1..(Len(outbox) - (batch + 1) + 1) : outbox'[k] = outbox[batch + 1 + k - 1]
  BY <1>1, <1>2, <1>3, SubSeqProperties
<1>5. Len(outbox') = Len(outbox) - batch
  BY <1>1, <1>4
<1>6. \A k \in 1..(Len(outbox) - batch) :
        outbox'[k] = outbox[k + batch] /\ k + batch \in 1..Len(outbox)
  BY <1>1, <1>4
<1> QED BY <1>1, <1>4, <1>5, <1>6

\* How many players sit in a group.
LEMMA Sitting ==
  ASSUME NEW s, NEW g
  PROVE  Cardinality({p \in Players : s[p] = g}) \in Nat
<1>1. IsFiniteSet({p \in Players : s[p] = g})
  BY Constants, FS_Subset
<1> QED BY <1>1, FS_CardinalityType

\* A group counts at least its living.
LEMMA CountsTheLiving ==
  ASSUME TypeOK, NEW g \in Groups
  PROVE  Units(g) \in Nat /\ Units(g) >= men[g] /\ Owed(g) \in Nat /\ men[g] + Owed(g) <= Full
<1>1. Cardinality({p \in Players : seat[p] = g}) \in Nat
  BY Sitting
<1>2. men[g] \in Nat /\ bodies[g] \in Nat /\ men[g] <= Full
  BY Constants DEF TypeOK
<1>3. Units(g) \in Nat /\ Units(g) >= men[g]
  BY <1>1, <1>2 DEF Units, Count
<1> QED BY <1>2, <1>3, Constants DEF Owed

\* What is sampled of a group: one player sits at most.
LEMMA LivingBound ==
  ASSUME TypeOK, SeatSound, NEW g \in Groups
  PROVE  Living(g) \in 0..(2 * Full)
<1> DEFINE S == {p \in alive : seat[p] = g}
<1>1. S \subseteq Players /\ IsFiniteSet(S)
  BY Constants, FS_Subset DEF TypeOK
<1>2. \A p, q \in S : p = q
  BY <1>1, Constants DEF SeatSound
<1>3. Cardinality(S) = 0 \/ Cardinality(S) = 1
  <2>1. CASE S = {}
    BY <2>1, FS_EmptySet
  <2>2. CASE S # {}
    <3>1. PICK p \in S : S = {p}
      BY <1>2, <2>2
    <3> QED BY <3>1, FS_Singleton
  <2> QED BY <2>1, <2>2
<1>4. men[g] \in Nat /\ men[g] <= Full
  BY Constants DEF TypeOK
<1> QED BY <1>3, <1>4, Constants DEF Living

\* What a step may do to the group that answers to an id when groups are collected.
LEMMA Collected ==
  ASSUME NEW named, NEW tagged, Collect(named, tagged)
  PROVE  /\ \A i \in Ids : registered'[i] = named[i] \/ registered'[i] = None
         /\ typed' \subseteq tagged
         /\ registered' = [i \in Ids |-> registered'[i]]
         /\ \A i \in Ids : named[i] # None /\ Count(men', bodies', seat', named[i]) > 0
                             => registered'[i] = named[i]
BY DEF Collect
-----------------------------------------------------------------------------
(* What a report does to the roster.                                         *)

\* A claim brings a player a new Squad, or news of the one he has, or nothing.
Enrolment(kept, p, i) ==
  /\ i \in Ids
  /\ \/ /\ i = minted + 1 /\ minted' = i /\ roster' = kept \union {i}
        /\ LedBy(p, kept) = {} /\ squad'[i] = Shell(p)
     \/ /\ i \in kept /\ squad[i].led = p /\ UNCHANGED minted /\ roster' = kept
  /\ Push(Say("squad_enrolled", i, p))

\* What is written into a Squad's entry is a Squad.
LEMMA HeldType ==
  ASSUME NEW q \in Squad, NEW n \in 0..(2 * Full), NEW h \in BOOLEAN
  PROVE  LET e == [q EXCEPT !.size = n, !.home = h, !.fielded = TRUE]
         IN  e \in Squad /\ e.led = q.led
BY DEF Squad

LEMMA ShellType == Blank \in Squad /\ \A p \in Players : Shell(p) \in Squad
<1>1. 0 \in 0..(2 * Full) /\ 1 \in 0..(2 * Full)
  BY Constants
<1>2. Blank \in Squad
  BY <1>1 DEF Blank, Squad
<1>3. ASSUME NEW p \in Players PROVE Shell(p) \in Squad
  BY <1>1 DEF Blank, Shell, Squad
<1> QED BY <1>2, <1>3

LEMMA LedType ==
  ASSUME TypeOK, NEW i \in Ids, NEW q \in Squad
  PROVE  LET l == Led(i, q, report.claimed)
         IN  l \in Squad /\ l.led = q.led /\ l.fielded = q.fielded
<1>1. 0 \in 0..(2 * Full) /\ 1 \in 0..(2 * Full)
  BY Constants
<1>2. Led(i, q, report.claimed) \in {q, [q EXCEPT !.suspended = TRUE, !.size = 0],
        [q EXCEPT !.suspended = FALSE, !.size = 1, !.home = TRUE]}
  BY DEF Led
<1>3. ASSUME NEW l \in {q, [q EXCEPT !.suspended = TRUE, !.size = 0],
                        [q EXCEPT !.suspended = FALSE, !.size = 1, !.home = TRUE]}
      PROVE  l \in Squad /\ l.led = q.led /\ l.fielded = q.fielded
  BY <1>1 DEF Squad
<1> QED BY <1>2, <1>3

LEMMA FoldDoes ==
  ASSUME TypeOK, Fold
  PROVE  LET kept == roster \ Lost(report.seen)
         IN  /\ \/ \E p \in Players : \E i \in Ids : Enrolment(kept, p, i)
                \/ UNCHANGED <<minted, queue>> /\ roster' = kept
             /\ squad' \in [Ids -> Squad]
             /\ \A i \in kept : /\ squad'[i].led = squad[i].led
                                /\ squad'[i].fielded => squad[i].fielded \/ report.seen[i] # 0
             /\ leading' \subseteq Players /\ report' = NoReport
             /\ UNCHANGED <<world, occupied, bounds>>
<1> DEFINE kept == roster \ Lost(report.seen)
<1>1. PICK home \in [Ids -> BOOLEAN] :
       LET told(i)  == IF i \notin kept THEN Blank
                       ELSE Led(i, IF report.seen[i] > 0
                                   THEN Held(i, report.seen[i], home[i])
                                   ELSE squad[i], report.claimed)
           arrivals == {p \in report.claimed : Arrives(p, kept)}
           fresh    == {p \in arrivals : Enrols(p, kept)}
       IN  /\ \A i \in Ids : (i \notin kept \/ report.seen[i] = 0) => ~home[i]
           /\ fresh # {} => minted < MaxSquads
           /\ leading' = (leading \union arrivals) \intersect report.claimed
           /\ IF fresh # {}
              THEN \E p \in fresh :
                     /\ minted' = minted + 1
                     /\ roster' = kept \union {minted + 1}
                     /\ squad' = [i \in Ids |-> IF i = minted + 1 THEN Shell(p) ELSE told(i)]
                     /\ Push(Say("squad_enrolled", minted + 1, p))
              ELSE /\ UNCHANGED minted
                   /\ roster' = kept
                   /\ squad' = [i \in Ids |-> told(i)]
                   /\ IF arrivals = {} THEN UNCHANGED queue
                      ELSE \E p \in arrivals : \E i \in LedBy(p, kept) :
                             Push(Say("squad_enrolled", i, p))
  BY DEF Fold
<1> DEFINE seenOf(i) == IF report.seen[i] > 0 THEN Held(i, report.seen[i], home[i]) ELSE squad[i]
           told(i)   == IF i \notin kept THEN Blank ELSE Led(i, seenOf(i), report.claimed)
           arrivals  == {p \in report.claimed : Arrives(p, kept)}
           fresh     == {p \in arrivals : Enrols(p, kept)}
<1>2. report.claimed \subseteq Players /\ (\A i \in Ids : report.seen[i] \in 0..(2 * Full))
  BY DEF TypeOK
<1>3. kept \subseteq 1..minted /\ minted \in Nat /\ minted <= MaxSquads /\ kept \subseteq Ids
  <2>1. minted \in 0..MaxSquads /\ kept \subseteq 1..minted /\ MaxSquads \in Nat
    BY Constants DEF TypeOK
  <2> HIDE DEF kept
  <2> QED BY <2>1 DEF Ids
<1>4. \A i \in Ids : seenOf(i) \in Squad /\ seenOf(i).led = squad[i].led
                     /\ (seenOf(i).fielded => squad[i].fielded \/ report.seen[i] # 0)
  <2> SUFFICES ASSUME NEW i \in Ids
               PROVE  seenOf(i) \in Squad /\ seenOf(i).led = squad[i].led
                      /\ (seenOf(i).fielded => squad[i].fielded \/ report.seen[i] # 0)
    OBVIOUS
  <2>1. squad[i] \in Squad /\ home[i] \in BOOLEAN /\ report.seen[i] \in 0..(2 * Full)
    BY <1>1, <1>2 DEF TypeOK
  <2>2. CASE report.seen[i] > 0
    <3>1. Held(i, report.seen[i], home[i]) \in Squad
          /\ Held(i, report.seen[i], home[i]).led = squad[i].led
      BY <2>1, HeldType DEF Held
    <3>2. report.seen[i] # 0 /\ seenOf(i) = Held(i, report.seen[i], home[i])
      BY <2>1, <2>2
    <3> QED BY <3>1, <3>2
  <2>3. CASE ~ (report.seen[i] > 0)
    BY <2>1, <2>3
  <2> QED BY <2>2, <2>3
<1>5. ASSUME NEW i \in Ids, NEW q \in Squad
      PROVE  LET l == Led(i, q, report.claimed)
             IN  l \in Squad /\ l.led = q.led /\ l.fielded = q.fielded
  BY LedType
<1>6. Blank \in Squad /\ (\A p \in Players : Shell(p) \in Squad)
  BY ShellType
<1>7. \A i \in Ids : told(i) \in Squad
  BY <1>4, <1>5, <1>6
<1>8. \A i \in kept : told(i).led = squad[i].led
                      /\ (told(i).fielded => squad[i].fielded \/ report.seen[i] # 0)
  BY <1>3, <1>4, <1>5
<1>9. leading' \subseteq Players
  BY <1>1, <1>2
<1>10. report' = NoReport /\ UNCHANGED <<world, occupied, bounds>>
  BY DEF Fold
<1> HIDE DEF seenOf, told
<1>11. CASE fresh # {}
  <2>1. PICK p \in fresh :
          /\ minted' = minted + 1 /\ roster' = kept \union {minted + 1}
          /\ squad' = [i \in Ids |-> IF i = minted + 1 THEN Shell(p) ELSE told(i)]
          /\ Push(Say("squad_enrolled", minted + 1, p))
    BY <1>1, <1>11 DEF told, seenOf
  <2>2. p \in Players /\ LedBy(p, kept) = {}
    BY <1>2 DEF Enrols
  <2>3. minted + 1 \in Ids /\ minted + 1 \notin kept
    <3>1. minted < MaxSquads /\ minted \in Nat /\ MaxSquads \in Nat
      BY <1>1, <1>3, <1>11, Constants DEF told, seenOf
    <3>2. minted + 1 \in Ids
      BY <3>1 DEF Ids
    <3>3. minted + 1 \notin 1..minted
      BY <3>1
    <3> QED BY <1>3, <3>2, <3>3
  <2>4. Enrolment(kept, p, minted + 1)
    BY <2>1, <2>2, <2>3 DEF Enrolment
  <2>5. squad' \in [Ids -> Squad]
    BY <1>6, <1>7, <2>1, <2>2
  <2>6. \A i \in kept : squad'[i] = told(i)
    BY <1>3, <2>1, <2>3
  <2> QED BY <1>8, <1>9, <1>10, <2>2, <2>3, <2>4, <2>5, <2>6
<1>12. CASE fresh = {}
  <2>1. /\ UNCHANGED minted /\ roster' = kept /\ squad' = [i \in Ids |-> told(i)]
        /\ IF arrivals = {} THEN UNCHANGED queue
           ELSE \E p \in arrivals : \E i \in LedBy(p, kept) : Push(Say("squad_enrolled", i, p))
    BY <1>1, <1>12 DEF told, seenOf
  <2>2. squad' \in [Ids -> Squad] /\ \A i \in kept : squad'[i] = told(i)
    BY <1>3, <1>7, <2>1
  <2>3. CASE arrivals = {}
    BY <1>8, <1>9, <1>10, <2>1, <2>2, <2>3
  <2>4. CASE arrivals # {}
    <3>1. PICK p \in arrivals : \E i \in LedBy(p, kept) : Push(Say("squad_enrolled", i, p))
      BY <2>1, <2>4
    <3>2. PICK i \in LedBy(p, kept) : Push(Say("squad_enrolled", i, p))
      BY <3>1
    <3>3. p \in Players /\ i \in kept /\ i \in Ids /\ squad[i].led = p
      BY <1>2, <1>3 DEF LedBy
    <3>4. Enrolment(kept, p, i)
      BY <2>1, <3>2, <3>3 DEF Enrolment
    <3> QED BY <1>8, <1>9, <1>10, <2>2, <3>3, <3>4
  <2> QED BY <2>3, <2>4
<1> QED BY <1>11, <1>12
-----------------------------------------------------------------------------
(* Types.                                                                    *)

DaemonOK ==
  /\ roster \subseteq 1..minted /\ minted \in 0..MaxSquads
  /\ squad \in [Ids -> Squad]
  /\ leading \subseteq Players

QueueOK ==
  /\ outbox \in Seq(Effect) /\ carried \in 0..Len(outbox)
  /\ batch \in 0..Len(outbox) /\ drained \in 0..batch /\ drained <= carried

ReportOK == report \in [taken : BOOLEAN, seen : [Ids -> 0..(2 * Full)], claimed : SUBSET Players]

WorldOK ==
  /\ registered \in [Ids -> Groups \union {None}]
  /\ men \in [Groups -> 0..Full] /\ bodies \in [Groups -> 0..MaxDeaths]
  /\ typed \subseteq Groups
  /\ seat \in [Players -> Groups \union {None}] /\ alive \subseteq Players

RestOK ==
  /\ occupied \subseteq Players
  /\ deaths \in 0..MaxDeaths /\ returns \in 0..MaxReturns /\ losses \in 0..MaxLost

LEMMA TypeParts == TypeOK <=> DaemonOK /\ QueueOK /\ ReportOK /\ WorldOK /\ RestOK
BY DEF TypeOK, DaemonOK, QueueOK, ReportOK, WorldOK, RestOK

LEMMA PushType ==
  ASSUME TypeOK, NEW e \in Effect, Push(e)
  PROVE  QueueOK'
<1>1. outbox' \in Seq(Effect) /\ Len(outbox') = Len(outbox) + 1 /\ Len(outbox) \in Nat
      /\ batch' = batch /\ drained' = drained /\ carried' = carried
  BY Pushed DEF TypeOK
<1> QED BY <1>1 DEF QueueOK, TypeOK

LEMMA UnshelledType == Cardinality(Unshelled) \in Nat
<1>1. Unshelled \subseteq Players
  BY DEF Unshelled
<1>2. IsFiniteSet(Unshelled)
  BY <1>1, Constants, FS_Subset
<1> QED BY <1>2, FS_CardinalityType

LEMMA SayType ==
  ASSUME NEW i \in Ids, NEW p, NEW name,
         \/ name \in {"squad_spawned", "squad_reinforced", "squad_filled"} /\ p = None
         \/ name = "squad_enrolled" /\ p \in Players
  PROVE  /\ Say(name, i, p) \in Effect /\ Say(name, i, p).effect = name
         /\ Say(name, i, p).squad = i /\ Say(name, i, p).player = p
BY DEF Say, Effect

\* An id is left when a Command may mint one.
LEMMA SpareIsAnId ==
  ASSUME TypeOK, SpareId
  PROVE  minted + 1 \in Ids /\ minted < MaxSquads /\ minted \in Nat
BY UnshelledType, Constants DEF SpareId, TypeOK, Ids

LEMMA CollectType ==
  ASSUME NEW named \in [Ids -> Groups \union {None}], NEW tagged, tagged \subseteq Groups,
         Collect(named, tagged)
  PROVE  registered' \in [Ids -> Groups \union {None}] /\ typed' \subseteq Groups
BY DEF Collect

LEMMA CommandType ==
  ASSUME TypeOK, Purchase \/ \E i \in Ids : Reinforce(i) \/ FirstFill(i)
  PROVE  DaemonOK' /\ QueueOK' /\ ReportOK' /\ WorldOK' /\ RestOK'
<1>1. DaemonOK /\ ReportOK /\ WorldOK /\ RestOK
  BY TypeParts
<1>2. None \in Players \union {None} /\ Full \in 0..(2 * Full)
  BY Constants
<1>3. CASE Purchase
  <2>1. minted + 1 \in Ids /\ minted \in Nat /\ minted < MaxSquads /\ MaxSquads \in Nat
    BY <1>3, SpareIsAnId, Constants DEF Purchase
  <2>2. QueueOK'
    BY <1>2, <1>3, <2>1, PushType, SayType DEF Purchase
  <2>3. [Blank EXCEPT !.size = Full, !.assigned = TRUE] \in Squad
    BY <1>2 DEF Blank, Squad
  <2>4. squad' \in [Ids -> Squad]
    BY <1>1, <1>3, <2>3 DEF Purchase, DaemonOK
  <2>5. roster' \subseteq 1..minted' /\ minted' \in 0..MaxSquads
    BY <1>1, <1>3, <2>1 DEF Purchase, DaemonOK
  <2>6. leading' \subseteq Players
    BY <1>1, <1>3 DEF Purchase, DaemonOK
  <2> QED BY <1>1, <1>3, <2>2, <2>4, <2>5, <2>6 DEF Purchase, DaemonOK, ReportOK, WorldOK, RestOK,
             world, bounds
<1>4. ASSUME NEW i \in Ids, Reinforce(i)
      PROVE  DaemonOK' /\ QueueOK' /\ ReportOK' /\ WorldOK' /\ RestOK'
  <2>1. QueueOK'
    BY <1>2, <1>4, PushType, SayType DEF Reinforce
  <2>2. squad[i] \in Squad /\ \A q \in Squad : [q EXCEPT !.size = Full] \in Squad
    BY <1>1, <1>2 DEF DaemonOK, Squad
  <2>3. squad' \in [Ids -> Squad]
    BY <1>1, <1>4, <2>2 DEF Reinforce, DaemonOK
  <2> QED BY <1>1, <1>4, <2>1, <2>3 DEF Reinforce, DaemonOK, ReportOK, WorldOK, RestOK, world, bounds
<1>5. ASSUME NEW i \in Ids, FirstFill(i)
      PROVE  DaemonOK' /\ QueueOK' /\ ReportOK' /\ WorldOK' /\ RestOK'
  <2>1. QueueOK'
    BY <1>2, <1>5, PushType, SayType DEF FirstFill
  <2>2. squad[i] \in Squad /\ \A q \in Squad : [q EXCEPT !.assigned = TRUE, !.size = Full] \in Squad
    BY <1>1, <1>2 DEF DaemonOK, Squad
  <2>3. squad' = [squad EXCEPT ![i] = [squad[i] EXCEPT !.assigned = TRUE, !.size = Full]]
    BY <1>1, <1>5, <2>2 DEF FirstFill, DaemonOK
  <2>4. squad' \in [Ids -> Squad]
    BY <1>1, <2>2, <2>3 DEF DaemonOK
  <2> QED BY <1>1, <1>5, <2>1, <2>4 DEF FirstFill, DaemonOK, ReportOK, WorldOK, RestOK, world, bounds
<1> QED BY <1>3, <1>4, <1>5

LEMMA ReportType ==
  ASSUME TypeOK, SeatSound, Sweep \/ Sample \/ LoseReport \/ Fold
  PROVE  DaemonOK' /\ QueueOK' /\ ReportOK' /\ WorldOK' /\ RestOK'
<1>1. DaemonOK /\ QueueOK /\ ReportOK /\ WorldOK /\ RestOK
  BY TypeParts
<1>2. NoReport \in [taken : BOOLEAN, seen : [Ids -> 0..(2 * Full)], claimed : SUBSET Players]
  <2>1. 0 \in 0..(2 * Full)
    BY Constants
  <2> QED BY <2>1 DEF NoReport
<1>3. CASE Sweep
  BY <1>1, <1>3 DEF Sweep, daemon, queue, drain, world, bounds, DaemonOK, QueueOK, ReportOK,
     WorldOK, RestOK
<1>4. CASE Sample
  <2> DEFINE seen == [i \in Ids |-> IF registered[i] = None THEN 0 ELSE Living(registered[i])]
  <2>1. seen \in [Ids -> 0..(2 * Full)]
    <3> SUFFICES ASSUME NEW i \in Ids, registered[i] # None
                 PROVE  Living(registered[i]) \in 0..(2 * Full)
      BY Constants
    <3>1. registered[i] \in Groups
      BY <1>1 DEF WorldOK
    <3> QED BY <3>1, LivingBound
  <2>2. report' = [taken |-> TRUE, claimed |-> occupied, seen |-> seen]
    BY <1>4 DEF Sample
  <2>3. occupied \subseteq Players
    BY <1>1 DEF RestOK
  <2> HIDE DEF seen
  <2>4. ReportOK'
    BY <2>1, <2>2, <2>3 DEF ReportOK
  <2> QED BY <1>1, <1>4, <2>4 DEF Sample, daemon, queue, drain, world, bounds, DaemonOK, QueueOK,
             WorldOK, RestOK
<1>5. CASE LoseReport
  <2>1. losses' \in 0..MaxLost
    BY <1>1, <1>5, Constants DEF LoseReport, RestOK
  <2> QED BY <1>1, <1>2, <1>5, <2>1 DEF LoseReport, daemon, queue, drain, world, DaemonOK, QueueOK,
             ReportOK, WorldOK, RestOK
<1>6. CASE Fold
  <2> DEFINE kept == roster \ Lost(report.seen)
  <2>1. /\ \/ \E p \in Players : \E i \in Ids : Enrolment(kept, p, i)
           \/ UNCHANGED <<minted, queue>> /\ roster' = kept
        /\ squad' \in [Ids -> Squad] /\ leading' \subseteq Players /\ report' = NoReport
        /\ UNCHANGED <<world, occupied, bounds>>
    BY <1>6, FoldDoes
  <2>2. kept \subseteq 1..minted /\ minted \in Nat /\ minted <= MaxSquads /\ MaxSquads \in Nat
    <3>1. minted \in 0..MaxSquads /\ MaxSquads \in Nat /\ roster \subseteq 1..minted
      BY <1>1, Constants DEF DaemonOK
    <3>2. kept \subseteq roster
      OBVIOUS
    <3> HIDE DEF kept
    <3> QED BY <3>1, <3>2
  <2> HIDE DEF kept
  <2>3. ReportOK' /\ WorldOK' /\ RestOK'
    BY <1>1, <1>2, <2>1 DEF ReportOK, WorldOK, RestOK, world, bounds
  <2>4. CASE UNCHANGED <<minted, queue>> /\ roster' = kept
    BY <1>1, <2>1, <2>2, <2>3, <2>4 DEF DaemonOK, QueueOK, queue, drain
  <2>5. CASE \E p \in Players : \E i \in Ids : Enrolment(kept, p, i)
    <3>1. PICK p \in Players : \E i \in Ids : Enrolment(kept, p, i)
      BY <2>5
    <3>2. PICK i \in Ids : Enrolment(kept, p, i)
      BY <3>1
    <3>3. QueueOK'
      BY <3>2, PushType, SayType DEF Enrolment
    <3>4. i \in Nat /\ i <= MaxSquads
      BY <2>2 DEF Ids
    <3>5. roster' \subseteq 1..minted' /\ minted' \in 0..MaxSquads
      <4>1. CASE i = minted + 1 /\ minted' = i /\ roster' = kept \union {i}
        <5>1. minted' \in 0..MaxSquads /\ minted' = minted + 1
          BY <2>2, <3>4, <4>1
        <5>2. \A n \in roster' : n \in 1..(minted + 1)
          BY <2>2, <4>1
        <5> QED BY <5>1, <5>2
      <4>2. CASE UNCHANGED minted /\ roster' = kept
        BY <2>2, <4>2
      <4> QED BY <3>2, <4>1, <4>2 DEF Enrolment
    <3> QED BY <2>1, <2>3, <3>3, <3>5 DEF DaemonOK
  <2> QED BY <2>1, <2>4, <2>5
<1> QED BY <1>3, <1>4, <1>5, <1>6

LEMMA DrainType ==
  ASSUME TypeOK, Poll \/ CarryOut \/ Acknowledge \/ LoseAck
  PROVE  DaemonOK' /\ QueueOK' /\ ReportOK' /\ WorldOK' /\ RestOK'
<1>1. DaemonOK /\ QueueOK /\ ReportOK /\ WorldOK /\ RestOK
  BY TypeParts
<1>2. CASE Poll
  <2>1. QueueOK'
    <3>1. Len(outbox) \in Nat
      BY <1>1 DEF QueueOK
    <3> QED BY <1>1, <1>2, <3>1 DEF Poll, QueueOK
  <2> QED BY <1>1, <1>2, <2>1 DEF Poll, daemon, world, bounds, DaemonOK, ReportOK, WorldOK, RestOK
<1>3. CASE CarryOut
  <2>1. DaemonOK' /\ ReportOK' /\ RestOK'
    BY <1>1, <1>3 DEF CarryOut, daemon, bounds, DaemonOK, ReportOK, RestOK
  <2>2. QueueOK'
    <3>1. Len(outbox) \in Nat
      BY <1>1 DEF QueueOK
    <3> QED BY <1>1, <1>3, <3>1 DEF CarryOut, QueueOK
  <2>3. PICK e \in Effect : e = outbox[drained + 1]
    <3>1. drained + 1 \in 1..Len(outbox) /\ outbox \in Seq(Effect)
      BY <1>1, <1>3 DEF CarryOut, QueueOK
    <3> QED BY <3>1
  <2>4. e.squad \in Ids /\ (e.effect = "squad_enrolled" => e.player \in Players)
    BY DEF Effect
  <2>5. \/ Spawn(e.squad) \/ Refill(e.squad) \/ Fill(e.squad)
        \/ e.effect = "squad_enrolled" /\ Enrol(e.squad, e.player)
    BY <1>3, <2>3 DEF CarryOut
  <2>6. alive' = alive
    BY <1>3 DEF CarryOut
  <2>7. ASSUME NEW i \in Ids, Spawn(i) PROVE WorldOK'
    <3>1. i \in Groups /\ Full \in 0..Full
      BY Constants
    <3>2. men' \in [Groups -> 0..Full] /\ registered' \in [Ids -> Groups \union {None}]
          /\ typed' \subseteq Groups
      BY <1>1, <2>7, <3>1 DEF Spawn, WorldOK
    <3> QED BY <1>1, <2>6, <2>7, <3>2 DEF Spawn, WorldOK
  <2>8. ASSUME NEW g \in Groups PROVE men[g] + Owed(g) \in 0..Full
    BY <1>1, CountsTheLiving, Constants DEF WorldOK
  <2>9. ASSUME NEW i \in Ids, Refill(i) \/ Fill(i) PROVE WorldOK'
    <3>1. registered[i] # None => registered[i] \in Groups
      BY <1>1 DEF WorldOK
    <3>2. /\ men' = men \/ (registered[i] # None
                /\ men' = [men EXCEPT ![registered[i]] = men[registered[i]] + Owed(registered[i])])
          /\ typed' = typed \/ (registered[i] # None /\ typed' = typed \union {registered[i]})
          /\ bodies' = bodies /\ seat' = seat /\ registered' = registered
      BY <1>1, <2>9, <3>1 DEF Refill, Fill, WorldOK
    <3>3. men' \in [Groups -> 0..Full]
      BY <1>1, <2>8, <3>1, <3>2 DEF WorldOK
    <3> QED BY <1>1, <2>6, <3>1, <3>2, <3>3 DEF WorldOK
  <2>10. ASSUME NEW i \in Ids, NEW p \in Players, Enrol(i, p)
         PROVE  WorldOK'
    <3>1. CASE seat[p] = None
      BY <1>1, <2>6, <2>10, <3>1 DEF Enrol, WorldOK
    <3>2. CASE seat[p] # None
      <4>1. Joins(i, p) \in Groups
        BY <1>1, <2>10, <3>2 DEF Joins, WorldOK
      <4>2. Named(i, Joins(i, p)) \in [Ids -> Groups \union {None}]
        BY <1>1, <4>1 DEF Named, WorldOK
      <4>3. registered' \in [Ids -> Groups \union {None}] /\ typed' \subseteq Groups
        BY <1>1, <2>10, <3>2, <4>2, CollectType DEF Enrol, WorldOK
      <4>4. seat' \in [Players -> Groups \union {None}]
        BY <1>1, <2>10, <3>2, <4>1 DEF Enrol, WorldOK
      <4> QED BY <1>1, <2>6, <2>10, <4>3, <4>4 DEF Enrol, WorldOK
    <3> QED BY <3>1, <3>2
  <2> QED BY <2>1, <2>2, <2>4, <2>5, <2>7, <2>9, <2>10
<1>4. CASE Acknowledge
  <2>1. QueueOK'
    <3>1. outbox' \in Seq(Effect) /\ Len(outbox') = Len(outbox) - batch /\ batch \in Nat
          /\ batch <= carried /\ carried <= Len(outbox) /\ Len(outbox) \in Nat /\ carried \in Nat
      BY <1>1, <1>4, Acknowledged DEF QueueOK
    <3> QED BY <1>4, <3>1 DEF Acknowledge, QueueOK
  <2> QED BY <1>1, <1>4, <2>1 DEF Acknowledge, daemon, world, bounds, DaemonOK, ReportOK, WorldOK,
             RestOK
<1>5. CASE LoseAck
  <2>1. QueueOK' /\ losses' \in 0..MaxLost
    BY <1>1, <1>5, Constants DEF LoseAck, QueueOK, RestOK
  <2> QED BY <1>1, <1>5, <2>1 DEF LoseAck, daemon, world, DaemonOK, ReportOK, WorldOK, RestOK
<1> QED BY <1>2, <1>3, <1>4, <1>5

LEMMA MapType ==
  ASSUME TypeOK, SeatSound,
         \/ \E g \in Groups : ManDies(g) \/ BodyLeaves(g)
         \/ \E p \in Players : PlayerDies(p) \/ Respawn(p) \/ LeaveSlot(p)
         \/ \E p \in Players, g \in Seats : TakeSlot(p, g)
  PROVE  DaemonOK' /\ QueueOK' /\ ReportOK' /\ WorldOK' /\ RestOK'
<1>1. DaemonOK /\ QueueOK /\ ReportOK /\ WorldOK /\ RestOK
  BY TypeParts
<1>2. UNCHANGED <<daemon, queue, report>> => DaemonOK' /\ QueueOK' /\ ReportOK'
  BY <1>1 DEF daemon, queue, drain, DaemonOK, QueueOK, ReportOK
<1>3. ASSUME NEW g \in Groups, ManDies(g)
      PROVE  DaemonOK' /\ QueueOK' /\ ReportOK' /\ WorldOK' /\ RestOK'
  <2>1. men[g] - 1 \in 0..Full /\ bodies[g] + 1 \in 0..MaxDeaths /\ deaths + 1 \in 0..MaxDeaths
    <3>1. men[g] \in 0..Full /\ bodies[g] \in 0..MaxDeaths /\ deaths \in 0..MaxDeaths
          /\ bodies[g] <= deaths /\ men[g] > 0 /\ deaths < MaxDeaths
      BY <1>1, <1>3 DEF ManDies, WorldOK, RestOK, SeatSound
    <3> QED BY <3>1, Constants
  <2> QED BY <1>1, <1>2, <1>3, <2>1 DEF ManDies, WorldOK, RestOK
<1>4. ASSUME NEW g \in Groups, BodyLeaves(g)
      PROVE  DaemonOK' /\ QueueOK' /\ ReportOK' /\ WorldOK' /\ RestOK'
  <2>1. bodies[g] - 1 \in 0..MaxDeaths
    BY <1>1, <1>4, Constants DEF BodyLeaves, WorldOK
  <2>2. registered' \in [Ids -> Groups \union {None}] /\ typed' \subseteq Groups
    BY <1>1, <1>4, CollectType DEF BodyLeaves, WorldOK
  <2> QED BY <1>1, <1>2, <1>4, <2>1, <2>2 DEF BodyLeaves, WorldOK, RestOK, bounds
<1>5. ASSUME NEW p \in Players, PlayerDies(p) \/ Respawn(p)
      PROVE  DaemonOK' /\ QueueOK' /\ ReportOK' /\ WorldOK' /\ RestOK'
  BY <1>1, <1>2, <1>5 DEF PlayerDies, Respawn, WorldOK, RestOK, bounds
<1>6. ASSUME NEW p \in Players, LeaveSlot(p)
      PROVE  DaemonOK' /\ QueueOK' /\ ReportOK' /\ WorldOK' /\ RestOK'
  <2>1. registered' \in [Ids -> Groups \union {None}] /\ typed' \subseteq Groups
    BY <1>1, <1>6, CollectType DEF LeaveSlot, WorldOK
  <2> QED BY <1>1, <1>2, <1>6, <2>1 DEF LeaveSlot, WorldOK, RestOK, bounds
<1>7. ASSUME NEW p \in Players, NEW g \in Seats, TakeSlot(p, g)
      PROVE  DaemonOK' /\ QueueOK' /\ ReportOK' /\ WorldOK' /\ RestOK'
  <2>1. returns' \in 0..MaxReturns /\ g \in Groups
    BY <1>1, <1>7, Constants DEF TakeSlot, RestOK
  <2> QED BY <1>1, <1>2, <1>7, <2>1 DEF TakeSlot, WorldOK, RestOK
<1> QED BY <1>3, <1>4, <1>5, <1>6, <1>7

\* Every step keeps the type invariant.
LEMMA TypeStep ==
  ASSUME TypeOK, SeatSound, [Next]_vars
  PROVE  TypeOK'
<1>1. CASE UNCHANGED vars
  BY <1>1 DEF vars, daemon, queue, drain, world, bounds, TypeOK
<1>2. CASE Next
  <2>1. DaemonOK' /\ QueueOK' /\ ReportOK' /\ WorldOK' /\ RestOK'
    BY <1>2, CommandType, ReportType, DrainType, MapType DEF Next
  <2> QED BY <2>1 DEF TypeOK, DaemonOK, QueueOK, ReportOK, WorldOK, RestOK
<1> QED BY <1>1, <1>2
-----------------------------------------------------------------------------
(* Seats, leaders and groups.                                                *)

LEMMA SeatStep ==
  ASSUME TypeOK, SeatSound, [Next]_vars
  PROVE  SeatSound'
<1>1. ASSUME UNCHANGED <<bodies, seat, deaths>> PROVE SeatSound'
  BY <1>1 DEF SeatSound
<1>2. CASE Purchase \/ (\E i \in Ids : Reinforce(i) \/ FirstFill(i)) \/ Sweep \/ Sample \/ LoseReport
           \/ Fold \/ Poll \/ Acknowledge \/ LoseAck \/ (\E p \in Players : PlayerDies(p) \/ Respawn(p))
  BY <1>1, <1>2 DEF Purchase, Reinforce, FirstFill, Sweep, Sample, LoseReport, Fold, Poll,
     Acknowledge, LoseAck, PlayerDies, Respawn, world, bounds
<1>3. CASE CarryOut
  <2>1. PICK e : \/ Spawn(e.squad) \/ Refill(e.squad) \/ Fill(e.squad) \/ Enrol(e.squad, e.player)
    BY <1>3 DEF CarryOut
  <2>2. bodies' = bodies /\ deaths' = deaths
    BY <1>3, <2>1 DEF CarryOut, Spawn, Refill, Fill, Enrol, bounds
  <2>3. \/ seat' = seat
        \/ seat[e.player] # None /\ seat' = [seat EXCEPT ![e.player] = Joins(e.squad, e.player)]
    BY <2>1 DEF Spawn, Refill, Fill, Enrol
  <2>4. \A p \in Players : seat'[p] # None => seat[p] # None
    BY <2>3 DEF TypeOK
  <2> QED BY <2>2, <2>4 DEF SeatSound
<1>4. ASSUME NEW g \in Groups, ManDies(g) PROVE SeatSound'
  <2>1. \A h \in Groups : bodies[h] \in Nat /\ bodies[h] <= deaths /\ deaths \in Nat
    BY Constants DEF TypeOK, SeatSound
  <2>2. \A h \in Groups : bodies'[h] <= deaths'
    BY <1>4, <2>1 DEF ManDies, TypeOK
  <2> QED BY <1>4, <2>2 DEF ManDies, SeatSound
<1>5. ASSUME NEW g \in Groups, BodyLeaves(g) PROVE SeatSound'
  <2>1. \A h \in Groups : bodies[h] \in Nat /\ bodies[h] <= deaths /\ deaths \in Nat
    BY Constants DEF TypeOK, SeatSound
  <2>2. \A h \in Groups : bodies'[h] <= deaths'
    BY <1>5, <2>1 DEF BodyLeaves, TypeOK, bounds
  <2> QED BY <1>5, <2>2 DEF BodyLeaves, SeatSound
<1>6. ASSUME NEW p \in Players, LeaveSlot(p) PROVE SeatSound'
  BY <1>6 DEF LeaveSlot, SeatSound, TypeOK, bounds
<1>7. ASSUME NEW p \in Players, NEW g \in Seats, TakeSlot(p, g) PROVE SeatSound'
  BY <1>7 DEF TakeSlot, SeatSound, TypeOK
<1>8. CASE UNCHANGED vars
  BY <1>1, <1>8 DEF vars, world, bounds
<1> QED BY <1>2, <1>3, <1>4, <1>5, <1>6, <1>7, <1>8 DEF Next

\* Only a report and a purchase bring an id into the roster.
LEMMA LeadersStep ==
  ASSUME TypeOK, OneSquadPerPlayer, [Next]_vars
  PROVE  OneSquadPerPlayer'
<1>1. roster \subseteq 1..minted /\ minted \in Nat /\ squad \in [Ids -> Squad] /\ roster \subseteq Ids
  <2>1. minted \in 0..MaxSquads /\ roster \subseteq 1..minted /\ MaxSquads \in Nat
    BY Constants DEF TypeOK
  <2> QED BY <2>1 DEF TypeOK, Ids
<1>2. ASSUME roster' \subseteq roster, \A i \in roster' : squad'[i].led = squad[i].led
      PROVE  OneSquadPerPlayer'
  BY <1>2 DEF OneSquadPerPlayer
<1>3. CASE Purchase
  <2>1. minted + 1 \in Ids
    BY <1>3, SpareIsAnId DEF Purchase
  <2>2. /\ \A i \in roster : squad'[i] = squad[i]
        /\ squad'[minted + 1].led = None /\ roster' = roster \union {minted + 1}
    BY <1>1, <1>3, <2>1 DEF Purchase, Blank
  <2> QED BY <2>2 DEF OneSquadPerPlayer
<1>4. ASSUME NEW i \in Ids, Reinforce(i) \/ FirstFill(i) PROVE OneSquadPerPlayer'
  <2>1. roster' = roster /\ \A j \in Ids : squad'[j].led = squad[j].led
    BY <1>1, <1>4 DEF Reinforce, FirstFill, Squad
  <2> QED BY <1>1, <1>2, <2>1
<1>5. CASE Fold
  <2> DEFINE kept == roster \ Lost(report.seen)
  <2>1. /\ \/ \E p \in Players : \E i \in Ids : Enrolment(kept, p, i)
           \/ UNCHANGED <<minted, queue>> /\ roster' = kept
        /\ \A i \in kept : squad'[i].led = squad[i].led
    BY <1>5, FoldDoes
  <2>2. kept \subseteq roster
    OBVIOUS
  <2> HIDE DEF kept
  <2>3. CASE roster' = kept
    BY <1>2, <2>1, <2>2, <2>3
  <2>4. CASE roster' # kept
    <3>1. PICK p \in Players : \E i \in Ids : Enrolment(kept, p, i)
      BY <2>1, <2>4
    <3>2. PICK i \in Ids : Enrolment(kept, p, i)
      BY <3>1
    <3>3. /\ roster' = kept \union {i} /\ LedBy(p, kept) = {} /\ squad'[i].led = p
          /\ i = minted + 1
      BY <2>4, <3>2 DEF Enrolment, Shell, Blank
    <3>4. \A j \in kept : squad[j].led # p /\ squad'[j].led = squad[j].led
      BY <2>1, <3>3 DEF LedBy
    <3> QED BY <2>2, <3>3, <3>4 DEF OneSquadPerPlayer
  <2> QED BY <2>3, <2>4
<1>6. CASE UNCHANGED <<roster, squad>>
  BY <1>2, <1>6
<1>7. CASE Sweep \/ Sample \/ LoseReport \/ Poll \/ CarryOut \/ Acknowledge \/ LoseAck
  BY <1>6, <1>7 DEF Sweep, Sample, LoseReport, Poll, CarryOut, Acknowledge, LoseAck, daemon
<1>8. CASE \/ \E g \in Groups : ManDies(g) \/ BodyLeaves(g)
           \/ \E p \in Players : PlayerDies(p) \/ Respawn(p) \/ LeaveSlot(p)
           \/ \E p \in Players, g \in Seats : TakeSlot(p, g)
  BY <1>6, <1>8 DEF ManDies, BodyLeaves, PlayerDies, Respawn, LeaveSlot, TakeSlot, daemon
<1>9. CASE UNCHANGED vars
  BY <1>6, <1>9 DEF vars, daemon
<1> QED BY <1>3, <1>4, <1>5, <1>7, <1>8, <1>9 DEF Next
-----------------------------------------------------------------------------
(* Which group answers to an id.                                             *)

\* A step that leaves the world, the queue and the leaders of the roster alone.
LEMMA KindStays ==
  ASSUME KindSound, roster' \subseteq roster, \A i \in roster' : squad'[i].led = squad[i].led,
         minted' = minted, outbox' = outbox, registered' = registered, seat' = seat
  PROVE  KindSound'
BY DEF KindSound, Bought, OfPlayer, Queued

\* A step that pushes an Effect about an id of the same kind.
LEMMA KindPushes ==
  ASSUME TypeOK, KindSound, NEW e \in Effect, Push(e), minted' \in Nat, minted <= minted', minted \in Nat,
         registered' = registered, seat' = seat, e.squad \in 1..minted',
         \A i \in roster' \ {e.squad} : i \in roster /\ squad'[i].led = squad[i].led,
         e.squad \in roster' /\ squad'[e.squad].led # None =>
           e.squad \notin Bought /\ e.effect # "squad_spawned",
         e.effect = "squad_enrolled" => e.squad \notin Bought,
         e.effect = "squad_spawned" => e.squad \notin OfPlayer
  PROVE  KindSound'
<1>1. /\ DOMAIN outbox = 1..Len(outbox) /\ DOMAIN outbox' = 1..(Len(outbox) + 1)
      /\ \A k \in 1..Len(outbox) : outbox'[k] = outbox[k]
      /\ outbox'[Len(outbox) + 1] = e /\ Len(outbox) \in Nat
  BY Pushed DEF TypeOK
<1>2. \A k \in DOMAIN outbox' : (k \in DOMAIN outbox /\ outbox'[k] = outbox[k]) \/ outbox'[k] = e
  BY <1>1
<1>3. \A name : \A i \in Queued(name)' : i \in Queued(name) \/ (i = e.squad /\ e.effect = name)
  BY <1>2 DEF Queued
<1>4. \A k \in DOMAIN outbox' : outbox'[k].squad \in 1..minted'
  BY <1>2 DEF KindSound
<1>5. \A i \in Bought' : i \in Bought \/ (i = e.squad /\ e.effect = "squad_spawned")
  BY <1>3 DEF Bought
<1>6. \A i \in OfPlayer' : \/ i \in OfPlayer
                           \/ i = e.squad /\ e.effect = "squad_enrolled"
                           \/ i = e.squad /\ i \in roster' /\ squad'[i].led # None
  BY <1>3 DEF OfPlayer
<1>7. Bought' \intersect OfPlayer' = {}
  BY <1>5, <1>6 DEF KindSound
<1>8. \A i \in Ids : registered'[i] # None => i \in 1..minted'
  BY DEF KindSound
<1> QED BY <1>4, <1>7, <1>8 DEF KindSound

\* A step of the world that renames no group: an id keeps its group or loses it.
LEMMA KindLoses ==
  ASSUME KindSound, roster' = roster, squad' = squad, minted' = minted, outbox' = outbox,
         \A i \in Ids : registered'[i] = registered[i] \/ registered'[i] = None,
         None \notin Groups, Ids \subseteq Groups, Seats \subseteq Groups,
         \A p \in Players : seat'[p] \in Seats \union {None}
  PROVE  KindSound'
<1>1. \A name : Queued(name)' = Queued(name)
  BY DEF Queued
<1>2. Bought' \subseteq Bought /\ OfPlayer' \subseteq OfPlayer
  BY <1>1 DEF Bought, OfPlayer
<1> QED BY <1>2 DEF KindSound

\* What is known of the ids of one state.
LEMMA IdFacts ==
  ASSUME TypeOK, KindSound
  PROVE  /\ minted \in Nat /\ minted <= MaxSquads /\ roster \subseteq 1..minted
         /\ \A i \in Bought : i \in 1..minted /\ i \notin OfPlayer
         /\ \A i \in OfPlayer : i \in 1..minted /\ i \notin Bought
         /\ \A i \in Ids : registered[i] \in Groups \union {None}
         /\ minted + 1 \notin Bought /\ minted + 1 \notin OfPlayer
<1>1. minted \in Nat /\ minted <= MaxSquads /\ roster \subseteq 1..minted
  BY Constants DEF TypeOK
<1>2. \A name : \A i \in Queued(name) : i \in 1..minted
  BY DEF Queued, KindSound
<1>3. \A i \in Ids : registered[i] \in Groups \union {None}
  BY DEF TypeOK
<1>4. \A i \in Bought : i \in 1..minted
  BY <1>2, Constants DEF Bought, KindSound
<1>5. \A i \in OfPlayer : i \in 1..minted
  BY <1>1, <1>2, Constants DEF OfPlayer, KindSound, Groups
<1>6. minted + 1 \notin 1..minted
  BY <1>1
<1> QED BY <1>1, <1>3, <1>4, <1>5, <1>6 DEF KindSound

\* The Effect a drain carries out: whose kind its id is of.
LEMMA Drained ==
  ASSUME TypeOK, KindSound, CarryOut
  PROVE  \E e \in Effect :
           /\ e = outbox[drained + 1] /\ drained + 1 \in DOMAIN outbox
           /\ e.squad \in Ids /\ e.squad \in 1..minted
           /\ \/ e.effect = "squad_spawned" /\ Spawn(e.squad) /\ e.squad \in Bought
              \/ e.effect = "squad_reinforced" /\ Refill(e.squad)
              \/ e.effect = "squad_filled" /\ Fill(e.squad)
              \/ /\ e.effect = "squad_enrolled" /\ Enrol(e.squad, e.player)
                 /\ e.player \in Players /\ e.squad \in OfPlayer
<1>1. drained + 1 \in DOMAIN outbox /\ outbox[drained + 1] \in Effect
  <2>1. drained + 1 \in 1..Len(outbox) /\ outbox \in Seq(Effect)
    BY DEF CarryOut, TypeOK
  <2> QED BY <2>1
<1>2. PICK e \in Effect : e = outbox[drained + 1]
  BY <1>1
<1>3. e.squad \in Ids /\ (e.effect = "squad_enrolled" => e.player \in Players)
  BY DEF Effect
<1>4. e.squad \in 1..minted
  BY <1>1, <1>2 DEF KindSound
<1>5. e.squad \in Queued(e.effect)
  BY <1>1, <1>2 DEF Queued
<1>6. \/ e.effect = "squad_spawned" /\ Spawn(e.squad)
      \/ e.effect = "squad_reinforced" /\ Refill(e.squad)
      \/ e.effect = "squad_filled" /\ Fill(e.squad)
      \/ e.effect = "squad_enrolled" /\ Enrol(e.squad, e.player)
  BY <1>2 DEF CarryOut
<1>7. /\ e.effect = "squad_spawned" => e.squad \in Bought
      /\ e.effect = "squad_enrolled" => e.squad \in OfPlayer
  BY <1>5 DEF Bought, OfPlayer
<1> QED BY <1>1, <1>2, <1>3, <1>4, <1>6, <1>7

\* An enrolment puts the player's group, or the one that answers already, under one id.
LEMMA Enrolled ==
  ASSUME TypeOK, KindSound, NEW i \in Ids, i \in OfPlayer, NEW p \in Players, Enrol(i, p),
         seat[p] # None
  PROVE  \E g \in Seats :
           /\ g = Joins(i, p) /\ registered[i] \in {g, None}
           /\ seat' = [seat EXCEPT ![p] = g]
           /\ Collect(Named(i, g), typed) /\ men' = men /\ bodies' = bodies
           /\ Named(i, g)[i] = g
           /\ \A j \in Ids \ {i} : /\ Named(i, g)[j] # g
                                   /\ Named(i, g)[j] = registered[j] \/ registered[j] = g
                                   /\ Named(i, g)[j] = registered[j] \/ Named(i, g)[j] = None
<1>1. registered[i] \in Seats \union {None}
  BY IdFacts DEF Groups, Bought
<1>2. Joins(i, p) \in Seats /\ registered[i] \in {Joins(i, p), None}
  BY <1>1 DEF Joins, KindSound
<1>3. PICK g \in Seats : g = Joins(i, p)
  BY <1>2
<1>4. g # None
  BY Constants
<1>5. /\ Named(i, g)[i] = g
      /\ \A j \in Ids \ {i} : /\ Named(i, g)[j] # g
                              /\ Named(i, g)[j] = registered[j] \/ registered[j] = g
                              /\ Named(i, g)[j] = registered[j] \/ Named(i, g)[j] = None
  BY <1>4 DEF Named
<1>6. seat' = [seat EXCEPT ![p] = g] /\ Collect(Named(i, g), typed) /\ men' = men /\ bodies' = bodies
  BY <1>3 DEF Enrol
<1> QED BY <1>2, <1>3, <1>5, <1>6

\* A step of the world in which one id comes to name a group of its kind.
LEMMA KindNames ==
  ASSUME TypeOK, KindSound, NEW i \in Ids, i \in 1..minted, NEW g \in Groups,
         roster' = roster, squad' = squad, minted' = minted, outbox' = outbox,
         registered'[i] \in {g, None},
         \A j \in Ids \ {i} : registered'[j] = registered[j] \/ registered'[j] = None,
         \/ g = i /\ i \in Bought
         \/ g \in Seats /\ i \in OfPlayer,
         \A p \in Players : seat'[p] \in Seats \union {None}
  PROVE  KindSound'
<1>1. \A name : Queued(name)' = Queued(name)
  BY DEF Queued
<1>2. None \notin Groups /\ Ids \subseteq Groups /\ Seats \subseteq Groups
      /\ Seats \intersect Ids = {}
  BY Constants
<1>3. Bought' \subseteq Bought
  BY <1>1, <1>2 DEF Bought
<1>4. ASSUME NEW j \in Ids, registered'[j] \in Seats PROVE j \in OfPlayer
  <2>1. CASE j = i
    BY <1>2, <1>4, <2>1
  <2>2. CASE j # i
    BY <1>2, <1>4, <2>2 DEF OfPlayer
  <2> QED BY <2>1, <2>2
<1>5. OfPlayer' \subseteq OfPlayer
  BY <1>1, <1>4 DEF OfPlayer
<1>6. ASSUME NEW j \in Ids
      PROVE  /\ registered'[j] # None => j \in 1..minted
             /\ registered'[j] \in Ids => registered'[j] = j
  <2>1. CASE j = i
    BY <1>2, <2>1
  <2>2. CASE j # i
    BY <1>2, <2>2 DEF KindSound
  <2> QED BY <2>1, <2>2
<1>7. Bought' \intersect OfPlayer' = {}
  BY <1>3, <1>5 DEF KindSound
<1> QED BY <1>6, <1>7 DEF KindSound

LEMMA KindStep ==
  ASSUME TypeOK, KindSound, [Next]_vars
  PROVE  KindSound'
<1>1. /\ minted \in Nat /\ minted <= MaxSquads /\ roster \subseteq 1..minted
      /\ \A i \in OfPlayer : i \notin Bought
      /\ minted + 1 \notin Bought /\ minted + 1 \notin OfPlayer
      /\ \A i \in Bought : i \in 1..minted
  BY IdFacts
<1>2. CASE Purchase
  <2>1. minted + 1 \in Ids
    BY <1>2, SpareIsAnId DEF Purchase
  <2>2. PICK e \in Effect : e = Say("squad_spawned", minted + 1, None) /\ Push(e)
    BY <1>2, <2>1 DEF Purchase, Say, Effect
  <2>3. e.squad = minted + 1 /\ e.effect = "squad_spawned"
    BY <2>2 DEF Say
  <2>4. /\ minted' = minted + 1 /\ roster' = roster \union {minted + 1}
        /\ squad'[minted + 1].led = None
        /\ \A i \in roster \ {minted + 1} : squad'[i].led = squad[i].led
        /\ registered' = registered /\ seat' = seat
    BY <1>2, <2>1 DEF Purchase, Blank, TypeOK, world
  <2>5. minted' \in Nat /\ minted <= minted' /\ e.squad \in 1..minted'
    BY <1>1, <2>3, <2>4
  <2> QED BY <1>1, <2>2, <2>3, <2>4, <2>5, KindPushes
<1>3. ASSUME NEW i \in Ids, Reinforce(i) \/ FirstFill(i) PROVE KindSound'
  <2>1. PICK e \in Effect : Push(e) /\ e.squad = i /\ e.effect \in {"squad_reinforced", "squad_filled"}
    BY <1>3 DEF Reinforce, FirstFill, Say, Effect
  <2>2. /\ minted' = minted /\ roster' = roster /\ registered' = registered /\ seat' = seat
        /\ i \in roster
    BY <1>3 DEF Reinforce, FirstFill, world
  <2>3. roster \subseteq Ids
    BY <1>1, Constants DEF Ids
  <2>4. squad[i].led # None => i \in OfPlayer
    BY <2>2 DEF OfPlayer
  <2>5. squad \in [Ids -> Squad]
    BY DEF TypeOK
  <2>6. \A j \in Ids : squad'[j].led = squad[j].led
    BY <1>3, <2>5 DEF Reinforce, FirstFill, Squad
  <2>7. \A j \in roster' \ {e.squad} : j \in roster /\ squad'[j].led = squad[j].led
    BY <2>2, <2>3, <2>6
  <2>8. squad'[i].led # None => i \notin Bought
    BY <1>1, <2>4, <2>6
  <2>9. e.squad \in 1..minted'
    BY <1>1, <2>1, <2>2
  <2> QED BY <1>1, <2>1, <2>2, <2>7, <2>8, <2>9, KindPushes
<1>4. CASE Fold
  <2> DEFINE kept == roster \ Lost(report.seen)
  <2>1. /\ \/ \E p \in Players : \E i \in Ids : Enrolment(kept, p, i)
           \/ UNCHANGED <<minted, queue>> /\ roster' = kept
        /\ \A i \in kept : squad'[i].led = squad[i].led
        /\ registered' = registered /\ seat' = seat
    BY <1>4, FoldDoes DEF world
  <2>2. kept \subseteq roster
    OBVIOUS
  <2> HIDE DEF kept
  <2>3. CASE UNCHANGED <<minted, queue>> /\ roster' = kept
    BY <2>1, <2>2, <2>3, KindStays DEF queue
  <2>4. ASSUME NEW p \in Players, NEW i \in Ids, Enrolment(kept, p, i) PROVE KindSound'
    <3>1. PICK e \in Effect : Push(e) /\ e.squad = i /\ e.effect = "squad_enrolled"
      BY <2>4 DEF Enrolment, Say, Effect
    <3>2. CASE i = minted + 1 /\ minted' = i /\ roster' = kept \union {i}
      <4>1. minted' \in Nat /\ minted <= minted' /\ e.squad \in 1..minted'
        BY <1>1, <3>1, <3>2
      <4> QED BY <1>1, <2>1, <2>2, <3>1, <3>2, <4>1, KindPushes
    <3>3. CASE i \in kept /\ squad[i].led = p /\ UNCHANGED minted /\ roster' = kept
      <4>1. i \in OfPlayer
        BY <2>2, <3>3, Constants DEF OfPlayer
      <4>2. minted' \in Nat /\ minted <= minted' /\ e.squad \in 1..minted'
        BY <1>1, <2>2, <3>1, <3>3
      <4> QED BY <1>1, <2>1, <2>2, <3>1, <3>3, <4>1, <4>2, KindPushes
    <3> QED BY <2>4, <3>2, <3>3 DEF Enrolment
  <2> QED BY <2>1, <2>3, <2>4
<1>5. CASE Acknowledge
  <2>1. \A k \in DOMAIN outbox' : outbox'[k] = outbox[k + batch] /\ k + batch \in DOMAIN outbox
    BY <1>5, Acknowledged
  <2>2. \A name : Queued(name)' \subseteq Queued(name)
    BY <2>1 DEF Queued
  <2>3. UNCHANGED <<roster, squad, minted, registered, seat>>
    BY <1>5 DEF Acknowledge, daemon, world
  <2>4. Bought' \subseteq Bought /\ OfPlayer' \subseteq OfPlayer
    BY <2>2, <2>3 DEF Bought, OfPlayer
  <2>5. \A k \in DOMAIN outbox' : outbox'[k].squad \in 1..minted'
    BY <2>1, <2>3 DEF KindSound
  <2> QED BY <2>3, <2>4, <2>5 DEF KindSound
<1>6. CASE CarryOut
  <2>1. PICK e \in Effect :
           /\ e.squad \in Ids /\ e.squad \in 1..minted
           /\ \/ Spawn(e.squad) /\ e.squad \in Bought
              \/ Refill(e.squad)
              \/ Fill(e.squad)
              \/ Enrol(e.squad, e.player) /\ e.player \in Players /\ e.squad \in OfPlayer
    BY <1>6, Drained
  <2>2. UNCHANGED <<roster, squad, minted, outbox>>
    BY <1>6 DEF CarryOut, daemon
  <2>3. CASE Refill(e.squad) \/ Fill(e.squad)
    BY <2>2, <2>3, KindStays DEF Refill, Fill
  <2>4. CASE Spawn(e.squad) /\ e.squad \in Bought
    <3>1. \/ registered' = registered
          \/ /\ registered'[e.squad] = e.squad
             /\ \A j \in Ids \ {e.squad} : registered'[j] = registered[j]
      BY <2>1, <2>4 DEF Spawn, TypeOK
    <3>2. seat' = seat /\ e.squad \in Groups
      BY <2>1, <2>4, Constants DEF Spawn
    <3>3. CASE registered' = registered
      BY <2>2, <3>2, <3>3, KindStays
    <3>4. CASE /\ registered'[e.squad] = e.squad
               /\ \A j \in Ids \ {e.squad} : registered'[j] = registered[j]
      <4>1. \A p \in Players : seat'[p] \in Seats \union {None}
        BY <3>2 DEF KindSound
      <4> QED BY <2>1, <2>2, <2>4, <3>2, <3>4, <4>1, KindNames
    <3> QED BY <3>1, <3>3, <3>4
  <2>5. CASE Enrol(e.squad, e.player) /\ e.player \in Players /\ e.squad \in OfPlayer
    <3>1. CASE seat[e.player] = None
      BY <2>2, <2>5, <3>1, KindStays DEF Enrol
    <3>2. CASE seat[e.player] # None
      <4>1. PICK g \in Seats :
              /\ seat' = [seat EXCEPT ![e.player] = g]
              /\ Collect(Named(e.squad, g), typed)
              /\ Named(e.squad, g)[e.squad] = g
              /\ \A j \in Ids \ {e.squad} : Named(e.squad, g)[j] = registered[j]
                                           \/ Named(e.squad, g)[j] = None
        BY <2>1, <2>5, <3>2, Enrolled
      <4>2. \A j \in Ids : registered'[j] = Named(e.squad, g)[j] \/ registered'[j] = None
        BY <4>1, Collected
      <4>3. /\ registered'[e.squad] \in {g, None}
            /\ \A j \in Ids \ {e.squad} : registered'[j] = registered[j] \/ registered'[j] = None
        BY <2>1, <4>1, <4>2
      <4>4. \A p \in Players : seat'[p] \in Seats \union {None}
        BY <4>1 DEF KindSound, TypeOK
      <4>5. g \in Groups
        BY Constants
      <4> QED BY <2>1, <2>2, <2>5, <4>3, <4>4, <4>5, KindNames
    <3> QED BY <3>1, <3>2
  <2> QED BY <2>1, <2>3, <2>4, <2>5
<1>7. ASSUME Collect(registered, typed), UNCHANGED <<roster, squad, minted, outbox>>,
             \A p \in Players : seat'[p] \in {seat[p], None}
      PROVE  KindSound'
  <2>1. \A i \in Ids : registered'[i] = registered[i] \/ registered'[i] = None
    BY <1>7, Collected
  <2>2. \A p \in Players : seat'[p] \in Seats \union {None}
    BY <1>7 DEF KindSound
  <2> QED BY <1>7, <2>1, <2>2, Constants, KindLoses
<1>8. ASSUME NEW g \in Groups, BodyLeaves(g) PROVE KindSound'
  BY <1>7, <1>8 DEF BodyLeaves, daemon, queue
<1>9. ASSUME NEW p \in Players, LeaveSlot(p) PROVE KindSound'
  BY <1>7, <1>9 DEF LeaveSlot, daemon, queue, TypeOK
<1>10. ASSUME NEW p \in Players, NEW g \in Seats, TakeSlot(p, g) PROVE KindSound'
  <2>1. /\ \A q \in Players : seat'[q] \in Seats \union {None}
        /\ UNCHANGED <<roster, squad, minted, outbox, registered>>
    BY <1>10 DEF TakeSlot, KindSound, TypeOK, daemon, queue
  <2> QED BY <2>1, Constants, KindLoses
<1>11. CASE \/ Sweep \/ Sample \/ LoseReport \/ Poll \/ LoseAck
            \/ \E g \in Groups : ManDies(g)
            \/ \E p \in Players : PlayerDies(p) \/ Respawn(p)
  <2>1. UNCHANGED <<roster, squad, minted, outbox, registered, seat>>
    BY <1>11 DEF Sweep, Sample, LoseReport, Poll, LoseAck, ManDies, PlayerDies, Respawn, daemon,
       queue, world
  <2> QED BY <2>1, KindStays
<1>12. CASE UNCHANGED vars
  BY <1>12, KindStays DEF vars, daemon, queue, world
<1> QED BY <1>2, <1>3, <1>4, <1>5, <1>6, <1>8, <1>9, <1>10, <1>11, <1>12 DEF Next
\* A group with men in it is not deleted: an id that is given it keeps it.
LEMMA MenKeepTheName ==
  ASSUME TypeOK', NEW named, NEW tagged, Collect(named, tagged), NEW i \in Ids, NEW g \in Groups,
         named[i] = g, men'[g] > 0
  PROVE  registered'[i] = g
<1>1. men'[g] \in Nat /\ bodies'[g] \in Nat /\ g # None
  BY Constants DEF TypeOK
<1>2. Cardinality({p \in Players : seat'[p] = g}) \in Nat
  BY Sitting
<1>3. Count(men', bodies', seat', g) > 0
  BY <1>1, <1>2 DEF Count
<1> QED BY <1>1, <1>3, Collected

LEMMA GroupsStep ==
  ASSUME TypeOK, TypeOK', KindSound, OneIdPerGroup, [Next]_vars
  PROVE  OneIdPerGroup'
<1>1. /\ \A g \in Groups : men[g] \in Nat /\ men'[g] \in Nat /\ g # None
      /\ registered \in [Ids -> Groups \union {None}]
      /\ Ids \subseteq Groups /\ Seats \subseteq Groups
  BY Constants DEF TypeOK
<1>2. ASSUME registered' = registered, \A g \in Groups : men'[g] > 0 => men[g] > 0
      PROVE  OneIdPerGroup'
  BY <1>2 DEF OneIdPerGroup, OneGroupOneId, NobodyIsStray
<1>3. ASSUME Collect(registered, typed), men' = men PROVE OneIdPerGroup'
  <2>1. \A i \in Ids : registered'[i] = registered[i] \/ registered'[i] = None
    BY <1>3, Collected
  <2>2. OneGroupOneId'
    BY <2>1 DEF OneIdPerGroup, OneGroupOneId
  <2>3. ASSUME NEW g \in Groups, men'[g] > 0 PROVE \E i \in Ids : registered'[i] = g
    <3>1. PICK i \in Ids : registered[i] = g
      BY <1>3, <2>3 DEF OneIdPerGroup, NobodyIsStray
    <3>2. registered'[i] = g
      BY <1>3, <2>3, <3>1, MenKeepTheName
    <3> QED BY <3>2
  <2> QED BY <2>2, <2>3 DEF OneIdPerGroup, NobodyIsStray
<1>4. CASE CarryOut
  <2>1. PICK e \in Effect :
           /\ e.squad \in Ids
           /\ \/ Spawn(e.squad)
              \/ Refill(e.squad)
              \/ Fill(e.squad)
              \/ Enrol(e.squad, e.player) /\ e.player \in Players /\ e.squad \in OfPlayer
    BY <1>4, Drained
  <2>2. PICK i \in Ids : i = e.squad
    BY <2>1
  <2>3. CASE Spawn(i)
    <3>1. CASE registered[i] # None
      BY <1>2, <2>3, <3>1 DEF Spawn
    <3>2. CASE registered[i] = None
      <4>1. /\ registered'[i] = i /\ \A j \in Ids \ {i} : registered'[j] = registered[j]
            /\ \A g \in Groups \ {i} : men'[g] = men[g]
        BY <1>1, <2>3, <3>2 DEF Spawn, TypeOK
      <4>2. \A j \in Ids \ {i} : registered[j] # i
        BY DEF KindSound
      <4>3. OneGroupOneId'
        BY <4>1, <4>2 DEF OneIdPerGroup, OneGroupOneId
      <4>4. ASSUME NEW g \in Groups, men'[g] > 0 PROVE \E j \in Ids : registered'[j] = g
        <5>1. CASE g = i
          BY <4>1, <5>1
        <5>2. CASE g # i
          <6>1. PICK j \in Ids : registered[j] = g
            BY <4>1, <4>4, <5>2 DEF OneIdPerGroup, NobodyIsStray
          <6>2. j # i
            BY <1>1, <3>2, <6>1
          <6> QED BY <4>1, <6>1, <6>2
        <5> QED BY <5>1, <5>2
      <4> QED BY <4>3, <4>4 DEF OneIdPerGroup, NobodyIsStray
    <3> QED BY <3>1, <3>2
  <2>4. CASE Refill(i) \/ Fill(i)
    <3>1. /\ registered' = registered
          /\ \A g \in Groups : registered[i] # g => men'[g] = men[g]
      BY <1>1, <2>4 DEF Refill, Fill, TypeOK
    <3> QED BY <3>1 DEF OneIdPerGroup, OneGroupOneId, NobodyIsStray
  <2>5. CASE Enrol(i, e.player) /\ e.player \in Players /\ i \in OfPlayer
    <3>1. CASE seat[e.player] = None
      BY <1>2, <2>5, <3>1 DEF Enrol
    <3>2. CASE seat[e.player] # None
      <4>1. PICK g \in Seats :
           /\ registered[i] \in {g, None}
           /\ Collect(Named(i, g), typed) /\ men' = men
           /\ Named(i, g)[i] = g
           /\ \A j \in Ids \ {i} : /\ Named(i, g)[j] # g
                                   /\ Named(i, g)[j] = registered[j] \/ registered[j] = g
                                   /\ Named(i, g)[j] = registered[j] \/ Named(i, g)[j] = None
        BY <2>5, <3>2, Enrolled
      <4>2. \A j \in Ids : registered'[j] = Named(i, g)[j] \/ registered'[j] = None
        BY <4>1, Collected
      <4>3. OneGroupOneId'
        <5> SUFFICES ASSUME NEW j \in Ids, NEW k \in Ids, registered'[j] # None,
                            registered'[j] = registered'[k]
                     PROVE  j = k
          BY DEF OneGroupOneId
        <5>1. registered'[j] = Named(i, g)[j] /\ registered'[k] = Named(i, g)[k]
          BY <4>2
        <5>2. CASE j = i \/ k = i
          BY <4>1, <5>1, <5>2
        <5>3. CASE j # i /\ k # i
          BY <4>1, <5>1, <5>3 DEF OneIdPerGroup, OneGroupOneId
        <5> QED BY <5>2, <5>3
      <4>4. ASSUME NEW h \in Groups, men'[h] > 0 PROVE \E j \in Ids : registered'[j] = h
        <5>1. CASE h = g
          <6>1. registered'[i] = h
            BY <4>1, <4>4, <5>1, MenKeepTheName
          <6> QED BY <6>1
        <5>2. CASE h # g
          <6>1. PICK j \in Ids : registered[j] = h
            BY <4>1, <4>4 DEF OneIdPerGroup, NobodyIsStray
          <6>2. Named(i, g)[j] = h
            BY <1>1, <4>1, <5>2, <6>1
          <6>3. registered'[j] = h
            BY <4>1, <4>4, <6>2, MenKeepTheName
          <6> QED BY <6>3
        <5> QED BY <5>1, <5>2
      <4> QED BY <4>3, <4>4 DEF OneIdPerGroup, NobodyIsStray
    <3> QED BY <3>1, <3>2
  <2> QED BY <2>1, <2>2, <2>3, <2>4, <2>5
<1>5. ASSUME NEW g \in Groups, ManDies(g) PROVE OneIdPerGroup'
  <2>1. registered' = registered /\ men' = [men EXCEPT ![g] = @ - 1]
    BY <1>5 DEF ManDies
  <2>2. \A h \in Groups : men'[h] > 0 => men[h] > 0
    BY <1>1, <1>5, <2>1 DEF ManDies, TypeOK
  <2> QED BY <1>2, <2>1, <2>2
<1>6. ASSUME NEW g \in Groups, BodyLeaves(g) PROVE OneIdPerGroup'
  BY <1>3, <1>6 DEF BodyLeaves
<1>7. ASSUME NEW p \in Players, LeaveSlot(p) PROVE OneIdPerGroup'
  BY <1>3, <1>7 DEF LeaveSlot
<1>8. CASE \/ Purchase \/ (\E i \in Ids : Reinforce(i) \/ FirstFill(i))
           \/ Sweep \/ Sample \/ LoseReport \/ Fold \/ Poll \/ Acknowledge \/ LoseAck
           \/ (\E p \in Players : PlayerDies(p) \/ Respawn(p))
           \/ (\E p \in Players, g \in Seats : TakeSlot(p, g))
  <2>1. registered' = registered /\ men' = men
    BY <1>8 DEF Purchase, Reinforce, FirstFill, Sweep, Sample, LoseReport, Fold, Poll, Acknowledge,
       LoseAck, PlayerDies, Respawn, TakeSlot, world
  <2> QED BY <1>2, <2>1
<1>9. CASE UNCHANGED vars
  BY <1>2, <1>9 DEF vars, world
<1> QED BY <1>4, <1>5, <1>6, <1>7, <1>8, <1>9 DEF Next
-----------------------------------------------------------------------------
(* A Squad on its way.                                                       *)

\* A step that queues nothing, and puts no group under an id still on its way.
LEMMA WayStays ==
  ASSUME TypeOK, WaySound, outbox' = outbox, minted' = minted, report' = report \/ report' = NoReport,
         roster' \subseteq roster, \A i \in roster' : squad'[i].fielded => squad[i].fielded,
         carried' \in Nat, carried <= carried',
         \A i \in Ids : OnItsWay(i)' /\ registered[i] = None => registered'[i] = None
  PROVE  WaySound'
<1>1. carried \in Nat /\ Len(outbox) \in Nat
  BY DEF TypeOK
<1>2. \A i \in Ids : OnItsWay(i)' => OnItsWay(i)
  BY <1>1 DEF OnItsWay
<1>3. \A i \in Ids : report'.seen[i] = report.seen[i] \/ report'.seen[i] = 0
  BY DEF NoReport
<1>4. \A k, n \in DOMAIN outbox' :
        (outbox'[k].effect = "squad_spawned" /\ outbox'[n].effect = "squad_spawned"
           /\ outbox'[k].squad = outbox'[n].squad) => k = n
  BY DEF WaySound
<1> QED BY <1>2, <1>3, <1>4 DEF WaySound

\* A step that queues an Effect about a Squad that is there already.
LEMMA WayPushes ==
  ASSUME TypeOK, WaySound, NEW e \in Effect, Push(e), e.effect # "squad_spawned",
         minted \in Nat, minted' \in Nat, minted <= minted', report' = report \/ report' = NoReport,
         registered' = registered,
         \A i \in roster' : OnItsWay(i) => /\ i \in roster
                                           /\ squad'[i].fielded => squad[i].fielded \/ report.seen[i] # 0
  PROVE  WaySound'
<1>1. /\ DOMAIN outbox = 1..Len(outbox) /\ DOMAIN outbox' = 1..(Len(outbox) + 1)
      /\ \A k \in 1..Len(outbox) : outbox'[k] = outbox[k]
      /\ outbox'[Len(outbox) + 1] = e /\ carried' = carried
      /\ Len(outbox) \in Nat /\ carried \in Nat /\ Len(outbox') = Len(outbox) + 1
  BY Pushed DEF TypeOK
<1>2. ASSUME NEW k \in DOMAIN outbox', outbox'[k].effect = "squad_spawned"
      PROVE  k \in DOMAIN outbox /\ outbox'[k] = outbox[k]
  BY <1>1, <1>2
<1>3. \A k, n \in DOMAIN outbox' :
        (outbox'[k].effect = "squad_spawned" /\ outbox'[n].effect = "squad_spawned"
           /\ outbox'[k].squad = outbox'[n].squad) => k = n
  BY <1>2 DEF WaySound
<1>4. ASSUME NEW i \in Ids, OnItsWay(i)' PROVE OnItsWay(i)
  <2>1. PICK k \in (carried' + 1)..Len(outbox') :
           outbox'[k].effect = "squad_spawned" /\ outbox'[k].squad = i
    BY <1>4 DEF OnItsWay
  <2>2. k \in DOMAIN outbox'
    BY <1>1, <2>1
  <2>3. k \in DOMAIN outbox /\ outbox'[k] = outbox[k]
    BY <1>2, <2>1, <2>2
  <2>4. k \in (carried + 1)..Len(outbox)
    BY <1>1, <2>1, <2>3
  <2> QED BY <2>1, <2>3, <2>4 DEF OnItsWay
<1>5. \A i \in Ids : report'.seen[i] = report.seen[i] \/ report'.seen[i] = 0
  BY DEF NoReport
<1>6. \A i \in Ids : report'.seen[i] # 0 => i \in 1..minted'
  BY <1>5 DEF WaySound
<1>7. ASSUME NEW i \in Ids, OnItsWay(i)'
      PROVE  /\ registered'[i] = None /\ report'.seen[i] = 0
             /\ i \in roster' => ~ squad'[i].fielded
  <2>1. OnItsWay(i)
    BY <1>4, <1>7
  <2>2. registered[i] = None /\ report.seen[i] = 0 /\ (i \in roster => ~ squad[i].fielded)
    BY <2>1 DEF WaySound
  <2>3. i \in roster' => /\ i \in roster
                         /\ squad'[i].fielded => squad[i].fielded \/ report.seen[i] # 0
    BY <2>1
  <2> QED BY <1>5, <2>2, <2>3
<1> QED BY <1>3, <1>6, <1>7 DEF WaySound

LEMMA WayStep ==
  ASSUME TypeOK, KindSound, WaySound, [Next]_vars
  PROVE  WaySound'
<1>1. /\ minted \in Nat /\ minted <= MaxSquads /\ roster \subseteq 1..minted
      /\ carried \in Nat /\ Len(outbox) \in Nat /\ drained \in Nat /\ DOMAIN outbox = 1..Len(outbox)
  BY IdFacts DEF TypeOK
<1>2. roster \subseteq Ids
  BY <1>1, Constants DEF Ids
<1>3. \A i \in Ids : OnItsWay(i) => i \in 1..minted /\ i \in Bought
  <2> SUFFICES ASSUME NEW i \in Ids, OnItsWay(i) PROVE i \in Bought
    BY IdFacts
  <2>1. PICK k \in (carried + 1)..Len(outbox) :
           outbox[k].effect = "squad_spawned" /\ outbox[k].squad = i
    BY DEF OnItsWay
  <2>2. k \in DOMAIN outbox
    BY <1>1, <2>1
  <2> QED BY <2>1, <2>2 DEF Bought, Queued
<1>4. CASE Purchase
  <2>1. minted + 1 \in Ids
    BY <1>4, SpareIsAnId DEF Purchase
  <2>2. PICK e \in Effect : e = Say("squad_spawned", minted + 1, None) /\ Push(e)
    BY <1>4, <2>1 DEF Purchase, Say, Effect
  <2>3. e.squad = minted + 1 /\ e.effect = "squad_spawned"
    BY <2>2 DEF Say
  <2>4. /\ DOMAIN outbox' = 1..(Len(outbox) + 1) /\ Len(outbox') = Len(outbox) + 1
        /\ \A k \in 1..Len(outbox) : outbox'[k] = outbox[k]
        /\ outbox'[Len(outbox) + 1] = e /\ carried' = carried
    BY <2>2, Pushed
  <2>5. /\ minted' = minted + 1 /\ roster' = roster \union {minted + 1}
        /\ squad'[minted + 1].fielded = FALSE
        /\ \A i \in roster \ {minted + 1} : squad'[i] = squad[i]
        /\ registered' = registered /\ report' = report
    BY <1>2, <1>4, <2>1 DEF Purchase, Blank, TypeOK, world
  <2>6. \A k \in DOMAIN outbox : outbox[k].squad \in 1..minted
    BY DEF KindSound
  <2>7. minted + 1 \notin 1..minted /\ 1..minted \subseteq 1..(minted + 1)
    BY <1>1
  <2>8. \A k \in DOMAIN outbox' : k \in DOMAIN outbox \/ k = Len(outbox) + 1
    BY <1>1, <2>4
  <2>9. \A k, n \in DOMAIN outbox' :
          (outbox'[k].effect = "squad_spawned" /\ outbox'[n].effect = "squad_spawned"
             /\ outbox'[k].squad = outbox'[n].squad) => k = n
    <3> SUFFICES ASSUME NEW k \in DOMAIN outbox', NEW n \in DOMAIN outbox',
                        outbox'[k].effect = "squad_spawned", outbox'[n].effect = "squad_spawned",
                        outbox'[k].squad = outbox'[n].squad
                 PROVE  k = n
      OBVIOUS
    <3>1. CASE k \in DOMAIN outbox /\ n \in DOMAIN outbox
      BY <1>1, <2>4, <3>1 DEF WaySound
    <3>2. CASE k = Len(outbox) + 1 \/ n = Len(outbox) + 1
      BY <1>1, <2>3, <2>4, <2>6, <2>7, <2>8, <3>2
    <3> QED BY <2>8, <3>1, <3>2
  <2>10. ASSUME NEW i \in Ids, OnItsWay(i)' PROVE i = minted + 1 \/ OnItsWay(i)
    <3>1. PICK k \in (carried' + 1)..Len(outbox') :
             outbox'[k].effect = "squad_spawned" /\ outbox'[k].squad = i
      BY <2>10 DEF OnItsWay
    <3>2. CASE k = Len(outbox) + 1
      BY <2>3, <2>4, <3>1, <3>2
    <3>3. CASE k # Len(outbox) + 1
      <4>1. k \in (carried + 1)..Len(outbox) /\ k \in 1..Len(outbox)
        BY <1>1, <2>4, <3>1, <3>3
      <4> QED BY <2>4, <3>1, <4>1 DEF OnItsWay
    <3> QED BY <3>2, <3>3
  <2>11. registered[minted + 1] = None /\ report.seen[minted + 1] = 0
    BY <2>1, <2>7 DEF KindSound, WaySound
  <2>12. ASSUME NEW i \in Ids, OnItsWay(i)'
         PROVE  /\ registered'[i] = None /\ report'.seen[i] = 0
                /\ i \in roster' => ~ squad'[i].fielded
    <3>1. CASE i = minted + 1
      BY <2>5, <2>11, <3>1
    <3>2. CASE i # minted + 1
      BY <2>5, <2>10, <2>12, <3>2 DEF WaySound
    <3> QED BY <3>1, <3>2
  <2>13. \A i \in Ids : report'.seen[i] # 0 => i \in 1..minted'
    BY <2>5, <2>7 DEF WaySound
  <2> QED BY <2>9, <2>12, <2>13 DEF WaySound
<1>5. ASSUME NEW i \in Ids, Reinforce(i) \/ FirstFill(i) PROVE WaySound'
  <2>1. PICK e \in Effect : Push(e) /\ e.effect \in {"squad_reinforced", "squad_filled"}
    BY <1>5 DEF Reinforce, FirstFill, Say, Effect
  <2>2. minted' = minted /\ roster' = roster /\ registered' = registered /\ report' = report
    BY <1>5 DEF Reinforce, FirstFill, world
  <2>3. squad \in [Ids -> Squad]
    BY DEF TypeOK
  <2>4. \A j \in Ids : squad'[j].fielded = squad[j].fielded
    BY <1>5, <2>3 DEF Reinforce, FirstFill, Squad
  <2> QED BY <1>1, <1>2, <2>1, <2>2, <2>4, WayPushes
<1>6. CASE Fold
  <2> DEFINE kept == roster \ Lost(report.seen)
  <2>1. /\ \/ \E p \in Players : \E i \in Ids : Enrolment(kept, p, i)
           \/ UNCHANGED <<minted, queue>> /\ roster' = kept
        /\ \A i \in kept : squad'[i].fielded => squad[i].fielded \/ report.seen[i] # 0
        /\ registered' = registered /\ report' = NoReport
    BY <1>6, FoldDoes DEF world
  <2>2. kept \subseteq roster
    OBVIOUS
  <2> HIDE DEF kept
  <2>3. CASE UNCHANGED <<minted, queue>> /\ roster' = kept
    <3>1. outbox' = outbox /\ carried' = carried
      BY <2>3 DEF queue, drain
    <3>2. \A i \in Ids : OnItsWay(i)' => OnItsWay(i)
      BY <3>1 DEF OnItsWay
    <3>3. \A i \in Ids : report'.seen[i] = 0
      BY <2>1 DEF NoReport
    <3> QED BY <1>2, <2>1, <2>2, <2>3, <3>1, <3>2, <3>3 DEF WaySound
  <2>4. ASSUME NEW p \in Players, NEW i \in Ids, Enrolment(kept, p, i) PROVE WaySound'
    <3>1. PICK e \in Effect : Push(e) /\ e.squad = i /\ e.effect = "squad_enrolled"
      BY <2>4 DEF Enrolment, Say, Effect
    <3>2. \/ minted' = minted + 1 /\ roster' = kept \union {minted + 1}
          \/ minted' = minted /\ roster' = kept
      BY <2>4 DEF Enrolment
    <3>3. minted' \in Nat /\ minted <= minted' /\ minted + 1 \notin 1..minted
      BY <1>1, <3>2
    <3>4. roster' \subseteq kept \union {minted + 1}
      BY <3>2
    <3>5. ASSUME NEW j \in roster', OnItsWay(j)
          PROVE  j \in roster /\ (squad'[j].fielded => squad[j].fielded \/ report.seen[j] # 0)
      <4>1. j \in 1..minted
        <5>1. PICK k \in (carried + 1)..Len(outbox) : outbox[k].squad = j
          BY <3>5 DEF OnItsWay
        <5>2. k \in DOMAIN outbox
          BY <1>1, <5>1
        <5> QED BY <5>1, <5>2 DEF KindSound
      <4> QED BY <2>1, <2>2, <3>3, <3>4, <4>1
    <3> QED BY <1>1, <2>1, <3>1, <3>3, <3>5, WayPushes
  <2> QED BY <2>1, <2>3, <2>4
<1>7. CASE Sample
  <2>1. UNCHANGED <<roster, squad, minted, outbox, carried, registered>>
    BY <1>7 DEF Sample, daemon, queue, drain, world
  <2>2. \A i \in Ids : report'.seen[i] # 0 => registered[i] # None
    BY <1>7 DEF Sample
  <2>3. \A i \in Ids : OnItsWay(i)' => OnItsWay(i)
    BY <2>1 DEF OnItsWay
  <2>4. \A i \in Ids : report'.seen[i] # 0 => i \in 1..minted'
    BY <2>1, <2>2 DEF KindSound
  <2> QED BY <2>1, <2>2, <2>3, <2>4 DEF WaySound
<1>8. CASE Acknowledge
  <2>1. /\ DOMAIN outbox' = 1..(Len(outbox) - batch) /\ Len(outbox') = Len(outbox) - batch
        /\ \A k \in DOMAIN outbox' : outbox'[k] = outbox[k + batch] /\ k + batch \in DOMAIN outbox
        /\ batch \in Nat /\ batch <= carried /\ carried <= Len(outbox)
    BY <1>8, Acknowledged
  <2>2. /\ UNCHANGED <<roster, squad, minted, registered, report>>
        /\ carried' = carried - batch
    BY <1>8 DEF Acknowledge, daemon, world
  <2>3. ASSUME NEW k \in DOMAIN outbox', NEW n \in DOMAIN outbox',
               outbox'[k].effect = "squad_spawned", outbox'[n].effect = "squad_spawned",
               outbox'[k].squad = outbox'[n].squad
        PROVE  k = n
    <3>1. k + batch = n + batch
      BY <2>1, <2>3 DEF WaySound
    <3> QED BY <1>1, <2>1, <3>1
  <2>4. ASSUME NEW i \in Ids, OnItsWay(i)' PROVE OnItsWay(i)
    <3>1. PICK k \in (carried' + 1)..Len(outbox') :
             outbox'[k].effect = "squad_spawned" /\ outbox'[k].squad = i
      BY <2>4 DEF OnItsWay
    <3>2. k \in DOMAIN outbox' /\ k + batch \in (carried + 1)..Len(outbox)
      BY <1>1, <2>1, <2>2, <3>1
    <3> QED BY <2>1, <3>1, <3>2 DEF OnItsWay
  <2> QED BY <2>2, <2>3, <2>4 DEF WaySound
<1>9. CASE CarryOut
  <2>1. PICK e \in Effect :
           /\ e = outbox[drained + 1] /\ drained + 1 \in DOMAIN outbox
           /\ e.squad \in Ids
           /\ \/ e.effect = "squad_spawned" /\ Spawn(e.squad)
              \/ Refill(e.squad)
              \/ Fill(e.squad)
              \/ Enrol(e.squad, e.player) /\ e.player \in Players /\ e.squad \in OfPlayer
    BY <1>9, Drained
  <2>2. /\ UNCHANGED <<roster, squad, minted, outbox, report>>
        /\ carried' \in Nat /\ carried <= carried' /\ drained + 1 <= carried'
    BY <1>1, <1>9 DEF CarryOut, daemon, TypeOK
  <2>3. ASSUME NEW i \in Ids, OnItsWay(i)', registered[i] = None
        PROVE  registered'[i] = None
    <3>1. PICK k \in DOMAIN outbox :
             k > carried' /\ outbox[k].effect = "squad_spawned" /\ outbox[k].squad = i
      <4>1. PICK k \in (carried' + 1)..Len(outbox') :
               outbox'[k].effect = "squad_spawned" /\ outbox'[k].squad = i
        BY <2>3 DEF OnItsWay
      <4>2. Len(outbox') = Len(outbox) /\ carried' \in Nat
        BY <2>2
      <4>3. k \in 1..Len(outbox) /\ k > carried'
        <5>1. Len(outbox) \in Nat
          BY <1>1
        <5> QED BY <4>1, <4>2, <5>1
      <4> QED BY <1>1, <2>2, <4>1, <4>3
    <3>2. k # drained + 1 /\ k \in (carried + 1)..Len(outbox)
      BY <1>1, <2>2, <3>1
    <3>3. i \in Bought
      BY <1>3, <3>1, <3>2 DEF OnItsWay
    <3>4. CASE e.effect = "squad_spawned" /\ Spawn(e.squad)
      <4>1. e.squad # i
        BY <2>1, <3>1, <3>2, <3>4 DEF WaySound
      <4> QED BY <2>1, <2>3, <3>4, <4>1 DEF Spawn, TypeOK
    <3>5. CASE Refill(e.squad) \/ Fill(e.squad)
      BY <2>3, <3>5 DEF Refill, Fill
    <3>6. CASE Enrol(e.squad, e.player) /\ e.player \in Players /\ e.squad \in OfPlayer
      <4>1. CASE seat[e.player] = None
        BY <2>3, <3>6, <4>1 DEF Enrol
      <4>2. CASE seat[e.player] # None
        <5>1. PICK g \in Seats :
                /\ Collect(Named(e.squad, g), typed)
                /\ \A j \in Ids \ {e.squad} : Named(e.squad, g)[j] = registered[j]
                                             \/ Named(e.squad, g)[j] = None
          BY <2>1, <3>6, <4>2, Enrolled
        <5>2. e.squad # i
          BY <3>3, <3>6 DEF KindSound
        <5>3. registered'[i] = Named(e.squad, g)[i] \/ registered'[i] = None
          BY <5>1, Collected
        <5> QED BY <2>3, <5>1, <5>2, <5>3
      <4> QED BY <4>1, <4>2
    <3> QED BY <2>1, <3>4, <3>5, <3>6
  <2> QED BY <2>2, <2>3, WayStays
<1>10. ASSUME Collect(registered, typed), UNCHANGED <<daemon, queue, report>> PROVE WaySound'
  <2>1. \A i \in Ids : registered'[i] = registered[i] \/ registered'[i] = None
    BY <1>10, Collected
  <2> QED BY <1>1, <1>10, <2>1, WayStays DEF daemon, queue, drain
<1>11. CASE \/ \E g \in Groups : BodyLeaves(g)
            \/ \E p \in Players : LeaveSlot(p)
  BY <1>10, <1>11 DEF BodyLeaves, LeaveSlot
<1>12. CASE \/ Sweep \/ LoseReport \/ Poll \/ LoseAck
            \/ \E g \in Groups : ManDies(g)
            \/ \E p \in Players : PlayerDies(p) \/ Respawn(p)
            \/ \E p \in Players, g \in Seats : TakeSlot(p, g)
  <2>1. /\ UNCHANGED <<roster, squad, minted, outbox, carried, registered>>
        /\ report' = report \/ report' = NoReport
    BY <1>12 DEF Sweep, LoseReport, Poll, LoseAck, ManDies, PlayerDies, Respawn, TakeSlot, daemon,
       queue, drain, world
  <2> QED BY <1>1, <2>1, WayStays
<1>13. CASE UNCHANGED vars
  BY <1>1, <1>13, WayStays DEF vars, daemon, queue, drain, world
<1> QED BY <1>4, <1>5, <1>6, <1>7, <1>8, <1>9, <1>11, <1>12, <1>13 DEF Next
-----------------------------------------------------------------------------
LEMMA Initially == Init => IInv
<1> SUFFICES ASSUME Init PROVE IInv
  OBVIOUS
<1>1. DaemonOK /\ ReportOK
  BY Constants, ShellType DEF Init, DaemonOK, ReportOK, NoReport
<1>2. QueueOK
  BY DEF Init, QueueOK
<1>3. WorldOK /\ RestOK
  BY Constants DEF Init, WorldOK, RestOK
<1>4. TypeOK
  BY <1>1, <1>2, <1>3, TypeParts
<1>5. outbox = <<>> /\ DOMAIN outbox = {} /\ roster = {} /\ (\A i \in Ids : registered[i] = None)
      /\ (\A g \in Groups : men[g] = 0 /\ bodies[g] = 0) /\ (\A p \in Players : seat[p] = None)
      /\ (\A i \in Ids : report.seen[i] = 0) /\ deaths = 0 /\ Len(outbox) = 0 /\ carried = 0
  BY DEF Init, NoReport
<1>6. \A name : Queued(name) = {}
  BY <1>5 DEF Queued
<1>7. KindSound
  BY <1>5, <1>6, Constants DEF KindSound, Bought, OfPlayer
<1>8. SeatSound
  BY <1>5 DEF SeatSound
<1>9. WaySound
  BY <1>5 DEF WaySound, OnItsWay
<1>10. OneSquadPerPlayer /\ OneIdPerGroup
  BY <1>5 DEF OneSquadPerPlayer, OneIdPerGroup, OneGroupOneId, NobodyIsStray
<1> QED BY <1>4, <1>7, <1>8, <1>9, <1>10 DEF IInv

LEMMA Inductive == IInv /\ [Next]_vars => IInv'
<1> SUFFICES ASSUME IInv, [Next]_vars PROVE IInv'
  OBVIOUS
<1>1. TypeOK /\ KindSound /\ SeatSound /\ WaySound /\ OneSquadPerPlayer /\ OneIdPerGroup
  BY DEF IInv
<1>2. TypeOK'
  BY <1>1, TypeStep
<1>3. KindSound' /\ SeatSound' /\ WaySound'
  BY <1>1, KindStep, SeatStep, WayStep
<1>4. OneSquadPerPlayer' /\ OneIdPerGroup'
  BY <1>1, <1>2, LeadersStep, GroupsStep
<1> QED BY <1>2, <1>3, <1>4 DEF IInv

LEMMA Invariant == Spec => []IInv
BY Initially, Inductive, PTL DEF Spec

\* Every variable keeps its type: the roster holds minted ids only, the drain stays
\* inside the queue, and no refill brings a group above the size it was bought at.
THEOREM TypeCorrect == Spec => []TypeOK
<1>1. IInv => TypeOK
  BY DEF IInv
<1> QED BY <1>1, Invariant, PTL

\* However reports are delayed or lost, a player leads at most one Squad of the roster.
THEOREM OneLeaderEach == Spec => []OneSquadPerPlayer
<1>1. IInv => OneSquadPerPlayer
  BY DEF IInv
<1> QED BY <1>1, Invariant, PTL

\* However Effects are repeated and players come and go, no group answers to two ids,
\* and one with men in it answers to one.
THEOREM OneIdEachGroup == Spec => []OneIdPerGroup
<1>1. IInv => OneIdPerGroup
  BY DEF IInv
<1> QED BY <1>1, Invariant, PTL

\* No report, however late it is folded, drops a Squad whose men are still to be put
\* on the map.
THEOREM OnItsWayStays == Spec => OnItsWayIsKept
<1> DEFINE Keeping == \A i \in roster \ roster' : \A k \in (carried + 1)..Len(outbox) :
                        ~(outbox[k].effect = "squad_spawned" /\ outbox[k].squad = i)
<1>1. IInv /\ [Next]_vars => [Keeping]_vars
  <2> SUFFICES ASSUME IInv, Next PROVE Keeping
    OBVIOUS
  <2>1. TypeOK /\ KindSound /\ WaySound
    BY DEF IInv
  <2>2. CASE Fold
    <3> SUFFICES ASSUME NEW i \in roster, i \notin roster' PROVE ~ OnItsWay(i)
      BY DEF OnItsWay
    <3>1. i \in Ids
      BY <2>1, IdFacts, Constants DEF Ids
    <3>2. i \in Lost(report.seen)
      <4>1. roster \ Lost(report.seen) \subseteq roster'
        BY <2>1, <2>2, FoldDoes DEF Enrolment
      <4> QED BY <4>1
    <3>3. squad[i].fielded
      BY <3>2 DEF Lost
    <3> QED BY <2>1, <3>1, <3>3 DEF WaySound
  <2>3. ASSUME NEW i \in Ids, Reinforce(i) \/ FirstFill(i) PROVE Keeping
    BY <2>3 DEF Reinforce, FirstFill
  <2>4. CASE Purchase
    BY <2>4 DEF Purchase
  <2>5. CASE \/ Sweep \/ Sample \/ LoseReport \/ Poll \/ CarryOut \/ Acknowledge \/ LoseAck
             \/ \E g \in Groups : ManDies(g) \/ BodyLeaves(g)
             \/ \E p \in Players : PlayerDies(p) \/ Respawn(p) \/ LeaveSlot(p)
             \/ \E p \in Players, g \in Seats : TakeSlot(p, g)
    <3>1. roster' = roster
      BY <2>5 DEF Sweep, Sample, LoseReport, Poll, CarryOut, Acknowledge, LoseAck, ManDies,
         BodyLeaves, PlayerDies, Respawn, LeaveSlot, TakeSlot, daemon
    <3> QED BY <3>1
  <2> HIDE DEF Keeping
  <2> QED BY <2>2, <2>3, <2>4, <2>5 DEF Next
<1>2. Spec => [][Keeping]_vars
  BY <1>1, Invariant, PTL DEF Spec
<1> QED BY <1>2 DEF OnItsWayIsKept
=============================================================================
