--------------------------- MODULE SquadLifecycle ---------------------------
(***************************************************************************)
(* One side's Squads, seen from both ends: the daemon's roster (squads.py,  *)
(* campaign.py, port.py), what a report does to it (report_cycle.py), and   *)
(* the groups of the world that answer to the minted ids                    *)
(* (fn_effectApply.sqf and the samplers).                                   *)
(*                                                                          *)
(* Effects travel in order and at least once (EffectDelivery): here a       *)
(* cursor walks the queue and goes back to its head when an acknowledgement *)
(* is lost.  A report is taken at one moment and folded at a later one, or  *)
(* never.  One squad-leader slot a side: at most one player sits in it.     *)
(***************************************************************************)
EXTENDS Naturals, FiniteSets, Sequences

CONSTANTS Players,      \* those who may take the squad-leader slot
          Seats,        \* groups the engine may put the slot's player in
          None,         \* nobody, no group
          Full,         \* the size the one Squad type is bought at
          MaxSquads,    \* bound: ids the roster mints
          MaxQueued,    \* bound: Effects queued before a Command waits
          MaxDeaths,    \* bound: men of a Squad who die
          MaxReturns,   \* bound: times a player takes the slot
          MaxLost,      \* bound: acknowledgements and reports that are lost
          QuickReturns  \* may a player be back before his departure was folded?

ASSUME LifecycleAssumption ==
  /\ IsFiniteSet(Players) /\ None \notin Players \union Seats \union (1..MaxSquads)
  /\ Full \in Nat \ {0, 1}
  /\ {MaxSquads, MaxQueued, MaxDeaths, MaxReturns, MaxLost} \subseteq Nat
  /\ Seats \intersect (1..MaxSquads) = {}
  /\ QuickReturns \in BOOLEAN

VARIABLES
  roster,      \* Roster._squads: the ids it holds
  squad,       \* what it holds of each of them
  minted,      \* Roster._minted
  leading,     \* ReportCycle._leading
  outbox,      \* Outbox._entries
  batch,       \* how much of it the drain in progress was handed
  drained,     \* how much of that it has carried out
  carried,     \* how much of it has been carried out at least once
  report,      \* the report on its way, with what was sampled for it
  registered,  \* cti_squads: the group that answers to each id
  men,         \* the living AI of each group
  bodies,      \* the dead a group still counts among its units
  typed,       \* the groups that carry cti_squadType
  seat,        \* the group each player's unit is in
  alive,       \* the players who are not on their death timer
  occupied,    \* cti_squadLeaders, as of the last sweep
  deaths, returns, losses

daemon == <<roster, squad, minted, leading>>
drain  == <<batch, drained, carried>>
queue  == <<outbox, drain>>
world  == <<registered, men, bodies, typed, seat, alive>>
bounds == <<deaths, returns, losses>>
vars   == <<daemon, queue, report, world, occupied, bounds>>

Ids    == 1..MaxSquads
Groups == Ids \union Seats

Squad == [size : 0..(2 * Full), home : BOOLEAN, fielded : BOOLEAN, assigned : BOOLEAN,
          suspended : BOOLEAN, led : Players \union {None}]
Blank == [size |-> 0, home |-> FALSE, fielded |-> FALSE, assigned |-> FALSE,
          suspended |-> FALSE, led |-> None]

Effect ==
  [effect : {"squad_spawned", "squad_reinforced", "squad_filled"}, squad : Ids, player : {None}]
    \union [effect : {"squad_enrolled"}, squad : Ids, player : Players]

NoReport == [taken |-> FALSE, seen |-> [i \in Ids |-> 0], claimed |-> {}]

\* A roster entry exists for minted ids only, the drain stays inside the queue, and
\* no group is ever brought above the size it was bought at.
TypeOK ==
  /\ roster \subseteq 1..minted /\ minted \in 0..MaxSquads
  /\ squad \in [Ids -> Squad]
  /\ leading \subseteq Players
  /\ outbox \in Seq(Effect) /\ carried \in 0..Len(outbox)
  /\ batch \in 0..Len(outbox) /\ drained \in 0..batch /\ drained <= carried
  /\ report \in [taken : BOOLEAN, seen : [Ids -> 0..(2 * Full)], claimed : SUBSET Players]
  /\ registered \in [Ids -> Groups \union {None}]
  /\ men \in [Groups -> 0..Full] /\ bodies \in [Groups -> 0..MaxDeaths]
  /\ typed \subseteq Groups
  /\ seat \in [Players -> Groups \union {None}] /\ alive \subseteq Players
  /\ occupied \subseteq Players
  /\ deaths \in 0..MaxDeaths /\ returns \in 0..MaxReturns /\ losses \in 0..MaxLost

Init ==
  /\ roster = {} /\ squad = [i \in Ids |-> Blank] /\ minted = 0 /\ leading = {}
  /\ outbox = <<>> /\ batch = 0 /\ drained = 0 /\ carried = 0
  /\ report = NoReport
  /\ registered = [i \in Ids |-> None]
  /\ men = [g \in Groups |-> 0] /\ bodies = [g \in Groups |-> 0] /\ typed = {}
  /\ seat = [p \in Players |-> None] /\ alive = {} /\ occupied = {}
  /\ deaths = 0 /\ returns = 0 /\ losses = 0
-----------------------------------------------------------------------------
(* Groups of the engine.                                                    *)

\* `units` where `m` live, `b` lie dead and `s` says who sits where: the living,
\* the dead not yet taken out, and the players, dead or not.
Count(m, b, s, g) == m[g] + b[g] + Cardinality({p \in Players : s[p] = g})

Units(g) == Count(men, bodies, seat, g)

\* `{alive _x} count units`.
Living(g) == men[g] + Cardinality({p \in alive : seat[p] = g})

\* A group whose last unit is gone is deleted: an id that named it names grpNull.
Collect(named, tagged) ==
  /\ registered' = [i \in Ids |-> IF named[i] = None THEN None
                                  ELSE IF Count(men', bodies', seat', named[i]) > 0
                                  THEN named[i] ELSE None]
  /\ typed' = {g \in tagged : Count(men', bodies', seat', g) > 0}
-----------------------------------------------------------------------------
(* The Commander's verbs, as the port judges them and the Campaign does.    *)

Say(name, i, p) == [effect |-> name, squad |-> i, player |-> p]

Push(e) == outbox' = Append(outbox, e) /\ UNCHANGED drain

\* The bounds leave an id for every player who may still need a shell.
Unshelled == {p \in Players : ~\E i \in roster : squad[i].led = p /\ ~squad[i].assigned}
Room == Len(outbox) < MaxQueued
SpareId == minted + Cardinality(Unshelled) < MaxSquads

Purchase ==
  /\ Room /\ SpareId
  /\ minted' = minted + 1 /\ roster' = roster \union {minted + 1}
  /\ squad' = [squad EXCEPT ![minted + 1] =
                 [Blank EXCEPT !.size = Full, !.assigned = TRUE]]
  /\ Push(Say("squad_spawned", minted + 1, None))
  /\ UNCHANGED <<leading, report, world, occupied, bounds>>

\* Reinforce: an assigned Squad short of men and last seen at its own Base.
Reinforce(i) ==
  /\ Room /\ i \in roster
  /\ squad[i].assigned /\ squad[i].size < Full /\ squad[i].home
  /\ squad' = [squad EXCEPT ![i].size = Full]
  /\ Push(Say("squad_reinforced", i, None))
  /\ UNCHANGED <<roster, minted, leading, report, world, occupied, bounds>>

\* The composition-carrying Reinforce: once, for a shell that is not suspended.
FirstFill(i) ==
  /\ Room /\ SpareId /\ i \in roster
  /\ ~squad[i].suspended /\ ~squad[i].assigned /\ squad[i].home
  /\ squad' = [squad EXCEPT ![i].assigned = TRUE, ![i].size = Full]
  /\ Push(Say("squad_filled", i, None))
  /\ UNCHANGED <<roster, minted, leading, report, world, occupied, bounds>>
-----------------------------------------------------------------------------
(* A report.                                                                *)

\* cti_fnc_squadLeaderWatch.
Sweep ==
  /\ occupied' = {p \in Players : seat[p] # None}
  /\ UNCHANGED <<daemon, queue, report, world, bounds>>

\* cti_fnc_squadSample and cti_fnc_squadLeaderSample: a Squad nobody lives in is
\* left out.
Sample ==
  /\ ~report.taken
  /\ report' = [taken |-> TRUE, claimed |-> occupied,
                seen |-> [i \in Ids |-> IF registered[i] = None THEN 0
                                        ELSE Living(registered[i])]]
  /\ UNCHANGED <<daemon, queue, world, occupied, bounds>>

LoseReport ==
  /\ report.taken /\ losses < MaxLost
  /\ report' = NoReport /\ losses' = losses + 1
  /\ UNCHANGED <<daemon, queue, world, occupied, deaths, returns>>

\* Fault: a Squad on its way to the world is one the world has lost.
LostWhenUnseen(seen) == {i \in roster : seen[i] = 0 /\ squad[i].assigned}

\* Roster.reconcile: a Squad with a composition that the world held and holds no more.
Lost(seen) == {i \in roster : seen[i] = 0 /\ squad[i].fielded /\ squad[i].assigned}

\* What the world says of a Squad; where it stands is the world's to say.
Held(i, size, home) == [squad[i] EXCEPT !.size = size, !.home = home, !.fielded = TRUE]

LedBy(p, kept) == {i \in kept : squad[i].led = p}

\* Fault: a claim mints a shell whatever the player leads already.
EnrolsAlways(p, kept) == p \notin leading

\* ReportCycle._claim mints a shell for a player the roster holds no Squad for.
Enrols(p, kept) == LedBy(p, kept) = {}

\* Fault: the cache alone suppresses a claim.
ArrivesOnce(p, kept) == p \notin leading

\* The claims acted on: the cache only suppresses a player who leads already.
Arrives(p, kept) ==
  ~(p \in leading /\ \E i \in LedBy(p, kept) : ~squad[i].suspended)

\* A shell whose player the report does not name is suspended; a suspended one
\* whose player arrives is brought back at its own Base.
Led(i, s, claimed) ==
  IF s.led = None \/ s.assigned THEN s
  ELSE IF s.led \notin claimed THEN
       IF s.suspended THEN s ELSE [s EXCEPT !.suspended = TRUE, !.size = 0]
  ELSE IF s.suspended THEN [s EXCEPT !.suspended = FALSE, !.size = 1, !.home = TRUE]
  ELSE s

Shell(p) == [Blank EXCEPT !.size = 1, !.home = TRUE, !.led = p]

\* Daemon.observe, ReportCycle.fold: reconcile, then _lead.
Fold ==
  /\ report.taken /\ report' = NoReport
  /\ \E home \in [Ids -> BOOLEAN] :
       LET kept     == roster \ Lost(report.seen)
           told(i)  == IF i \notin kept THEN Blank
                       ELSE Led(i, IF report.seen[i] > 0
                                   THEN Held(i, report.seen[i], home[i])
                                   ELSE squad[i], report.claimed)
           arrivals == {p \in report.claimed : Arrives(p, kept)}
           fresh    == {p \in arrivals : Enrols(p, kept)}
       IN  /\ \A i \in Ids : (i \notin kept \/ report.seen[i] = 0) => ~home[i]
           /\ fresh # {} => minted < MaxSquads
           /\ leading' = (leading \union arrivals) \intersect report.claimed
           /\ IF fresh # {}
              THEN \E p \in fresh :
                     /\ minted' = minted + 1
                     /\ roster' = kept \union {minted + 1}
                     /\ squad' = [i \in Ids |-> IF i = minted + 1 THEN Shell(p) ELSE told(i)]
                     /\ Push(Say("squad_enrolled", minted + 1, p))
              ELSE /\ UNCHANGED minted
                   /\ roster' = kept
                   /\ squad' = [i \in Ids |-> told(i)]
                   /\ IF arrivals = {} THEN UNCHANGED queue
                      ELSE \E p \in arrivals : \E i \in LedBy(p, kept) :
                             Push(Say("squad_enrolled", i, p))
  /\ UNCHANGED <<world, occupied, bounds>>
-----------------------------------------------------------------------------
(* cti_fnc_effectApply.                                                     *)

\* Fault: nobody standing is counted.
OwedAlways(g) == Full

\* The men a group is short of `size`, counting everyone `units` counts.
Owed(g) == IF Full > Units(g) THEN Full - Units(g) ELSE 0

\* A Squad id already standing is an Effect already applied.
Spawn(i) ==
  /\ IF registered[i] # None
     THEN UNCHANGED <<men, registered, typed>>
     ELSE /\ men' = [men EXCEPT ![i] = Full]
          /\ registered' = [registered EXCEPT ![i] = i]
          /\ typed' = typed \union {i}
  /\ UNCHANGED <<bodies, seat>>

\* Refused when no group answers to the id, or the one that does has no type.
Refill(i) ==
  /\ IF registered[i] # None /\ registered[i] \in typed
     THEN men' = [men EXCEPT ![registered[i]] = @ + Owed(registered[i])]
     ELSE UNCHANGED men
  /\ UNCHANGED <<bodies, seat, registered, typed>>

Fill(i) ==
  /\ IF registered[i] # None
     THEN /\ men' = [men EXCEPT ![registered[i]] = @ + Owed(registered[i])]
          /\ typed' = typed \union {registered[i]}
     ELSE UNCHANGED <<men, typed>>
  /\ UNCHANGED <<bodies, seat, registered>>

\* Fault: the id that named a player's group before keeps naming it.
NamedTwice(i, g) == [registered EXCEPT ![i] = g]

\* The group the player is in once enrolled: his Squad's, when it still stands.
Joins(i, p) == IF registered[i] # None THEN registered[i] ELSE seat[p]

\* One group, one Squad id.
Named(i, g) ==
  [j \in Ids |-> IF j = i THEN g ELSE IF registered[j] = g THEN None ELSE registered[j]]

\* Refused when the player is gone.
Enrol(i, p) ==
  /\ UNCHANGED <<men, bodies>>
  /\ IF seat[p] = None
     THEN UNCHANGED <<seat, registered, typed>>
     ELSE /\ seat' = [seat EXCEPT ![p] = Joins(i, p)]
          /\ Collect(Named(i, Joins(i, p)), typed)

\* A poll hands the drain what is queued now.
Poll ==
  /\ batch = 0 /\ outbox # <<>>
  /\ batch' = Len(outbox)
  /\ UNCHANGED <<daemon, outbox, drained, carried, report, world, occupied, bounds>>

\* The next Effect of the drain.
CarryOut ==
  /\ drained < batch
  /\ LET e == outbox[drained + 1]
     IN  \/ e.effect = "squad_spawned"    /\ Spawn(e.squad)
         \/ e.effect = "squad_reinforced" /\ Refill(e.squad)
         \/ e.effect = "squad_filled"     /\ Fill(e.squad)
         \/ e.effect = "squad_enrolled"   /\ Enrol(e.squad, e.player)
  /\ drained' = drained + 1
  /\ carried' = IF drained = carried THEN carried + 1 ELSE carried
  /\ UNCHANGED <<daemon, outbox, batch, report, alive, occupied, bounds>>

Acknowledge ==
  /\ batch > 0 /\ drained = batch
  /\ outbox' = SubSeq(outbox, batch + 1, Len(outbox))
  /\ batch' = 0 /\ drained' = 0 /\ carried' = carried - batch
  /\ UNCHANGED <<daemon, report, world, occupied, bounds>>

LoseAck ==
  /\ batch > 0 /\ drained = batch /\ losses < MaxLost
  /\ batch' = 0 /\ drained' = 0 /\ losses' = losses + 1
  /\ UNCHANGED <<daemon, outbox, carried, report, world, occupied, deaths, returns>>
-----------------------------------------------------------------------------
(* What happens on the map.                                                 *)

ManDies(g) ==
  /\ men[g] > 0 /\ deaths < MaxDeaths
  /\ men' = [men EXCEPT ![g] = @ - 1] /\ bodies' = [bodies EXCEPT ![g] = @ + 1]
  /\ deaths' = deaths + 1
  /\ UNCHANGED <<daemon, queue, report, registered, typed, seat, alive, occupied,
                 returns, losses>>

\* Some seconds later a dead man leaves his group.
BodyLeaves(g) ==
  /\ bodies[g] > 0 /\ bodies' = [bodies EXCEPT ![g] = @ - 1]
  /\ UNCHANGED <<men, seat>>
  /\ Collect(registered, typed)
  /\ UNCHANGED <<daemon, queue, report, alive, occupied, bounds>>

PlayerDies(p) ==
  /\ p \in alive /\ alive' = alive \ {p}
  /\ UNCHANGED <<daemon, queue, report, registered, men, bodies, typed, seat, occupied, bounds>>

Respawn(p) ==
  /\ seat[p] # None /\ p \notin alive /\ alive' = alive \union {p}
  /\ UNCHANGED <<daemon, queue, report, registered, men, bodies, typed, seat, occupied, bounds>>

\* The engine makes the slot a group of its own, or the group its men are still in.
TakeSlot(p, g) ==
  /\ \A q \in Players : seat[q] = None
  /\ returns < MaxReturns /\ returns' = returns + 1
  /\ p \in leading \union occupied \union report.claimed => QuickReturns
  /\ seat' = [seat EXCEPT ![p] = g] /\ alive' = alive \union {p}
  /\ UNCHANGED <<daemon, queue, report, registered, men, bodies, typed, occupied,
                 deaths, losses>>

LeaveSlot(p) ==
  /\ seat[p] # None
  /\ seat' = [seat EXCEPT ![p] = None] /\ alive' = alive \ {p}
  /\ UNCHANGED <<men, bodies>>
  /\ Collect(registered, typed)
  /\ UNCHANGED <<daemon, queue, report, occupied, bounds>>
-----------------------------------------------------------------------------
Next ==
  \/ Purchase \/ \E i \in Ids : Reinforce(i) \/ FirstFill(i)
  \/ Sweep \/ Sample \/ LoseReport \/ Fold
  \/ Poll \/ CarryOut \/ Acknowledge \/ LoseAck
  \/ \E g \in Groups : ManDies(g) \/ BodyLeaves(g)
  \/ \E p \in Players : PlayerDies(p) \/ Respawn(p) \/ LeaveSlot(p)
  \/ \E p \in Players, g \in Seats : TakeSlot(p, g)

Spec == Init /\ [][Next]_vars

\* The loops of the addon keep turning and the wire does not fail every call.
Fairness ==
  /\ WF_vars(Sweep) /\ WF_vars(Sample) /\ WF_vars(Fold)
  /\ WF_vars(Poll) /\ WF_vars(CarryOut) /\ SF_vars(Acknowledge)

FairSpec == Spec /\ Fairness
-----------------------------------------------------------------------------
\* A player leads at most one Squad: led_by has one answer.
OneSquadPerPlayer ==
  \A i, j \in roster : (squad[i].led # None /\ squad[i].led = squad[j].led) => i = j

\* No two ids name one group: an Order to a stale id never reaches men who are
\* counted under a live one.
OneGroupOneId == \A i, j \in Ids : (registered[i] # None /\ registered[i] = registered[j]) => i = j

\* Every group with men in it answers to some id: nobody stands where no Order can
\* reach him and no sample counts him (#141).
NobodyIsStray == \A g \in Groups : men[g] > 0 => \E i \in Ids : registered[i] = g

\* Whoever takes, leaves and retakes a slot: a group has one id, and one with men has one.
OneIdPerGroup == OneGroupOneId /\ NobodyIsStray

\* A Squad that was bought and is still on its way is never taken for lost.
OnItsWayIsKept ==
  [][\A i \in roster \ roster' : \A k \in (carried + 1)..Len(outbox) :
       ~(outbox[k].effect = "squad_spawned" /\ outbox[k].squad = i)]_vars

\* A player who stays in the slot ends up leading a Squad whose group is his own, if
\* every departure of his was folded before he came back (QuickReturns): one that no
\* report showed leaves him counted as the leader of a group he is not in.
PairedInTheEnd ==
  \A p \in Players :
    <>[](seat[p] # None) =>
      <>[](\E i \in roster : /\ squad[i].led = p /\ ~squad[i].suspended
                             /\ registered[i] = seat[p])
-----------------------------------------------------------------------------
(* What the code says of itself and does not keep.                          *)

\* A Squad with a composition is dropped only when it really has been wiped out:
\* not while nobody has died.
OnlyTheWipedAreDropped == [][deaths = 0 => roster \subseteq roster']_vars
=============================================================================
