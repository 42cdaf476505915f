------------------------------ MODULE Campaign ------------------------------
(***************************************************************************)
(* The rules of one playthrough (campaign.py, economy.py, report_cycle.py): *)
(* ground changes hands by presence, owned ground pays, and a Campaign ends *)
(* by Domination or by Decapitation, once.                                  *)
(*                                                                          *)
(* A report carries the mission's clock, who stands on which Objective and  *)
(* which HQs are rubble, and is folded whole under the daemon's lock.  The  *)
(* mission may restart under a living daemon, which takes its clock back to *)
(* zero; the control lane may save the Campaign and load it again.          *)
(***************************************************************************)
EXTENDS Naturals, FiniteSets

CONSTANTS Objectives,         \* the map's Objectives
          West, East,         \* the two sides
          Neutral, Contested, \* owners that are not a side
          None,               \* no side, no outcome, no save
          Commanded,          \* the sides an AI Commander plays
          CaptureSeconds, DominationSeconds, TickSeconds,
          Stipend, Income, StartingFunds, Price,
          MaxStep,            \* bound: seconds that pass in one step
          MaxLived,           \* bound: seconds the world lives
          MaxRestarts,        \* bound: mission restarts
          MaxSpent,           \* bound: Squads bought
          MaxLoads            \* bound: loads by the control lane

Sides == {West, East}
Other(s) == IF s = West THEN East ELSE West
Outcome == [winner : Sides, condition : {"domination", "decapitation"}]

ASSUME CampaignAssumption ==
  /\ West # East /\ Sides \intersect {Neutral, Contested, None} = {}
  /\ Neutral # Contested /\ None \notin {Neutral, Contested} \union Outcome
  /\ IsFiniteSet(Objectives) /\ Objectives # {}
  /\ Commanded \subseteq Sides
  /\ {CaptureSeconds, DominationSeconds, TickSeconds} \subseteq Nat \ {0}
  /\ {Stipend, Income, StartingFunds, Price, MaxStep, MaxLived, MaxRestarts,
      MaxSpent, MaxLoads} \subseteq Nat

VARIABLES
  now,         \* the mission's `time`
  rubble,      \* the HQs that are down in the world
  elapsed,     \* Campaign.elapsed
  ground,      \* Campaign._states
  dominant, dominated, \* Campaign._dominant, _dominated_seconds
  sincePayout, \* Campaign._since_payout
  funds,       \* Ledger._balances
  razed,       \* Campaign._hq: the sides whose HQ is destroyed
  outcome,     \* Campaign.outcome
  concluded,   \* ReportCycle._concluded
  saved,       \* the generation the store would load
  told,        \* campaign_won Effects pushed for the Campaign at hand
  lived, restarts, loads, spent,
  \* Of the world as it was reported, for the properties:
  unreported,  \* seconds lived since the last report
  aloneFor,    \* for how long a side has been alone on an Objective
  totalFor,    \* for how long a side has held every Objective
  totalHere    \* ... within this session of the mission

world    == <<now, rubble>>
clocks   == <<elapsed, dominant, dominated, sincePayout>>
standing == <<ground, funds, razed>>
ending   == <<outcome, concluded, told>>
bounds   == <<lived, restarts, loads, spent>>
ghosts   == <<unreported, aloneFor, totalFor, totalHere>>
vars     == <<world, clocks, standing, ending, saved, bounds, ghosts>>

State == [owner : Sides \union {Neutral, Contested}, holder : Sides \union {None},
          held : 0..(CaptureSeconds - 1)]

\* A hold never reaches the seconds it needs without being cashed, nor does the
\* Domination clock while the Campaign is being played, and nobody is in debt.
TypeOK ==
  /\ now \in 0..MaxLived /\ rubble \subseteq Sides /\ elapsed \in 0..MaxLived
  /\ ground \in [Objectives -> State]
  /\ dominant \in Sides \union {None} /\ dominated \in Nat
  /\ outcome = None => dominated < DominationSeconds
  /\ sincePayout \in 0..(TickSeconds - 1)
  /\ funds \in [Sides -> Nat]
  /\ razed \subseteq Sides
  /\ outcome \in Outcome \union {None} /\ concluded \in BOOLEAN
  /\ saved = None \/ saved \in [owner : [Objectives -> Sides \union {Neutral, Contested}],
                                funds : [Sides -> Nat], razed : SUBSET Sides, clock : 0..MaxLived]

Fresh(owner) == [o \in Objectives |-> [owner |-> owner[o], holder |-> None, held |-> 0]]
Nothing == [o \in Objectives |-> [s \in Sides |-> 0]]

Init ==
  /\ now = 0 /\ rubble = {} /\ elapsed = 0
  /\ ground = Fresh([o \in Objectives |-> Neutral])
  /\ dominant = None /\ dominated = 0 /\ sincePayout = 0
  /\ funds = [s \in Sides |-> StartingFunds] /\ razed = {}
  /\ outcome = None /\ concluded = FALSE /\ told = 0 /\ saved = None
  /\ lived = 0 /\ restarts = 0 /\ loads = 0 /\ spent = 0
  /\ unreported = 0 /\ aloneFor = Nothing /\ totalFor = 0 /\ totalHere = 0
-----------------------------------------------------------------------------
(* Ground.                                                                  *)

\* Fault: a hold that is broken off is kept.
ResetNever(g) == g

\* Forget any capture in progress.
Reset(g) == [owner |-> g.owner, holder |-> None, held |-> 0]

\* A side alone on ground it does not own, `interval` seconds later.
Hold(g, s, interval) ==
  LET held == IF g.holder = s THEN g.held + interval ELSE interval
  IN  IF held >= CaptureSeconds
      THEN [owner |-> s, holder |-> None, held |-> 0]
      ELSE [g EXCEPT !.holder = s, !.held = held]

Alone(s, present) == present = {s}

\* Campaign._advance_capture.
Advance(g, present, interval) ==
  IF present = Sides THEN Reset([g EXCEPT !.owner = Contested])
  ELSE IF present = {} \/ present = {g.owner} THEN Reset(g)
  ELSE Hold(g, CHOOSE s \in Sides : Alone(s, present), interval)

\* The one side that owns every Objective, if there is one.
Holder(g) ==
  IF \E s \in Sides : \A o \in Objectives : g[o].owner = s
  THEN CHOOSE s \in Sides : \A o \in Objectives : g[o].owner = s ELSE None

\* One tick's income of a side.
Pay(g, s) == Stipend + Income * Cardinality({o \in Objectives : g[o].owner = s})
-----------------------------------------------------------------------------
(* The end.                                                                 *)

\* Faults: a report credits all of its clock; the interval in which totality was
\* reached is credited; the rules keep being applied to a Campaign that is over.
IntervalFromZero == now
CreditAll(holder, interval) == IF holder = dominant THEN dominated + interval ELSE interval
CompleteNever(decided) == FALSE

\* A step backwards is a new session rather than a refund.
Interval == IF now > elapsed THEN now - elapsed ELSE 0

\* The interval in which totality was reached is not credited.
Credit(holder, interval) ==
  IF holder = dominant /\ holder # None THEN dominated + interval ELSE 0

\* The outcomes the rubble of a report may decide: the first news in it does.
Decided(news) ==
  IF outcome = None /\ news # {} THEN {[winner |-> Other(s), condition |-> "decapitation"] : s \in news}
  ELSE {outcome}

\* A won Campaign takes no more reports.
Complete(decided) == decided # None

\* Campaign.observe: captures, then income, then Domination.  Campaign._won: the
\* first outcome stands.
Observe(present, decided) ==
  LET ground1 == [o \in Objectives |-> Advance(ground[o], present[o], Interval)]
      holder  == Holder(ground1)
      credit  == Credit(holder, Interval)
      ticks   == (sincePayout + Interval) \div TickSeconds
      won     == holder # None /\ holder = dominant /\ credit >= DominationSeconds
  IN  /\ elapsed' = now
      /\ ground' = ground1
      /\ sincePayout' = (sincePayout + Interval) % TickSeconds
      /\ dominant' = holder /\ dominated' = credit
      /\ outcome' = IF won /\ decided = None
                     THEN [winner |-> holder, condition |-> "domination"] ELSE decided
      /\ \E bought \in SUBSET Commanded :
           LET paid(s) == funds[s] + ticks * Pay(ground1, s)
           IN  /\ bought # {} => outcome' = None
               /\ \A s \in bought : paid(s) >= Price
               /\ spent + Cardinality(bought) <= MaxSpent
               /\ spent' = spent + Cardinality(bought)
               /\ funds' = [s \in Sides |-> IF s \in bought THEN paid(s) - Price ELSE paid(s)]

\* What the world has shown since the report before, for the properties.
Watch(present) ==
  /\ unreported' = 0
  /\ aloneFor' = [o \in Objectives |-> [s \in Sides |->
       IF ~Alone(s, present[o]) THEN 0
       ELSE IF aloneFor[o][s] + unreported > CaptureSeconds THEN CaptureSeconds
       ELSE aloneFor[o][s] + unreported]]
  /\ LET kept == Holder(ground') # None /\ Holder(ground') = Holder(ground)
     IN  /\ totalFor' = IF kept THEN totalFor + unreported ELSE 0
         /\ totalHere' = IF kept THEN totalHere + (IF now < unreported THEN now ELSE unreported)
                         ELSE 0

\* Fault: every report of a won Campaign tells the world.
ToConcludeAlways == outcome' # None

\* ReportCycle._conclude: once.
ToConclude == outcome' # None /\ ~concluded

Conclude ==
  /\ concluded' = (concluded \/ outcome' # None)
  /\ told' = IF ToConclude THEN told + 1 ELSE told

\* ReportCycle.fold, from the HQs on.
Report(present) ==
  /\ razed' = razed \union rubble
  /\ \E decided \in Decided(rubble \ razed) :
       \/ ~Complete(decided) /\ Observe(present, decided) /\ Watch(present)
       \/ /\ Complete(decided) /\ outcome' = decided
          /\ UNCHANGED <<clocks, ground, funds, spent, ghosts>>
  /\ Conclude
  /\ UNCHANGED <<world, saved, lived, restarts, loads>>

\* Campaign.purchase, as the port judges it for a side people command.
Purchase(s) ==
  /\ outcome = None /\ s \notin Commanded
  /\ funds[s] >= Price /\ funds' = [funds EXCEPT ![s] = @ - Price]
  /\ spent < MaxSpent /\ spent' = spent + 1
  /\ UNCHANGED <<world, clocks, ground, razed, ending, saved, lived, restarts, loads, ghosts>>
-----------------------------------------------------------------------------
(* The control lane.                                                        *)

\* Campaign.to_snapshot, as it is saved.
Save ==
  /\ saved' = [owner |-> [o \in Objectives |-> ground[o].owner], funds |-> funds,
               razed |-> razed, clock |-> elapsed]
  /\ UNCHANGED <<world, clocks, standing, ending, bounds, ghosts>>

\* Campaign.apply_snapshot, ReportCycle.apply: a resumed Campaign is undecided again.
Load ==
  /\ saved # None /\ loads < MaxLoads /\ loads' = loads + 1
  /\ ground' = Fresh(saved.owner) /\ funds' = saved.funds /\ razed' = saved.razed
  /\ elapsed' = saved.clock /\ dominant' = None /\ dominated' = 0 /\ sincePayout' = 0
  /\ outcome' = None /\ concluded' = FALSE /\ told' = 0
  /\ aloneFor' = Nothing /\ totalFor' = 0 /\ totalHere' = 0
  /\ UNCHANGED <<world, saved, lived, restarts, spent, unreported>>
-----------------------------------------------------------------------------
(* The world.                                                               *)

TimePasses(d) ==
  /\ lived + d <= MaxLived /\ lived' = lived + d
  /\ now' = now + d /\ unreported' = unreported + d
  /\ UNCHANGED <<rubble, clocks, standing, ending, saved, restarts, loads, spent,
                 aloneFor, totalFor, totalHere>>

HqFalls(s) ==
  /\ s \notin rubble /\ rubble' = rubble \union {s}
  /\ UNCHANGED <<now, clocks, standing, ending, saved, bounds, ghosts>>

\* The mission starts again under the same daemon: its clock and its buildings do.
Restart ==
  /\ restarts < MaxRestarts /\ restarts' = restarts + 1
  /\ now' = 0 /\ rubble' = {} /\ totalHere' = 0
  /\ UNCHANGED <<clocks, standing, ending, saved, lived, loads, spent,
                 unreported, aloneFor, totalFor>>
-----------------------------------------------------------------------------
Next ==
  \/ \E present \in [Objectives -> SUBSET Sides] : Report(present)
  \/ \E s \in Sides : Purchase(s) \/ HqFalls(s)
  \/ \E d \in 1..MaxStep : TimePasses(d)
  \/ Restart \/ (MaxLoads > 0 /\ (Save \/ Load))

Spec == Init /\ [][Next]_vars
-----------------------------------------------------------------------------
\* An Objective is taken only by a side that every report has shown alone there for
\* the seconds a capture takes: a contest or an absence starts the hold again.  (Not
\* after a load, which takes the Campaign's clock back: the first report then credits
\* whoever it finds there with the seconds since the save.)
CaptureIsEarned ==
  [][\A o \in Objectives : \A s \in Sides :
       (ground[o].owner # s /\ ground'[o].owner = s /\ loads' = 0)
         => aloneFor'[o][s] >= CaptureSeconds]_vars

\* Domination is sustained: it is won by a side that every report has shown to own
\* everything for the seconds it takes, the interval that led there not counted.
DominationIsSustained ==
  [][(outcome' # outcome /\ outcome' # None /\ outcome'.condition = "domination")
       => totalFor' >= DominationSeconds]_vars

\* A won Campaign is over: its outcome is never revised, ground stops changing hands
\* and Funds stop moving, whatever the world goes on reporting.
FrozenOnceWon ==
  [][(outcome # None /\ loads' = loads) => UNCHANGED <<outcome, ground, funds, elapsed>>]_vars

\* The world is told of the end once, whatever reports follow it.
WonIsToldOnce == told = IF outcome = None THEN 0 ELSE 1

\* What the sides own and have spent is what they began with and what the clock paid:
\* never more than the seconds the world lived, and never less than the stipend of
\* the seconds reported while the mission ran through.  (A load puts Funds back.)
Worth == funds[West] + funds[East] + Price * spent
FundsFollowTheClock == loads = 0 =>
  /\ Worth <= 2 * StartingFunds
              + (lived \div TickSeconds) * (2 * Stipend + Income * Cardinality(Objectives))
  /\ restarts = 0 => Worth >= 2 * StartingFunds + (elapsed \div TickSeconds) * 2 * Stipend
-----------------------------------------------------------------------------
(* What the code says of itself and does not keep.                          *)

\* Domination is sustained within one session of the mission.
DominationIsOneSession ==
  [][(outcome' # outcome /\ outcome' # None /\ outcome'.condition = "domination")
       => totalHere' >= DominationSeconds]_vars

=============================================================================
