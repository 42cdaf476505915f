--------------------------- MODULE Campaign_proofs ---------------------------
(***************************************************************************)
(* What is proved of Campaign for every map, every number of seconds a      *)
(* capture and the Domination take, and every price and income.             *)
(***************************************************************************)
EXTENDS Campaign, FiniteSetTheorems, TLAPS

\* The bounds and what is remembered of the reports.
Counted ==
  /\ lived \in 0..MaxLived /\ now <= lived
  /\ loads \in Nat /\ unreported \in Nat /\ totalFor \in Nat
  /\ aloneFor \in [Objectives -> [Sides -> Nat]]

\* The end is told when it is concluded, and it is concluded when there is one.
ToldSound == concluded = (outcome # None) /\ WonIsToldOnce

\* The clock a report adds has passed since the report before it.  A load takes
\* `elapsed` back, until the next report has been credited to nobody's Domination.
ClockSound == (loads = 0 \/ dominant # None) => Interval <= unreported

\* A hold is no longer than the reports have shown its side alone.
HoldSound ==
  loads = 0 => \A o \in Objectives : \A s \in Sides :
                 ground[o].holder = s => ground[o].held <= aloneFor[o][s]

\* Nor is Domination longer than they have shown its side to own everything.
DominationSound == dominant # None => dominant = Holder(ground) /\ dominated <= totalFor

IInv == TypeOK /\ Counted /\ ToldSound /\ ClockSound /\ HoldSound /\ DominationSound
-----------------------------------------------------------------------------
(* The operators of the ground.                                             *)

\* The seconds a side has behind it when it is found alone on an Objective.
Behind(g, s, interval) == IF g.holder = s THEN g.held + interval ELSE interval

\* When one side is there and does not own the Objective, it is alone.
LEMMA OneIsAlone ==
  ASSUME NEW present \in SUBSET Sides, present # Sides, present # {}
  PROVE  \E s \in Sides : Alone(s, present) /\ s = (CHOOSE t \in Sides : Alone(t, present))
<1>1. \E s \in Sides : Alone(s, present)
  BY DEF Sides, Alone
<1> QED BY <1>1 DEF Alone

\* A report leaves each Objective in a state a Campaign knows.
LEMMA AdvanceType ==
  ASSUME NEW g \in State, NEW present \in SUBSET Sides, NEW interval \in Nat
  PROVE  Advance(g, present, interval) \in State
<1> USE CampaignAssumption
<1>1. CaptureSeconds \in Nat /\ 0 \in 0..(CaptureSeconds - 1)
  OBVIOUS
<1>2. g.owner \in Sides \union {Neutral, Contested} /\ g.held \in 0..(CaptureSeconds - 1)
  BY DEF State
<1>3. [g EXCEPT !.owner = Contested].owner = Contested
  BY DEF State
<1>4. Reset(g) \in State /\ Reset([g EXCEPT !.owner = Contested]) \in State
  BY <1>1, <1>2, <1>3 DEF Reset, State
<1>5. ASSUME NEW s \in Sides PROVE Hold(g, s, interval) \in State
  <2> DEFINE held == IF g.holder = s THEN g.held + interval ELSE interval
  <2>1. held \in Nat
    BY <1>1, <1>2
  <2>2. CASE held >= CaptureSeconds
    <3>1. Hold(g, s, interval) = [owner |-> s, holder |-> None, held |-> 0]
      BY <2>2 DEF Hold
    <3> QED BY <1>1, <3>1 DEF State
  <2>3. CASE ~(held >= CaptureSeconds)
    <3>1. Hold(g, s, interval) = [owner |-> g.owner, holder |-> s, held |-> held]
      BY <2>3 DEF Hold, State
    <3>2. held \in 0..(CaptureSeconds - 1)
      BY <1>1, <2>1, <2>3
    <3> QED BY <1>2, <3>1, <3>2 DEF State
  <2> QED BY <2>2, <2>3
<1> QED BY <1>4, <1>5, OneIsAlone DEF Advance

\* Who holds an Objective after a report was alone there, and so was who took it; the
\* hold is the seconds before it, and a capture has them all.
LEMMA AdvanceEarned ==
  ASSUME NEW g \in State, NEW present \in SUBSET Sides, NEW interval \in Nat, NEW s \in Sides
  PROVE  LET after == Advance(g, present, interval)
         IN  /\ after.holder = s => Alone(s, present) /\ after.held <= Behind(g, s, interval)
             /\ (g.owner # s /\ after.owner = s)
                  => Alone(s, present) /\ CaptureSeconds <= Behind(g, s, interval)
<1> USE CampaignAssumption
<1>1. CASE present = Sides
  <2>1. Advance(g, present, interval) = Reset([g EXCEPT !.owner = Contested])
    BY <1>1 DEF Advance
  <2> QED BY <2>1 DEF Reset, State
<1>2. CASE present # Sides /\ (present = {} \/ present = {g.owner})
  <2>1. Advance(g, present, interval) = Reset(g)
    BY <1>2 DEF Advance
  <2> QED BY <2>1 DEF Reset, State
<1>3. CASE present # Sides /\ ~(present = {} \/ present = {g.owner})
  <2>1. PICK t \in Sides : Alone(t, present) /\ t = (CHOOSE u \in Sides : Alone(u, present))
    BY <1>3, OneIsAlone
  <2>2. Advance(g, present, interval) = Hold(g, t, interval)
    BY <1>3, <2>1 DEF Advance
  <2>3. CASE s = t
    BY <2>1, <2>2, <2>3 DEF Hold, State, Behind
  <2>4. CASE s # t
    BY <2>2, <2>4 DEF Hold, State
  <2> QED BY <2>3, <2>4
<1> QED BY <1>1, <1>2, <1>3

\* Nothing is a number of seconds within every bound, and Funds to begin with are Funds.
LEMMA NumbersType ==
  /\ 0 \in 0..(CaptureSeconds - 1) /\ 0 \in 0..(TickSeconds - 1) /\ 0 < DominationSeconds
  /\ MaxLived \in Nat /\ 0 \in 0..MaxLived /\ StartingFunds \in Nat
BY CampaignAssumption

\* What a side earns in a tick is a number of Funds.
LEMMA PayType == ASSUME NEW g, NEW s \in Sides PROVE Pay(g, s) \in Nat
<1> DEFINE owned == {o \in Objectives : g[o].owner = s}
<1>1. Cardinality(owned) \in Nat
  BY CampaignAssumption, FS_Subset, FS_CardinalityType
<1> QED BY <1>1, CampaignAssumption DEF Pay

\* The holder of everything is a side, or nobody.
LEMMA HolderType == ASSUME NEW g PROVE Holder(g) \in Sides \union {None}
BY DEF Holder
-----------------------------------------------------------------------------
\* A report that is folded with no end decided yet: what Observe makes of the ground,
\* named once for the lemmas below.
Ground(present) == [o \in Objectives |-> Advance(ground[o], present[o], Interval)]

\* The clock a report adds is a number of seconds.
LEMMA IntervalType == ASSUME IInv PROVE Interval \in Nat
BY CampaignAssumption DEF IInv, TypeOK, Interval

\* The types of the ground and of the clocks survive a report.
LEMMA ObserveType ==
  ASSUME IInv, NEW present \in [Objectives -> SUBSET Sides], NEW decided \in Outcome \union {None},
         ~Complete(decided), Observe(present, decided)
  PROVE  /\ elapsed' \in 0..MaxLived /\ ground' \in [Objectives -> State]
         /\ dominant' \in Sides \union {None} /\ dominated' \in Nat
         /\ outcome' \in Outcome \union {None}
         /\ outcome' = None => dominated' < DominationSeconds
         /\ sincePayout' \in 0..(TickSeconds - 1) /\ funds' \in [Sides -> Nat]
<1> DEFINE holder == Holder(Ground(present))
           credit == Credit(holder, Interval)
           ticks  == (sincePayout + Interval) \div TickSeconds
           won    == holder # None /\ holder = dominant /\ credit >= DominationSeconds
<1>1. Interval \in Nat /\ TickSeconds \in Nat \ {0} /\ DominationSeconds \in Nat \ {0}
  BY IntervalType, CampaignAssumption
<1>2. /\ elapsed' = now /\ ground' = Ground(present)
      /\ dominant' = holder /\ dominated' = credit
      /\ sincePayout' = (sincePayout + Interval) % TickSeconds
      /\ outcome' = IF won /\ decided = None
                    THEN [winner |-> holder, condition |-> "domination"] ELSE decided
  BY DEF Observe, Ground
<1>3. elapsed' \in 0..MaxLived
  BY <1>2, CampaignAssumption DEF IInv, TypeOK, Counted
<1>4. ground' \in [Objectives -> State]
  BY <1>1, <1>2, AdvanceType DEF Ground, IInv, TypeOK
<1>5. holder \in Sides \union {None}
  BY HolderType
<1>6. credit \in Nat /\ (~won => credit < DominationSeconds)
  BY <1>1, <1>5 DEF Credit, IInv, TypeOK
<1>7. outcome' \in Outcome \union {None} /\ (outcome' = None => dominated' < DominationSeconds)
  <2>1. CASE won
    <3>1. outcome' = [winner |-> holder, condition |-> "domination"]
      BY <1>2, <2>1 DEF Complete
    <3>2. outcome' \in Outcome
      BY <1>5, <2>1, <3>1 DEF Outcome
    <3> QED BY <3>2, CampaignAssumption
  <2>2. CASE ~won
    BY <1>2, <1>6, <2>2
  <2> QED BY <2>1, <2>2
<1>8. sincePayout' \in 0..(TickSeconds - 1)
  BY <1>1, <1>2 DEF IInv, TypeOK
<1>9. funds' \in [Sides -> Nat]
  <2> DEFINE paid(s) == funds[s] + ticks * Pay(Ground(present), s)
  <2>1. PICK bought \in SUBSET Commanded :
          /\ \A s \in bought : paid(s) >= Price
          /\ funds' = [s \in Sides |-> IF s \in bought THEN paid(s) - Price ELSE paid(s)]
    BY DEF Observe, Ground
  <2>2. ticks \in Nat
    BY <1>1 DEF IInv, TypeOK
  <2>3. ASSUME NEW s \in Sides PROVE paid(s) \in Nat
    <3>1. Pay(Ground(present), s) \in Nat /\ funds[s] \in Nat
      BY PayType DEF IInv, TypeOK
    <3> HIDE DEF ticks
    <3> QED BY <2>2, <3>1
  <2> HIDE DEF paid
  <2> QED BY <2>1, <2>3, CampaignAssumption
<1> QED BY <1>2, <1>3, <1>4, <1>5, <1>6, <1>7, <1>8, <1>9

\* What the reports have shown covers what the rules count: each hold, each capture and
\* the Domination, in a Campaign that was not loaded, and the Domination in any.
LEMMA ObserveEarned ==
  ASSUME IInv, NEW present \in [Objectives -> SUBSET Sides], NEW decided \in Outcome \union {None},
         ~Complete(decided), Observe(present, decided), Watch(present), loads' = loads
  PROVE  /\ totalFor' \in Nat /\ aloneFor' \in [Objectives -> [Sides -> Nat]]
         /\ HoldSound' /\ DominationSound'
         /\ loads = 0 => \A o \in Objectives, s \in Sides :
              (ground[o].owner # s /\ ground'[o].owner = s) => aloneFor'[o][s] >= CaptureSeconds
         /\ (outcome' # outcome /\ outcome' # None) => totalFor' >= DominationSeconds
<1>1. Interval \in Nat /\ CaptureSeconds \in Nat \ {0} /\ unreported \in Nat /\ totalFor \in Nat
  BY IntervalType, CampaignAssumption DEF IInv, Counted
<1>2. ground' = Ground(present) /\ ground' \in [Objectives -> State]
  BY ObserveType DEF Observe, Ground
<1>3. ASSUME NEW o \in Objectives, NEW s \in Sides
      PROVE  /\ aloneFor'[o][s] = IF ~Alone(s, present[o]) THEN 0
                                  ELSE IF aloneFor[o][s] + unreported > CaptureSeconds
                                       THEN CaptureSeconds ELSE aloneFor[o][s] + unreported
             /\ aloneFor[o][s] \in Nat
  BY DEF Watch, IInv, Counted
<1>4. aloneFor' \in [Objectives -> [Sides -> Nat]]
  <2>1. \A o \in Objectives, s \in Sides : aloneFor'[o][s] \in Nat
    BY <1>1, <1>3
  <2> QED BY <2>1 DEF Watch
<1>5. ASSUME loads = 0, NEW o \in Objectives, NEW s \in Sides
      PROVE  /\ ground'[o].holder = s => ground'[o].held <= aloneFor'[o][s]
             /\ (ground[o].owner # s /\ ground'[o].owner = s) => aloneFor'[o][s] >= CaptureSeconds
  <2>1. Interval <= unreported
    BY <1>5 DEF IInv, ClockSound
  <2>2. ground[o] \in State /\ ground[o].held \in Nat
    BY <1>1 DEF IInv, TypeOK, State
  <2>3. Behind(ground[o], s, Interval) \in Nat
        /\ Behind(ground[o], s, Interval) <= aloneFor[o][s] + unreported
    BY <1>1, <1>3, <1>5, <2>1, <2>2 DEF Behind, IInv, HoldSound
  <2>4. LET after == ground'[o]
        IN  /\ after.holder = s => Alone(s, present[o])
                                   /\ after.held <= Behind(ground[o], s, Interval)
            /\ (ground[o].owner # s /\ after.owner = s)
                 => Alone(s, present[o]) /\ CaptureSeconds <= Behind(ground[o], s, Interval)
    BY <1>1, <1>2, <2>2, AdvanceEarned DEF Ground
  <2>5. ground'[o].held \in Nat /\ ground'[o].held <= CaptureSeconds
    BY <1>1, <1>2 DEF State
  <2> QED BY <1>1, <1>3, <2>3, <2>4, <2>5
<1>6. HoldSound'
  BY <1>5 DEF HoldSound
<1>7. /\ dominant' = Holder(ground') /\ dominated' = Credit(Holder(ground'), Interval)
      /\ totalFor' = IF Holder(ground') # None /\ Holder(ground') = Holder(ground)
                     THEN totalFor + unreported ELSE 0
  BY <1>2 DEF Observe, Watch, Ground
<1>8. totalFor' \in Nat /\ dominated' <= totalFor'
  <2>1. CASE dominant' # None /\ dominant' = dominant
    <3>1. dominant = Holder(ground) /\ dominated <= totalFor /\ Interval <= unreported
      BY <2>1 DEF IInv, DominationSound, ClockSound
    <3> QED BY <1>1, <1>7, <2>1, <3>1 DEF Credit, IInv, TypeOK
  <2>2. CASE ~(dominant' # None /\ dominant' = dominant)
    BY <1>1, <1>7, <2>2 DEF Credit
  <2> QED BY <2>1, <2>2
<1>9. DominationSound'
  BY <1>7, <1>8 DEF DominationSound
<1>10. ASSUME outcome' # outcome, outcome' # None PROVE totalFor' >= DominationSeconds
  <2>1. decided = None
    BY DEF Complete
  <2>2. dominated' >= DominationSeconds
    BY <1>10, <2>1, <1>2, <1>7 DEF Observe, Ground
  <2> QED BY <1>8, <2>2, CampaignAssumption, ObserveType
<1> QED BY <1>4, <1>5, <1>6, <1>8, <1>9, <1>10
-----------------------------------------------------------------------------
\* The invariant holds of a new Campaign.
LEMMA InitIInv == Init => IInv
<1> SUFFICES ASSUME Init PROVE IInv
  OBVIOUS
<1>1. ground \in [Objectives -> State]
  BY NumbersType DEF Init, Fresh, State
<1>2. TypeOK
  BY <1>1, NumbersType DEF Init, TypeOK
<1>3. Counted
  BY NumbersType DEF Init, Nothing, Counted
<1>4. ToldSound
  BY DEF Init, ToldSound, WonIsToldOnce
<1>5. ClockSound /\ DominationSound
  BY DEF Init, ClockSound, Interval, DominationSound
<1>6. HoldSound
  BY DEF Init, Fresh, Nothing, HoldSound
<1> QED BY <1>2, <1>3, <1>4, <1>5, <1>6 DEF IInv

\* What the rubble of a report may decide is the outcome that stood, or an outcome.
LEMMA DecidedType ==
  ASSUME IInv, NEW decided \in Decided(rubble \ razed)
  PROVE  /\ decided \in Outcome \union {None}
         /\ outcome # None => decided = outcome
         /\ decided # outcome => decided.condition = "decapitation"
<1>1. rubble \subseteq Sides /\ outcome \in Outcome \union {None}
  BY DEF IInv, TypeOK
<1>2. \A t \in Sides : [winner |-> Other(t), condition |-> "decapitation"] \in Outcome
  BY DEF Other, Sides, Outcome
<1> QED BY <1>1, <1>2 DEF Decided

\* A report, as one of the two ways it is folded.
LEMMA ReportCases ==
  ASSUME IInv, NEW present \in [Objectives -> SUBSET Sides], Report(present)
  PROVE  \E decided \in Outcome \union {None} :
           /\ outcome # None => decided = outcome
           /\ decided # outcome => decided.condition = "decapitation"
           /\ \/ ~Complete(decided) /\ Observe(present, decided) /\ Watch(present)
              \/ /\ Complete(decided) /\ outcome' = decided
                 /\ UNCHANGED <<clocks, ground, funds, spent, ghosts>>
BY DecidedType DEF Report

\* A report keeps the invariant.
LEMMA ReportIInv ==
  ASSUME IInv, NEW present \in [Objectives -> SUBSET Sides], Report(present)
  PROVE  IInv'
<1> USE CampaignAssumption
<1>1. PICK decided \in Outcome \union {None} :
        /\ outcome # None => decided = outcome
        /\ \/ ~Complete(decided) /\ Observe(present, decided) /\ Watch(present)
           \/ /\ Complete(decided) /\ outcome' = decided
              /\ UNCHANGED <<clocks, ground, funds, spent, ghosts>>
  BY ReportCases
<1>2. /\ razed' = razed \union rubble /\ Conclude
      /\ UNCHANGED <<now, rubble, saved, lived, loads>>
  BY DEF Report, world
<1>3. ToldSound'
  <2>1. outcome # None => outcome' # None
    BY <1>1 DEF Complete
  <2>2. concluded = (outcome # None) /\ told = IF outcome = None THEN 0 ELSE 1
    BY DEF IInv, ToldSound, WonIsToldOnce
  <2>3. /\ concluded' = (concluded \/ outcome' # None)
        /\ told' = IF outcome' # None /\ ~concluded THEN told + 1 ELSE told
    BY <1>2 DEF Conclude, ToConclude
  <2>4. concluded' = (outcome' # None)
    BY <2>1, <2>2, <2>3
  <2>5. told' = IF outcome' = None THEN 0 ELSE 1
    <3>1. CASE outcome = None
      <4>1. ~concluded /\ told = 0
        BY <2>2, <3>1
      <4>2. told' = IF outcome' # None THEN 0 + 1 ELSE 0
        BY <2>3, <4>1
      <4> QED BY <4>2
    <3>2. CASE outcome # None
      BY <2>1, <2>2, <2>3, <3>2
    <3> QED BY <3>1, <3>2
  <2> QED BY <2>4, <2>5 DEF ToldSound, WonIsToldOnce
<1>4. concluded' \in BOOLEAN
  BY <1>3 DEF ToldSound
<1>5. CASE ~Complete(decided) /\ Observe(present, decided) /\ Watch(present)
  <2>1. TypeOK'
    <3>1. razed' \subseteq Sides
      BY <1>2 DEF IInv, TypeOK
    <3> QED BY <1>2, <1>4, <1>5, <3>1, ObserveType DEF IInv, TypeOK
  <2>2. elapsed' = now /\ unreported' = 0
    BY <1>5 DEF Observe, Watch
  <2>3. ClockSound'
    BY <1>2, <2>2 DEF ClockSound, Interval, IInv, TypeOK
  <2>4. Counted' /\ HoldSound' /\ DominationSound'
    BY <1>2, <1>5, <2>2, ObserveEarned DEF Counted, IInv
  <2> QED BY <1>3, <2>1, <2>3, <2>4 DEF IInv
<1>6. CASE /\ Complete(decided) /\ outcome' = decided
           /\ UNCHANGED <<clocks, ground, funds, spent, ghosts>>
  <2>1. TypeOK'
    <3>1. razed' \subseteq Sides
      BY <1>2 DEF IInv, TypeOK
    <3> QED BY <1>2, <1>4, <1>6, <3>1 DEF IInv, TypeOK, clocks, Complete
  <2>2. Counted' /\ ClockSound' /\ HoldSound' /\ DominationSound'
    BY <1>2, <1>6 DEF IInv, Counted, ClockSound, Interval, HoldSound, DominationSound,
       Holder, clocks, ghosts
  <2> QED BY <1>3, <2>1, <2>2 DEF IInv
<1> QED BY <1>1, <1>5, <1>6

\* A load keeps it: the Campaign it puts in place counts nothing yet.
LEMMA LoadIInv == IInv /\ Load => IInv'
<1> SUFFICES ASSUME IInv, Load PROVE IInv'
  OBVIOUS
<1> USE CampaignAssumption
<1>1. saved \in [owner : [Objectives -> Sides \union {Neutral, Contested}],
                 funds : [Sides -> Nat], razed : SUBSET Sides, clock : 0..MaxLived]
  BY DEF Load, IInv, TypeOK
<1>2. ground' \in [Objectives -> State]
  <2>1. CaptureSeconds \in Nat /\ 0 \in 0..(CaptureSeconds - 1)
    OBVIOUS
  <2>2. ground' = Fresh(saved.owner) /\ saved.owner \in [Objectives -> Sides \union {Neutral, Contested}]
    BY <1>1 DEF Load
  <2> QED BY <2>1, <2>2 DEF Fresh, State
<1>3. TypeOK'
  <2>1. funds' \in [Sides -> Nat] /\ razed' \subseteq Sides /\ elapsed' \in 0..MaxLived
    BY <1>1 DEF Load
  <2> HIDE CampaignAssumption
  <2> QED BY <1>2, <2>1, NumbersType DEF Load, IInv, TypeOK, world
<1>4. Counted'
  BY DEF Load, IInv, Counted, Nothing, world
<1>5. loads' # 0 /\ dominant' = None
  BY DEF Load, IInv, Counted
<1>6. ToldSound' /\ ClockSound' /\ HoldSound' /\ DominationSound'
  BY <1>5 DEF Load, ToldSound, WonIsToldOnce, ClockSound, HoldSound, DominationSound
<1> QED BY <1>3, <1>4, <1>6 DEF IInv

\* So does every other step of the sides, of the control lane and of the world.
LEMMA NextIInv == IInv /\ [Next]_vars => IInv'
<1> SUFFICES ASSUME IInv, [Next]_vars PROVE IInv'
  OBVIOUS
<1> USE CampaignAssumption
<1>1. ASSUME NEW present \in [Objectives -> SUBSET Sides], Report(present) PROVE IInv'
  BY <1>1, ReportIInv
<1>2. ASSUME NEW s \in Sides, Purchase(s) PROVE IInv'
  <2>1. funds' \in [Sides -> Nat]
    BY <1>2 DEF Purchase, IInv, TypeOK
  <2>2. TypeOK'
    BY <1>2, <2>1 DEF Purchase, IInv, TypeOK, world, clocks, ending
  <2> QED BY <1>2, <2>2 DEF Purchase, IInv, Counted, ToldSound, WonIsToldOnce, ClockSound, Interval,
             HoldSound, DominationSound, Holder, world, clocks, ending, ghosts
<1>3. ASSUME NEW s \in Sides, HqFalls(s) PROVE IInv'
  <2>1. TypeOK'
    BY <1>3 DEF HqFalls, IInv, TypeOK, clocks, standing, ending
  <2> QED BY <1>3, <2>1 DEF HqFalls, IInv, Counted, ToldSound, WonIsToldOnce, ClockSound, Interval,
             HoldSound, DominationSound, Holder, clocks, standing, ending, bounds, ghosts
<1>4. ASSUME NEW d \in 1..MaxStep, TimePasses(d) PROVE IInv'
  <2>1. now' \in 0..MaxLived /\ lived' \in 0..MaxLived /\ now' <= lived' /\ unreported' \in Nat
    BY <1>4 DEF TimePasses, IInv, TypeOK, Counted
  <2>2. TypeOK' /\ Counted'
    BY <1>4, <2>1 DEF TimePasses, IInv, TypeOK, Counted, clocks, standing, ending
  <2>3. ClockSound'
    BY <1>4 DEF TimePasses, IInv, TypeOK, Counted, ClockSound, Interval, clocks
  <2> QED BY <1>4, <2>2, <2>3 DEF TimePasses, IInv, ToldSound, WonIsToldOnce,
             HoldSound, DominationSound, Holder, clocks, standing, ending
<1>5. CASE Restart
  <2>1. TypeOK' /\ Counted'
    BY <1>5 DEF Restart, IInv, TypeOK, Counted, clocks, standing, ending
  <2>2. ClockSound'
    BY <1>5 DEF Restart, IInv, TypeOK, Counted, ClockSound, Interval, clocks
  <2> QED BY <1>5, <2>1, <2>2 DEF Restart, IInv, ToldSound, WonIsToldOnce,
             HoldSound, DominationSound, Holder, clocks, standing, ending
<1>6. CASE Save
  <2>1. saved' \in [owner : [Objectives -> Sides \union {Neutral, Contested}],
                    funds : [Sides -> Nat], razed : SUBSET Sides, clock : 0..MaxLived]
    <3>1. \A o \in Objectives : ground[o].owner \in Sides \union {Neutral, Contested}
      BY DEF IInv, TypeOK, State
    <3> QED BY <1>6, <3>1 DEF Save, IInv, TypeOK
  <2>2. TypeOK'
    BY <1>6, <2>1 DEF Save, IInv, TypeOK, world, clocks, standing, ending
  <2> QED BY <1>6, <2>2 DEF Save, IInv, Counted, ToldSound, WonIsToldOnce, ClockSound, Interval,
             HoldSound, DominationSound, Holder, world, clocks, standing, ending, bounds, ghosts
<1>7. CASE Load
  BY <1>7, LoadIInv
<1>8. CASE UNCHANGED vars
  <2>1. TypeOK'
    BY <1>8 DEF IInv, TypeOK, vars, world, clocks, standing, ending
  <2> QED BY <1>8, <2>1 DEF IInv, Counted, ToldSound, WonIsToldOnce, ClockSound, Interval, HoldSound,
             DominationSound, Holder, vars, world, clocks, standing, ending, bounds, ghosts
<1> QED BY <1>1, <1>2, <1>3, <1>4, <1>5, <1>6, <1>7, <1>8 DEF Next

LEMMA Invariance == Spec => []IInv
BY InitIInv, NextIInv, PTL DEF Spec
-----------------------------------------------------------------------------
(* Where the Funds came from.                                               *)

\* The most that a tick pays the two sides together.
Payroll == 2 * Stipend + Income * Cardinality(Objectives)

\* A Campaign that was not loaded has been paid for a number of ticks: with the seconds
\* carried to the next tick they are seconds the world lived before its last report, and
\* all that the mission's clock shows when the mission never started again.
FundsSound ==
  /\ spent \in Nat /\ restarts \in Nat
  /\ loads = 0 =>
       \E paid \in Nat :
         /\ paid * TickSeconds + sincePayout + unreported <= lived
         /\ Worth <= 2 * StartingFunds + paid * Payroll
         /\ Worth >= 2 * StartingFunds + paid * (2 * Stipend)
         /\ restarts = 0 => elapsed <= now /\ paid * TickSeconds + sincePayout = elapsed

\* No Objective pays twice in a tick, and the stipends are always paid.
LEMMA PayBounds ==
  ASSUME NEW g
  PROVE  /\ Payroll \in Nat /\ Pay(g, West) \in Nat /\ Pay(g, East) \in Nat
         /\ Pay(g, West) + Pay(g, East) <= Payroll
         /\ Pay(g, West) + Pay(g, East) >= 2 * Stipend
<1> DEFINE owned(s) == {o \in Objectives : g[o].owner = s}
           w == Cardinality(owned(West))
           e == Cardinality(owned(East))
           n == Cardinality(Objectives)
<1>1. IsFiniteSet(owned(West)) /\ IsFiniteSet(owned(East))
  BY CampaignAssumption, FS_Subset
<1>2. w \in Nat /\ e \in Nat /\ n \in Nat
  BY <1>1, CampaignAssumption, FS_CardinalityType
<1>3. w + e <= n
  <2>1. owned(West) \intersect owned(East) = {}
    BY CampaignAssumption
  <2>2. Cardinality(owned(West) \intersect owned(East)) = 0
    BY <2>1, FS_EmptySet
  <2>3. Cardinality(owned(West) \union owned(East)) = w + e
    <3>1. Cardinality(owned(West) \union owned(East))
            = w + e - Cardinality(owned(West) \intersect owned(East))
      BY <1>1, FS_Union
    <3> QED BY <1>2, <2>2, <3>1
  <2>4. Cardinality(owned(West) \union owned(East)) <= n
    BY CampaignAssumption, FS_Subset
  <2> QED BY <2>3, <2>4
<1>4. Pay(g, West) = Stipend + Income * w /\ Pay(g, East) = Stipend + Income * e
  BY DEF Pay
<1>5. Stipend \in Nat /\ Income \in Nat
  BY CampaignAssumption
<1> HIDE DEF w, e, n
<1>6. Income * w \in Nat /\ Income * e \in Nat /\ Income * n \in Nat
  BY <1>2, <1>5
<1>7. Income * w + Income * e <= Income * n
  <2>1. \A i, a, b, c \in Nat : a + b <= c => i * a + i * b <= i * c
    <3>1. ASSUME NEW i \in Nat, NEW a \in Nat, NEW b \in Nat, NEW c \in Nat, a + b <= c
          PROVE  i * a + i * b <= i * c
      <4>1. PICK d \in Nat : c = a + b + d
        <5>1. c - (a + b) \in Nat /\ c = a + b + (c - (a + b))
          BY <3>1
        <5> QED BY <5>1
      <4>2. i * c = i * a + i * b + i * d /\ i * d \in Nat
        BY <4>1
      <4> QED BY <4>2
    <3> QED BY <3>1
  <2> QED BY <1>2, <1>3, <1>5, <2>1
<1>8. Payroll = 2 * Stipend + Income * n
  BY DEF Payroll, n
<1> QED BY <1>4, <1>5, <1>6, <1>7, <1>8

\* A product of numbers grows with its first factor.
LEMMA TimesKeepsOrder ==
  ASSUME NEW a \in Nat, NEW b \in Nat, NEW c \in Nat, a <= b
  PROVE  a * c <= b * c
<1>1. b - a \in Nat /\ b = a + (b - a)
  OBVIOUS
<1>2. PICK d \in Nat : b = a + d
  BY <1>1
<1>3. b * c = a * c + d * c /\ d * c \in Nat /\ a * c \in Nat
  BY <1>2
<1> QED BY <1>3

\* Whole ticks within a number of seconds are no more than its quotient, and the quotient
\* itself when less than a tick is left.
LEMMA DivBounds ==
  ASSUME NEW seconds \in Nat, NEW size \in Nat \ {0}, NEW paid \in Nat
  PROVE  /\ seconds \div size \in Nat
         /\ \A rest \in Nat : paid * size + rest <= seconds => paid <= seconds \div size
         /\ \A rest \in 0..(size - 1) : paid * size + rest = seconds => seconds \div size = paid
<1> DEFINE q == seconds \div size
           r == seconds % size
<1>1. q \in Nat /\ r \in 0..(size - 1) /\ seconds = size * q + r
  OBVIOUS
<1> HIDE DEF q, r
<1>2. q * size \in Nat /\ paid * size \in Nat /\ seconds = q * size + r
  BY <1>1
<1>3. ASSUME q < paid PROVE q * size + size <= paid * size
  <2>1. (q + 1) * size <= paid * size
    BY <1>1, <1>3, TimesKeepsOrder
  <2>2. (q + 1) * size = q * size + size
    BY <1>1
  <2> QED BY <2>1, <2>2
<1>4. ASSUME paid < q PROVE paid * size + size <= q * size
  <2>1. (paid + 1) * size <= q * size
    BY <1>1, <1>4, TimesKeepsOrder
  <2>2. (paid + 1) * size = paid * size + size
    OBVIOUS
  <2> QED BY <2>1, <2>2
<1>5. ASSUME NEW rest \in Nat, paid * size + rest <= seconds PROVE paid <= q
  BY <1>1, <1>2, <1>3, <1>5
<1>6. ASSUME NEW rest \in 0..(size - 1), paid * size + rest = seconds PROVE q = paid
  BY <1>1, <1>2, <1>3, <1>4, <1>6
<1> QED BY <1>1, <1>5, <1>6 DEF q

\* Whole ticks and what is left of them are the seconds they were made of.
LEMMA TicksOfSeconds ==
  ASSUME NEW paid \in Nat, NEW size \in Nat \ {0}, NEW seconds \in Nat
  PROVE  /\ seconds \div size \in Nat /\ seconds % size \in Nat
         /\ (paid + (seconds \div size)) * size + (seconds % size) = paid * size + seconds
<1>1. /\ seconds \div size \in Nat /\ seconds % size \in Nat
      /\ seconds = size * (seconds \div size) + (seconds % size)
  OBVIOUS
<1> DEFINE q == seconds \div size
           r == seconds % size
<1>2. q \in Nat /\ r \in Nat /\ seconds = size * q + r
  BY <1>1
<1> HIDE DEF q, r
<1>3. (paid + q) * size = paid * size + size * q
  BY <1>2
<1>4. size * q \in Nat /\ paid * size \in Nat
  BY <1>2
<1>5. (paid + q) * size + r = paid * size + seconds
  BY <1>2, <1>3, <1>4
<1> QED BY <1>1, <1>5 DEF q, r

\* More ticks are worth more pay, tick by tick.
LEMMA PayOverTicks ==
  ASSUME NEW paid \in Nat, NEW ticks \in Nat, NEW least \in Nat, NEW most \in Nat,
         NEW w \in Nat, NEW e \in Nat, least <= w + e, w + e <= most
  PROVE  /\ ticks * w \in Nat /\ ticks * e \in Nat
         /\ ticks * w + ticks * e <= (paid + ticks) * most - paid * most
         /\ ticks * w + ticks * e >= (paid + ticks) * least - paid * least
<1>1. /\ (paid + ticks) * most - paid * most = ticks * most
      /\ (paid + ticks) * least - paid * least = ticks * least
      /\ ticks * w + ticks * e = ticks * (w + e)
  OBVIOUS
<1>2. \A a, b \in Nat : a <= b => ticks * a <= ticks * b
  <2>1. ASSUME NEW a \in Nat, NEW b \in Nat, a <= b PROVE ticks * a <= ticks * b
    <3>1. b - a \in Nat /\ b = a + (b - a)
      BY <2>1
    <3>2. PICK d \in Nat : b = a + d
      BY <3>1
    <3>3. ticks * b = ticks * a + ticks * d /\ ticks * d \in Nat /\ ticks * a \in Nat
      BY <3>2
    <3> QED BY <3>3
  <2> QED BY <2>1
<1>3. w + e \in Nat
  OBVIOUS
<1> QED BY <1>1, <1>2, <1>3

\* What the sides buy after they are paid is worth what it cost.
LEMMA BuyingKeepsWorth ==
  ASSUME NEW bought \in SUBSET Commanded, NEW w \in Nat, NEW e \in Nat, spent \in Nat,
         funds' = [s \in Sides |-> IF s \in bought THEN (IF s = West THEN w ELSE e) - Price
                                   ELSE IF s = West THEN w ELSE e],
         spent' = spent + Cardinality(bought)
  PROVE  spent' \in Nat /\ Worth' = w + e + Price * spent
<1> USE CampaignAssumption
<1>1. bought \in {{}, {West}, {East}, {West, East}}
  BY DEF Sides
<1>2. Cardinality({}) = 0 /\ Cardinality({West}) = 1 /\ Cardinality({East}) = 1
  BY FS_EmptySet, FS_Singleton
<1>3. Cardinality({West, East}) = 2
  <2>1. {West, East} = {West} \union {East}
    OBVIOUS
  <2>2. IsFiniteSet({West}) /\ East \notin {West}
    BY FS_Singleton
  <2>3. Cardinality({West} \union {East}) = Cardinality({West}) + 1
    BY <2>2, FS_AddElement
  <2>4. Cardinality({West} \union {East}) = 2
    BY <1>2, <2>3
  <2> QED BY <2>1, <2>4
<1>4. /\ funds'[West] = IF West \in bought THEN w - Price ELSE w
      /\ funds'[East] = IF East \in bought THEN e - Price ELSE e
  BY DEF Sides
<1>5. Price \in Nat /\ West # East
  OBVIOUS
<1>6. \A n \in Nat : Price * (spent + n) = Price * spent + Price * n
  BY <1>5
<1>7. Price * spent \in Nat
  BY <1>5
<1>8. Worth' = funds'[West] + funds'[East] + Price * spent'
  BY DEF Worth
<1> HIDE CampaignAssumption
<1> DEFINE before == Price * spent
           after  == Price * spent'
<1>9. before \in Nat /\ Worth' = funds'[West] + funds'[East] + after
  BY <1>7, <1>8
<1>10. Worth' = w + e + before
  <2>a. CASE bought = {}
    <3>1. spent' = spent /\ after = before
      BY <2>a, <1>2
    <3>2. funds'[West] = w /\ funds'[East] = e
      BY <2>a, <1>4
    <3> HIDE DEF before, after
    <3> QED BY <1>9, <3>1, <3>2
  <2>b. CASE bought = {West}
    <3>1. spent' = spent + 1 /\ after = before + Price
      BY <2>b, <1>2, <1>5
    <3>2. funds'[West] = w - Price /\ funds'[East] = e
      BY <2>b, <1>4, <1>5
    <3> HIDE DEF before, after
    <3> QED BY <1>5, <1>9, <3>1, <3>2
  <2>c. CASE bought = {East}
    <3>1. spent' = spent + 1 /\ after = before + Price
      BY <2>c, <1>2, <1>5
    <3>2. funds'[West] = w /\ funds'[East] = e - Price
      BY <2>c, <1>4, <1>5
    <3> HIDE DEF before, after
    <3> QED BY <1>5, <1>9, <3>1, <3>2
  <2>d. CASE bought = {West, East}
    <3>1. spent' = spent + 2 /\ after = before + 2 * Price
      BY <2>d, <1>3, <1>5
    <3>2. funds'[West] = w - Price /\ funds'[East] = e - Price
      BY <2>d, <1>4
    <3> HIDE DEF before, after
    <3> QED BY <1>5, <1>9, <3>1, <3>2
  <2> QED BY <1>1, <2>a, <2>b, <2>c, <2>d
<1>11. spent' \in Nat
  <2>1. Cardinality(bought) \in Nat
    <3>1. Cardinality({}) \in Nat /\ Cardinality({West}) \in Nat /\ Cardinality({East}) \in Nat
      BY <1>2
    <3>2. Cardinality({West, East}) \in Nat
      BY <1>3
    <3> QED BY <1>1, <3>1, <3>2
  <2> QED BY <2>1
<1> QED BY <1>10, <1>11

\* A report pays for the ticks its seconds complete, and for no more.
LEMMA ObserveFunds ==
  ASSUME IInv, FundsSound, NEW present \in [Objectives -> SUBSET Sides],
         NEW decided \in Outcome \union {None},
         Observe(present, decided), Watch(present),
         loads' = loads, lived' = lived, restarts' = restarts, now' = now
  PROVE  FundsSound'
<1> DEFINE ticks == (sincePayout + Interval) \div TickSeconds
           w == funds[West] + ticks * Pay(Ground(present), West)
           e == funds[East] + ticks * Pay(Ground(present), East)
<1>1. Interval \in Nat /\ TickSeconds \in Nat \ {0} /\ sincePayout \in Nat
  BY IntervalType, CampaignAssumption DEF IInv, TypeOK
<1>2. ticks \in Nat /\ sincePayout' = (sincePayout + Interval) % TickSeconds /\ elapsed' = now
      /\ unreported' = 0
  <2>1. ticks \in Nat
    BY <1>1
  <2> QED BY <2>1 DEF Observe, Watch
<1>3. /\ Payroll \in Nat
      /\ Pay(Ground(present), West) \in Nat /\ Pay(Ground(present), East) \in Nat
      /\ Pay(Ground(present), West) + Pay(Ground(present), East) <= Payroll
      /\ Pay(Ground(present), West) + Pay(Ground(present), East) >= 2 * Stipend
  BY PayBounds
<1>4. funds[West] \in Nat /\ funds[East] \in Nat /\ Stipend \in Nat /\ StartingFunds \in Nat
      /\ Price \in Nat /\ spent \in Nat /\ Price * spent \in Nat
  BY CampaignAssumption DEF IInv, TypeOK, FundsSound, Sides
<1>5. spent' \in Nat /\ Worth' = w + e + Price * spent
  <2> DEFINE paid(s) == funds[s] + ticks * Pay(Ground(present), s)
  <2>1. PICK bought \in SUBSET Commanded :
          /\ \A s \in bought : paid(s) >= Price
          /\ spent' = spent + Cardinality(bought)
          /\ funds' = [s \in Sides |-> IF s \in bought THEN paid(s) - Price ELSE paid(s)]
    BY DEF Observe, Ground
  <2>2. funds' = [s \in Sides |-> IF s \in bought THEN (IF s = West THEN w ELSE e) - Price
                                  ELSE IF s = West THEN w ELSE e]
    <3>1. paid(West) = w /\ paid(East) = e
      OBVIOUS
    <3>2. \A s \in Sides : paid(s) = IF s = West THEN w ELSE e
      <4> HIDE DEF w, e, paid
      <4> QED BY <3>1 DEF Sides
    <3> HIDE DEF w, e, paid
    <3> QED BY <2>1, <3>2
  <2>3. w \in Nat /\ e \in Nat
    <3> HIDE DEF ticks
    <3> QED BY <1>2, <1>3, <1>4
  <2> HIDE DEF w, e
  <2> QED BY <1>4, <2>1, <2>2, <2>3, BuyingKeepsWorth
<1>6. ASSUME loads = 0
      PROVE  \E paid \in Nat :
               /\ paid * TickSeconds + sincePayout' + unreported' <= lived'
               /\ Worth' <= 2 * StartingFunds + paid * Payroll
               /\ Worth' >= 2 * StartingFunds + paid * (2 * Stipend)
               /\ restarts' = 0 => elapsed' <= now' /\ paid * TickSeconds + sincePayout' = elapsed'
  <2>1. PICK paid \in Nat :
          /\ paid * TickSeconds + sincePayout + unreported <= lived
          /\ Worth <= 2 * StartingFunds + paid * Payroll
          /\ Worth >= 2 * StartingFunds + paid * (2 * Stipend)
          /\ restarts = 0 => elapsed <= now /\ paid * TickSeconds + sincePayout = elapsed
    BY <1>6 DEF FundsSound
  <2>2. (paid + ticks) * TickSeconds + sincePayout' = paid * TickSeconds + (sincePayout + Interval)
    BY <1>1, <1>2, TicksOfSeconds
  <2>3. Interval <= unreported /\ unreported \in Nat /\ lived \in Nat
        /\ now \in Nat /\ elapsed \in Nat
    BY <1>6, CampaignAssumption DEF IInv, ClockSound, Counted, TypeOK
  <2>4. restarts = 0 => elapsed + Interval = now
    BY <2>1, <2>3 DEF Interval
  <2>5. LET pw == ticks * Pay(Ground(present), West)
            pe == ticks * Pay(Ground(present), East)
        IN  /\ pw \in Nat /\ pe \in Nat
            /\ pw + pe <= (paid + ticks) * Payroll - paid * Payroll
            /\ pw + pe >= (paid + ticks) * (2 * Stipend) - paid * (2 * Stipend)
    <3>1. 2 * Stipend \in Nat
      BY <1>4
    <3> HIDE DEF ticks
    <3> QED BY <1>2, <1>3, <3>1, PayOverTicks
  <2>6. paid + ticks \in Nat
    BY <1>2, <2>1
  <2> DEFINE total == paid + ticks
             a == total * TickSeconds
             a0 == paid * TickSeconds
             b == total * Payroll
             b0 == paid * Payroll
             c == total * (2 * Stipend)
             c0 == paid * (2 * Stipend)
             pw == ticks * Pay(Ground(present), West)
             pe == ticks * Pay(Ground(present), East)
  <2>7. a \in Nat /\ a0 \in Nat /\ b \in Nat /\ b0 \in Nat /\ c \in Nat /\ c0 \in Nat
    <3> HIDE DEF ticks
    <3> QED BY <1>1, <1>2, <1>3, <1>4, <2>6
  <2>8. Worth = funds[West] + funds[East] + Price * spent
    BY DEF Worth
  <2>9. Worth' = funds[West] + pw + funds[East] + pe + Price * spent
    BY <1>4, <1>5, <2>5
  <2>10. sincePayout' \in Nat
    BY <1>1, <1>2, TicksOfSeconds
  <2>11. a + sincePayout' + unreported' <= lived'
    <3> HIDE DEF a, a0
    <3>1. a + sincePayout' = a0 + (sincePayout + Interval)
      BY <2>2 DEF a, a0, total
    <3>2. a0 + sincePayout + unreported <= lived
      BY <2>1 DEF a0
    <3> QED BY <1>1, <1>2, <2>3, <2>7, <2>10, <3>1, <3>2
  <2>12. restarts' = 0 => elapsed' <= now' /\ a + sincePayout' = elapsed'
    <3> HIDE DEF a, a0
    <3>1. a + sincePayout' = a0 + (sincePayout + Interval)
      BY <2>2 DEF a, a0, total
    <3>2. restarts = 0 => a0 + sincePayout = elapsed
      BY <2>1 DEF a0
    <3> QED BY <1>1, <1>2, <2>3, <2>4, <2>7, <2>10, <3>1, <3>2
  <2>13. Worth' <= 2 * StartingFunds + b /\ Worth' >= 2 * StartingFunds + c
    <3>1. pw \in Nat /\ pe \in Nat /\ pw + pe <= b - b0 /\ pw + pe >= c - c0
      BY <2>5
    <3>2. Worth <= 2 * StartingFunds + b0 /\ Worth >= 2 * StartingFunds + c0
      BY <2>1
    <3> HIDE DEF b, b0, c, c0, pw, pe
    <3> QED BY <1>4, <2>7, <2>8, <2>9, <3>1, <3>2
  <2> HIDE DEF ticks
  <2> QED BY <2>6, <2>11, <2>12, <2>13
<1> QED BY <1>5, <1>6 DEF FundsSound, Payroll

\* Every other step leaves the Funds where they came from, or is a load.
LEMMA NextFunds == IInv /\ FundsSound /\ [Next]_vars => FundsSound'
<1> SUFFICES ASSUME IInv, FundsSound, [Next]_vars PROVE FundsSound'
  OBVIOUS
<1>0. /\ spent \in Nat /\ restarts \in Nat /\ loads \in Nat
      /\ lived \in Nat /\ unreported \in Nat /\ sincePayout \in Nat
      /\ now \in Nat /\ elapsed \in Nat /\ TickSeconds \in Nat \ {0}
      /\ \A paid \in Nat : paid * TickSeconds \in Nat
  BY CampaignAssumption DEF IInv, FundsSound, Counted, TypeOK
<1>1. ASSUME NEW present \in [Objectives -> SUBSET Sides], Report(present) PROVE FundsSound'
  <2>1. PICK decided \in Outcome \union {None} :
          \/ ~Complete(decided) /\ Observe(present, decided) /\ Watch(present)
          \/ UNCHANGED <<clocks, ground, funds, spent, ghosts>>
    BY <1>1, ReportCases
  <2>2. UNCHANGED <<now, lived, restarts, loads>>
    BY <1>1 DEF Report, world
  <2>3. CASE Observe(present, decided) /\ Watch(present)
    BY <2>2, <2>3, ObserveFunds
  <2>4. CASE UNCHANGED <<clocks, ground, funds, spent, ghosts>>
    BY <2>2, <2>4 DEF FundsSound, Worth, Payroll, clocks, ghosts
  <2> QED BY <2>1, <2>3, <2>4
<1>2. ASSUME NEW s \in Sides, Purchase(s) PROVE FundsSound'
  <2>1. /\ spent' = spent + 1 /\ funds' = [funds EXCEPT ![s] = @ - Price]
        /\ UNCHANGED <<now, lived, restarts, loads, elapsed, sincePayout, unreported>>
    BY <1>2 DEF Purchase, world, clocks, ghosts
  <2>2. Worth' = Worth
    <3>1. funds[West] \in Nat /\ funds[East] \in Nat /\ Price \in Nat /\ West # East
      BY CampaignAssumption DEF IInv, TypeOK, Sides
    <3>2. Price * (spent + 1) = Price * spent + Price /\ Price * spent \in Nat
      BY <1>0, <3>1
    <3>3. funds'[West] + funds'[East] = funds[West] + funds[East] - Price
      BY <1>2, <2>1, <3>1 DEF IInv, TypeOK, Sides
    <3>4. funds'[West] \in Int /\ funds'[East] \in Int
      BY <1>2, <2>1, <3>1 DEF IInv, TypeOK, Sides
    <3> QED BY <2>1, <3>1, <3>2, <3>3, <3>4 DEF Worth
  <2> QED BY <1>0, <2>1, <2>2 DEF FundsSound, Payroll
<1>3. ASSUME NEW s \in Sides, HqFalls(s) PROVE FundsSound'
  BY <1>3 DEF HqFalls, FundsSound, Worth, Payroll, clocks, standing, bounds, ghosts
<1>4. ASSUME NEW d \in 1..MaxStep, TimePasses(d) PROVE FundsSound'
  <2>1. /\ lived' = lived + d /\ now' = now + d /\ unreported' = unreported + d /\ d \in Nat
        /\ UNCHANGED <<elapsed, sincePayout, restarts, loads, spent, funds>>
    BY <1>4, CampaignAssumption DEF TimePasses, clocks, standing
  <2>2. Worth' = Worth /\ Payroll' = Payroll
    BY <2>1 DEF Worth, Payroll
  <2>3. ASSUME NEW paid \in Nat, paid * TickSeconds + sincePayout + unreported <= lived
        PROVE  paid * TickSeconds + sincePayout' + unreported' <= lived'
    BY <1>0, <2>1, <2>3
  <2>4. elapsed <= now => elapsed' <= now'
    BY <1>0, <2>1
  <2> QED BY <1>0, <2>1, <2>2, <2>3, <2>4 DEF FundsSound
<1>5. CASE Restart
  <2>1. restarts' # 0 /\ restarts' \in Nat
    BY <1>0, <1>5 DEF Restart
  <2>2. UNCHANGED <<elapsed, sincePayout, lived, loads, spent, funds, unreported>>
    BY <1>5 DEF Restart, clocks, standing
  <2> QED BY <2>1, <2>2 DEF FundsSound, Worth, Payroll
<1>6. CASE Save
  BY <1>6 DEF Save, FundsSound, Worth, Payroll, world, clocks, standing, bounds, ghosts
<1>7. CASE Load
  BY <1>0, <1>7 DEF Load, FundsSound
<1>8. CASE UNCHANGED vars
  BY <1>8 DEF FundsSound, Worth, Payroll, vars, world, clocks, standing, bounds, ghosts
<1> QED BY <1>1, <1>2, <1>3, <1>4, <1>5, <1>6, <1>7, <1>8 DEF Next
-----------------------------------------------------------------------------
\* Holds, clocks, Funds and outcomes stay what a Campaign can hold: nobody is in debt,
\* and no capture or Domination is left uncashed.
THEOREM TypeCorrect == Spec => []TypeOK
<1>1. IInv => TypeOK
  BY DEF IInv
<1> QED BY <1>1, Invariance, PTL

\* The world is told of the end exactly once, whatever reports follow it.
THEOREM ToldOnce == Spec => []WonIsToldOnce
<1>1. IInv => WonIsToldOnce
  BY DEF IInv, ToldSound
<1> QED BY <1>1, Invariance, PTL

\* After the end nothing moves but by a load: an outcome is never revised.
THEOREM Frozen == Spec => FrozenOnceWon
<1>1. ASSUME IInv, [Next]_vars, outcome # None, loads' = loads
      PROVE  UNCHANGED <<outcome, ground, funds, elapsed>>
  <2>1. ASSUME NEW present \in [Objectives -> SUBSET Sides], Report(present)
        PROVE  UNCHANGED <<outcome, ground, funds, elapsed>>
    BY <1>1, <2>1, ReportCases DEF Complete, clocks
  <2>2. ~Load
    BY <1>1 DEF Load, IInv, Counted
  <2> QED BY <1>1, <2>1, <2>2 DEF Next, Purchase, HqFalls, TimePasses, Restart, Save,
             clocks, standing, ending, vars
<1>2. IInv /\ [Next]_vars =>
        [(outcome # None /\ loads' = loads) => UNCHANGED <<outcome, ground, funds, elapsed>>]_vars
  BY <1>1
<1> QED BY <1>2, Invariance, PTL DEF Spec, FrozenOnceWon

\* No side takes an Objective it was not shown alone on, report after report, for the
\* seconds a capture takes.
THEOREM CapturesAreEarned == Spec => CaptureIsEarned
<1> DEFINE Earned == \A o \in Objectives : \A s \in Sides :
      (ground[o].owner # s /\ ground'[o].owner = s /\ loads' = 0) => aloneFor'[o][s] >= CaptureSeconds
<1>1. ASSUME IInv, Next, NEW o \in Objectives, NEW s \in Sides,
             ground[o].owner # s, ground'[o].owner = s, loads' = 0
      PROVE  aloneFor'[o][s] >= CaptureSeconds
  <2>1. PICK present \in [Objectives -> SUBSET Sides] : Report(present)
    <3>1. ~Load
      BY <1>1 DEF Load, IInv, Counted
    <3> QED BY <1>1, <3>1 DEF Next, Purchase, HqFalls, TimePasses, Restart, Save, standing
  <2>2. PICK decided \in Outcome \union {None} :
          ~Complete(decided) /\ Observe(present, decided) /\ Watch(present)
    BY <1>1, <2>1, ReportCases
  <2>3. loads = 0 /\ loads' = loads
    BY <1>1, <2>1 DEF Report
  <2> QED BY <1>1, <2>2, <2>3, ObserveEarned
<1>2. IInv /\ [Next]_vars => [Earned]_vars
  BY <1>1
<1> QED BY <1>2, Invariance, PTL DEF Spec, CaptureIsEarned

\* No side wins by Domination that was not shown to own everything for the seconds it
\* takes, after a load too.
THEOREM DominationIsEarned == Spec => DominationIsSustained
<1> DEFINE Sustained == (outcome' # outcome /\ outcome' # None /\ outcome'.condition = "domination")
                          => totalFor' >= DominationSeconds
<1>1. ASSUME IInv, Next, outcome' # outcome, outcome' # None, outcome'.condition = "domination"
      PROVE  totalFor' >= DominationSeconds
  <2>1. PICK present \in [Objectives -> SUBSET Sides] : Report(present)
    BY <1>1 DEF Next, Purchase, HqFalls, TimePasses, Restart, Save, Load, ending
  <2>2. PICK decided \in Outcome \union {None} :
          ~Complete(decided) /\ Observe(present, decided) /\ Watch(present)
    BY <1>1, <2>1, ReportCases
  <2>3. loads' = loads
    BY <2>1 DEF Report
  <2> QED BY <1>1, <2>2, <2>3, ObserveEarned
<1>2. IInv /\ [Next]_vars => [Sustained]_vars
  BY <1>1
<1> QED BY <1>2, Invariance, PTL DEF Spec, DominationIsSustained

\* What the sides own and have spent is between what the mission's clock and what the
\* seconds the world lived pay, for every map, income and price: no report is paid
\* twice, no restart of the mission pays for seconds that did not pass.
THEOREM FundsAreEarned == Spec => []FundsFollowTheClock
<1>1. Init => FundsSound
  <2>1. ASSUME Init PROVE FundsSound
    <3>1. /\ spent = 0 /\ restarts = 0 /\ loads = 0 /\ lived = 0 /\ sincePayout = 0
          /\ unreported = 0 /\ elapsed = 0 /\ now = 0
          /\ funds[West] = StartingFunds /\ funds[East] = StartingFunds
      BY <2>1 DEF Init, Sides
    <3>2. /\ StartingFunds \in Nat /\ Price \in Nat /\ Stipend \in Nat /\ TickSeconds \in Nat
          /\ Payroll \in Nat
      BY CampaignAssumption, PayBounds
    <3>3. Price * 0 = 0 /\ 0 * TickSeconds = 0 /\ 0 * Payroll = 0 /\ 0 * (2 * Stipend) = 0
      BY <3>2
    <3>4. Worth = 2 * StartingFunds
      BY <3>1, <3>2, <3>3 DEF Worth
    <3>5. /\ 0 * TickSeconds + sincePayout + unreported <= lived
          /\ Worth <= 2 * StartingFunds + 0 * Payroll
          /\ Worth >= 2 * StartingFunds + 0 * (2 * Stipend)
          /\ restarts = 0 => elapsed <= now /\ 0 * TickSeconds + sincePayout = elapsed
      BY <3>1, <3>2, <3>3, <3>4
    <3> QED BY <3>1, <3>5 DEF FundsSound
  <2> QED BY <2>1
<1>2. IInv /\ FundsSound => FundsFollowTheClock
  <2>1. ASSUME IInv, FundsSound, loads = 0
        PROVE  /\ Worth <= 2 * StartingFunds + (lived \div TickSeconds) * Payroll
               /\ restarts = 0 =>
                    Worth >= 2 * StartingFunds + (elapsed \div TickSeconds) * (2 * Stipend)
    <3>1. PICK paid \in Nat :
            /\ paid * TickSeconds + sincePayout + unreported <= lived
            /\ Worth <= 2 * StartingFunds + paid * Payroll
            /\ Worth >= 2 * StartingFunds + paid * (2 * Stipend)
            /\ restarts = 0 => elapsed <= now /\ paid * TickSeconds + sincePayout = elapsed
      BY <2>1 DEF FundsSound
    <3>2. /\ lived \in Nat /\ elapsed \in Nat /\ unreported \in Nat /\ Payroll \in Nat
          /\ TickSeconds \in Nat \ {0} /\ sincePayout \in 0..(TickSeconds - 1)
          /\ StartingFunds \in Nat /\ Stipend \in Nat
      <4>1. Payroll \in Nat
        BY PayBounds
      <4>2. lived \in Nat /\ elapsed \in Nat
        BY <2>1, NumbersType DEF IInv, Counted, TypeOK
      <4> QED BY <2>1, <4>1, <4>2, CampaignAssumption DEF IInv, Counted, TypeOK
    <3>3. Worth \in Int
      <4>1. funds[West] \in Nat /\ funds[East] \in Nat /\ spent \in Nat /\ Price \in Nat
        BY <2>1, CampaignAssumption DEF IInv, TypeOK, FundsSound, Sides
      <4> QED BY <4>1 DEF Worth
    <3>4. paid <= lived \div TickSeconds /\ lived \div TickSeconds \in Nat
      BY <3>1, <3>2, DivBounds
    <3>5. restarts = 0 => elapsed \div TickSeconds = paid
      BY <3>1, <3>2, DivBounds
    <3>6. paid * Payroll <= (lived \div TickSeconds) * Payroll
      BY <3>2, <3>4, TimesKeepsOrder
    <3>7. paid * Payroll \in Nat /\ (lived \div TickSeconds) * Payroll \in Nat
      BY <3>2, <3>4
    <3>8. Worth <= 2 * StartingFunds + (lived \div TickSeconds) * Payroll
      BY <3>1, <3>2, <3>3, <3>6, <3>7
    <3> QED BY <3>1, <3>5, <3>8
  <2>2. \A n \in Nat : n * (2 * Stipend) = n * 2 * Stipend
    BY CampaignAssumption
  <2>3. IInv => elapsed \div TickSeconds \in Nat
    BY CampaignAssumption DEF IInv, TypeOK
  <2> QED BY <2>1, <2>2, <2>3 DEF FundsFollowTheClock, Payroll
<1> QED BY <1>1, <1>2, NextFunds, Invariance, PTL DEF Spec
=============================================================================
