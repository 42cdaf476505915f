# Arma CTI, specified and checked

Arma CTI is a two-sided Capture-the-Island campaign played on an Arma 3 server.
It runs as three programs:

    Arma 3 server                  shim                      strategic daemon
    SQF addon, 59 functions   ->   Rust extension, one   ->  Python process, one
    src/addons/main/functions      kept TCP connection       Campaign under one lock
                              <-   src/extension/src     <-  src/src/cti_daemon

The world asks, the daemon answers. Nothing is pushed to the world: what the
daemon wants done waits in its Outbox until the world's pump fetches it. The
world reports what it sees every few seconds; the daemon owns every rule and
every number, the world owns geometry and bodies. Most of what can go wrong sits
between the two: calls that time out after they were handled, reports that are
already old when they are folded, either side restarting under the other.

The repository also holds the System of Work that builds the game: Python tools under
`src/tools` that plan an Initiative, dispatch coding agents into work trees, watch the
lanes they run on, review what they made and land it. These tools share files, trees
and a Git remote and take few locks, many of them run at once, and any may die half way:

    Controller            dispatch                review exchange,         land
    one cycle a process   one runner a dispatch   review loop              one run a tree
    tools/controller*.py  tools/dispatch*.py,     tools/review_*.py,       tools/land.py
                          tools/breaker.py        tools/land_review.py

This directory holds TLA+ modules translated from that code, TLC runs over small
instances of them, and proofs, checked by TLAPS, for every size of instance.

## 1. The system

### Components, their state and what makes them correct

| Component | Source | State it keeps | Operations | What makes it correct |
|---|---|---|---|---|
| Effect delivery | `outbox.py`, `daemon.py` (`_poll`, `_ack`), `fn_effectPump.sqf`, `fn_daemonCall.sqf`, `fn_campaignLost.sqf` | queue and issue counter; the epoch latch; the drain in progress | push, poll, drain, acknowledge, freeze | in order, nothing skipped, retired only once met, one Campaign per world, never wedged |
| Command wire | `extension/src/lib.rs`, `transport.py`, `daemon.py` (`handle_line`, `_shed`, `_answer`), `dedupe.py` | the cached connection and its mutex; one handler thread a connection; the daemon's lock; the window of answered lines | exchange, resend, shed, answer, replay | a caller reads its own answer, a resend is not carried out twice, every call returns |
| Snapshot store | `store.py` | three slots, rejected slots, the generation number in each frame | save, load, recovery | what a save acknowledged is found at the next boot |
| Checkpoint coordinator | `coordinator.py`, `daemon.py`, `transport.py` | dirty, deadline, force, generation counters; a worker thread | mark dirty, write, force, shut down | clean means durable; bounded loss; waiters are answered |
| Campaign core | `campaign.py` | owners and holds of the Objectives, HQs, the Domination clock, the outcome | observe, raze, purchase, ... | captures and Domination are earned, the end is final |
| Ledger and prices | `economy.py` | Funds per side | deposit, spend | no overdraft, no second paid twice |
| Roster of Squads | `squads.py` | Squads, their ids, who leads them, fielded or not | add, enrol, reconcile, suspend, restore | a Squad on its way is not dropped, a player leads one |
| Port | `port.py`, `commands.py` | none: judges | purchase, reinforce, order | refusals before any change |
| Report cycle | `report_cycle.py`, `report.py` | caches of what was last reported, `_leading`, `_concluded` | fold | losses before income, the end told once |
| Resume and barrier | `resume.py` | which Squads have reported since a resume | rebuild, open | nothing is reconciled before the world is rebuilt |
| Control lane | `daemon.py` (`_save`, `_load`) | the epoch | save, load | a load replaces the Campaign whole |
| Contacts | `contacts.py` | what each side has seen and when | sight, age | a stale sighting ages out |
| Squad budget | `budget.py` | none: a computation | ceiling | the worst Observation fits a reply |
| Planner | `planner.py` | none between turns | plan | legal Commands only |
| World: effects | `fn_effectApply.sqf` | `cti_squads`: the group of each id | spawn, refill, fill, enrol | applying twice means applying once |
| World: loops | the samplers, `fn_squadLeaderWatch.sqf`, `fn_orderApply.sqf`, `fn_portGateway.sqf` | occupants of the slots, waypoints | sample, sweep, order | reports that are fresh enough |
| Shim addresses | `extension/src/lib.rs` (`set_addr`) | the daemon's address | set | read once per call |
| Controller | `tools/controller.py`, `controller_store.py`, `controller_ports.py` | the started marker, the journal, the view and its digest, the scheduling lock | one cycle: load, resume or collect, plan, record, apply, confirm, materialize | nothing launched or published twice, always loadable or for a known reason |
| Work coordination | `tools/controller_policy.py` | none: a reduction of facts | merge, complete, eligible, next | one agent an item, within the limit, completion on one candidate |
| Planning and publication | `tools/controller_planning.py` | the plan package, artifacts on the tracker | publish | each artifact once |
| Dispatch and stop | `tools/dispatch.py`, `dispatch_stop.py` | one record and one result a dispatch | plan, launch, result, stop | a tree that looks free hides no child, a result says what became of the child |
| Lane breaker | `tools/breaker.py` | one circuit a lane, in a file | outcome, reading, settle, reset | a trip has its evidence, an escalation stands |
| Landing | `tools/land.py` | the remote's `main`, the tracking ref, the main checkout | fetch, rebase, review rung, gate, push, merge, close | what is pushed was reviewed and gated as pushed |
| Review exchange and loop | `tools/review_exchange.py`, `land_review.py`, `review_loop.py` | verdicts, clean-rebase links, findings and adjudications | record, open, round, sync, adjudicate | nothing lands on a finding above Low that was never adjudicated |
| Worktrees and queue | `tools/worktree.py`, `queue_policy.py` | trees, the ruled limit | add, remove | what has not landed is not removed |
| Other tools | `ledger.py`, `observatory.py`, corpora, smoke tests, ... | append-only files | report | measurements and reports |
| Snapshot schema, archive, telemetry, protocol, manifest, loadouts | `snapshot.py`, `archive.py`, `telemetry.py`, `protocol.py`, `manifest.py`, `loadouts.py` | files, none | encode, append | conversions and I/O |

### How they interact

* A Commander's click, a report or a poll is one line. The world's callers queue on
  the shim's mutex; the shim writes the line to its cached connection and, if that
  fails with time left, the identical line once more on a fresh one. The call has a
  budget of 500 ms over both attempts.
* The daemon runs one handler thread per connection and one lock for the Campaign. A
  thread that does not get the lock within 0.25 s is shed: the reply is `busy`.
* Every change of the Campaign that the world must see is an Effect in the Outbox. The
  pump polls it every 2 s, carries it out in order and acknowledges a high-water mark.
* Reports come every 5 s and are folded whole: losses, leaders, sightings, HQs, captures,
  income, Domination, the end, the AI Commanders' turn.
* Every accepted report or Command marks the Campaign dirty; the coordinator's worker
  photographs it under the lock and writes it with no lock held.
* A Controller process takes the scheduling lock only after it has looked whether the
  root is fresh; what it decided is in the journal before it acts, so that the next
  process can finish or must refuse. It starts agents through the dispatch port and knows
  of them what their records, the trees and the process table show.
* A dispatch knows who works in a tree from the records that have no result, and its
  lane's circuit from a file that every runner reads and writes back. Neither is locked.
* A landing runs on the tree it lands, with one tracking ref and one main checkout for
  all the trees; only the push is atomic. The verdict it needs is bound to the commit
  or to one that became it by clean rebases, and its findings are held in a loop that is
  brought up to date by hand, by commands that load it, compute and store it unlocked.
* A restarted daemon has a new epoch and an empty Outbox. The world latches the first
  epoch it hears and freezes its Campaign when it hears another.

### Where it is hard

Interleavings of handler threads, worker and shutdown; at-least-once delivery of
lines and of Effects; reports folded after the world has moved on; a daemon, a
mission or a power supply that goes away between two steps; deadlines that move;
windows, guards and slots that are full. `PROJECT.json` lists each hazard at the
line where it bites, with the properties aimed at it or the reason none is.

## 2. The modules

Every definition that models code is listed in `PROJECT.json` ("map") with the
lines it stands for. Definitions whose comment says *Fault* are mistakes the code
does not make; they are there so that each property can be shown to notice one.

### EffectStream and EffectDelivery

`EffectStream` is the promise, with no wire in it: a Campaign issues numbered
Effects, the world carries them out in that order and none is skipped, and one is
retired only once it was carried out. Hearing another daemon ends the promise.

`EffectDelivery` is the protocol. The daemon's half is `epoch`, `issued`, `outbox`
and the dead-letter rows; the world's half is the pump thread (`pc`, the drain, the
high-water mark, the dead of this drain) and the latch (`known`, `lost`). `reply`
and `acks` are what is on the wire. One action is one handler or one turn of the
pump's loop:

* `HandlePoll` hands over the prefix that fits under the byte guard and fails when
  the oldest entry alone does not; `HandleAck` retires a prefix and writes the dead
  letters, or fails when the mark is beyond what was issued.
* `CarryOut` applies the verdict of `fn_effectApply` to the oldest message left;
  `deferred` ends the drain where it stands, `refused` is retired with a dead letter.
* `TimeOut` may happen whether or not the daemon handled the line, and the
  acknowledgement it abandons may be handled at any later time, or lost, or twice.
* `Restart` may come at any moment, with the shim's resend reaching the new process.

The refinement mapping of `StreamSpec` reads `issued`, `queued` and `carried` off the
daemon the world is with, and maps a lost Campaign to the frozen stream.

### CommandWire

One line and its answer. `phase` is where each call stands in the shim
(`round_trip_persistent`, or `round_trip_fresh` for a line of its own connection),
`mutex` and `cached` are the shim's lock and connection, `handling` and `lock` the
daemon's threads, `answered` the window. A call opens at most one connection, so the
connection is named by the call. `Break` cuts one at any moment; what was written to
it may or may not be read. `StartSpent` is the call whose budget went while it waited
for the mutex: the code drops a sound connection there. The handler that has the
lock may keep it for ever; only the waits that the code bounds have fairness.

### SnapshotStore

One directory, one action for each rename and each directory fsync of `save`, `load`
and the recovery. `view` is the directory as the process sees it and `survivors` the
ones a power loss may leave: every directory since the last fsync. Setting a generation
aside is a rename and its fsync (`SetAside`); the pruning after it (`Prune`) unlinks one file
a step and is followed by no fsync, so more files than `MaxRejected` may be found. `Fail` is any
step that raises, or the process dying; `Rot` is a generation that no longer
validates. The bytes of a file are durable before it enters a slot, as
`_write_durable` has it, so a generation is a number.

### Checkpoint

The coordinator over a store that is durable in one step (`OnDisk`, which is what
`SnapshotStore` earns). Changes are numbered; `ages` holds the age of every change
that no save holds yet, so that "how much can a crash lose" is a statement about a
state. The worker is `waiting`, `copying` (under the daemon's lock), `saving` or
`saved`; time is discrete and does not pass while the worker has something to start.

### SquadLifecycle

One side's Squads from both ends. The daemon: `roster`, the record of each Squad
(`home`, `fielded`, `assigned`, `suspended`, `led`), `leading`, and the Outbox, over
which a cursor walks in order and goes back when an acknowledgement is lost (what
`EffectDelivery` allows). The world: `registered` (`cti_squads`), the living men and
the bodies of each group, and the group each player sits in. `Sample` takes a report,
`Fold` folds it later: `reconcile` (`Lost`, `Held`), then `_lead` (`Led`, `Enrols`).
`Enrol`, `Spawn`, `Refill` and `Fill` are the branches of `fn_effectApply`.

### Campaign

The rules of a playthrough: `Advance` is `_advance_capture`, `Credit` the Domination
clock, `Pay` and `Interval` the income, `Decided` the Decapitation, `Conclude` the
report cycle's once-only end. `Report` is one whole fold, in the code's order, and
ends with the AI Commanders' Purchases. `Restart` takes the mission's clock back to
zero under a living daemon; `Save` and `Load` are the control lane. The variables
named as *reported* (`unreported`, `aloneFor`, `totalFor`, `totalHere`) say what the
world has shown, independently of what the code counts, and only properties read them.

### WorkCoordination and Controller

`WorkCoordination` is `controller_policy.py` with no variables: what a run owns
(`OwnsSlot`), what is eligible and next (`Eligible`, `NextWorkItem`), how a fresh
observation is merged into what is known (`MergeIdentity`, `MergeRun`), what counts as
complete (`CompletionReady`) and how the delivery and result records of a dispatch are
read (`Observe`, `WithRecovery`). The evidence of a run is one function over its fields.

`Controller` runs it. A process goes `mark`, `lock`, `collect`, `recheck`, `plan`,
`apply`, `launched`, `confirm`, `view`; `Crash` may take it at any of them, and with an
append under way leaves `torn`. `fresh` is what it read of the root before it had the
lock. `Loadable` is `load_recoverable`: the view must cover exactly the cycles that are
complete. `Resume` takes up the payload of the last record, `Indeterminate` is the
planned launch it refuses. `Facts` is every collection the ports may return: the known
runs, each record beside a dispatch, recovery's answer on each (a conclusion only where
the scan finds nobody in the tree), and the holders of the queue. `Launch` is what the
action port promises to do; `Publish` looks an artifact up on one page of the tracker, and
`Bury` pushes a copy off that page. The world around it delivers, ends, publishes results (also
of an agent that still works, and again), closes issues and opens them again, and removes trees,
an agent's under it as well, at any moment: none of these asks what the others know. `done`
remembers every item that any record ever called complete, and only a property reads it.

### Breaker and Dispatch

`Breaker` is the pure core of `breaker.py`: `Advance` of a circuit by one outcome, with the
three rules of a lane; `Trip`, which never turns an escalated trip into a lesser one; `Settle`
at a published boundary; `ApplyReading` of the first-party feed.

`Dispatch` keeps one lane's circuit in a file (`file`). An update is a read that leaves what
to write in `pending`, and then `write_state`: `OpenScratch` empties the one scratch file all
writers of the lane use, `Fill` writes it, `Replace` renames it onto the state file. `writing`
follows a writer whose scratch file another one has renamed meanwhile: then it fills the state
file itself, or its rename raises (`ReplaceRaises`). A file that is empty or garbled (`Empty`,
`Torn`) reads as a closed lane; `stale` marks a content whose writer read before the file last
changed. Planning is three steps: the lane
(`PlanLane`), who holds the tree (`PlanTree`), the record (`WriteRecord`). The runner is
`ready`, `running`, `recording` (the outcome fed to the breaker), `closing` (its one
attempt at the result); `Fail` is any exception, with `FailedStatus` from what the runner
knows of the child, which may work on; `KillRunner` leaves the child alive. What the child
itself starts in the tree (`strays`) may outlive it and its result. The stop scans, signals
every process of the tree, scans again, and writes a result if it saw none.

### Landing

`commits` is the log of every commit made in any tree; a commit is its tree, what it
changes, the number of landings it sits on, the commit it was replayed from and whether a
hand made it. `main` is the order of landings with the verdict each rode on and the commit
its gate passed. A landing is `fetched`, `rebased`, `reviewed`, `gated`, `pushed`,
`merged`. `DiffId` is the identity a verdict records of the diff, `Satisfies` the rule by
which a verdict speaks for a later commit (`Carried` by recorded clean rebases and the
same diff), `BoundVerdict` the first that does in the order they are tried (`rank`: a human's
by when it was recorded, then agents' by when their dispatch was planned, which need not be the
order they came in), `Cleared` the agreement between verdict and review loop. The loop's four
commands (`OpenLoop`, `Round`, `Sync`, `Adjudicate`) load it and compute; `StoreLoop` stores
what a command computed, over whatever another one stored in between. `adjudged` is every
adjudication a loop ever held. All of this comes at any moment, as do commits in the tree
unless `HandsOff`.

### How they compose

`EffectStream` is implemented by `EffectDelivery` and assumed by `SquadLifecycle` (in
order, at least once). `SnapshotStore` is what `Checkpoint` and `Campaign` take as
one durable step. `Controller` takes the facts and the choice from
`WorkCoordination`, `Dispatch` the circuit from `Breaker`; what `Dispatch` says of results
and of children is what `Controller` takes into account of its ports (a result may be published
while the agent works, recovery concludes only of an empty tree). `CommandWire` is why `EffectDelivery` lets a line be handled late,
twice or never.

## 3. The runs

Each `MC*` module gives model values to one module; the bounds are constants of the
module itself, so that the proofs quantify over them too. Deadlock is checked except
where the system really stops, as the cfg says there.

| Run | Module, cfg | Shows |
|---|---|---|
| `delivery` | `MCEffectDelivery`, `EffectDelivery.cfg` | `NoEffectLost`, `NeverAppliedIsOnRecord`, `OneCampaign`, the refinement `StreamSpec`, and that the Outbox drains |
| `wire` | `MCCommandWire`, `CommandWire.cfg` | `OwnReply`, `DuplicateNeedsFullWindow`, `NobodyWaitsForEver` |
| `store` | `MCSnapshotStore`, `SnapshotStore.cfg` | `NoPromiseLost`, `OneRotCostsOneGeneration` |
| `checkpoint` | `MCCheckpoint`, `Checkpoint.cfg` | `CleanMeansDurable`, `ForcedIsDurable`, `LossIsBounded`, `EveryForceReturns` |
| `squads` | `MCSquadLifecycle`, `SquadLifecycle.cfg` | `TypeOK` (no group above its size among it), `OneSquadPerPlayer`, `OneIdPerGroup`, `OnItsWayIsKept` |
| `squads_live` | `MCSquadLifecycle`, `SquadLifecycleLive.cfg` | `PairedInTheEnd` |
| `campaign` | `MCCampaign`, `Campaign.cfg` | `CaptureIsEarned`, `DominationIsSustained`, `FrozenOnceWon`, `WonIsToldOnce`, `FundsFollowTheClock` |
| `controller` | `MCController`, `Controller.cfg` | `OneAgentPerItem`, `AgentsWithinLimit`, `AppliedOnce`, `UnreadableHasACause`, `CompletionOnOneCandidate`, `NoRelaunchOfCompleted` |
| `dispatch` | `MCDispatch`, `Dispatch.cfg` | `FreeTreeHidesNoChild`, `NotLaunchedNeverRan`, `StoppedIsOver`, `TripNeedsEvidence`, `EscalationStands` |
| `landing` | `MCLanding`, `Landing.cfg` | `PushedWasReviewed`, `PushedWasGated`, `LandedOwesNothing`, `ClosedMeansMerged` |
| `squads_wiped` | `MCSquadLifecycle`, `SquadLifecycleWiped.cfg` | `OnlyTheWipedAreDropped` is violated |
| `landing_closed` | `MCLanding`, `LandingClosed.cfg` | `ClosedMeansLanded` is violated |

### Bounds, and why they are enough

* **delivery**: `MaxIssued = 2`, `MaxEpoch = 2`, three kinds of Effect: one that may be
  refused or applied, one that is deferred until it is refused, one too large for any
  reply. `Guard = 3` lets two small Effects share a reply and neither of them share one
  with the larger. Two Effects are what it takes to overtake, two epochs to confuse.
  The safety part is proved for all values.
* **wire**: two lines on the kept connection and one of its own, `Window = 1`: the
  smallest window that one other line can overrun, so that second executions do happen.
* **store**: `MaxSaves = 4` (two promised, one damaged, one in progress), `MaxRots = 2`,
  `MaxRejected = 1` so that pruning happens.
* **checkpoint**: `Interval = 2`, `WriteTime = 1`, two changes, two callers, one failing
  save: a change races the write that a force and a deadline both want.
* **squads**: two players, two seats, three ids, groups of two men, one death, two
  returns, one Effect at a time in the Outbox. `squads_live`: one player, two ids,
  one lost report or acknowledgement, and `QuickReturns = FALSE` (below).
* **campaign**: one Objective, three seconds of the world, two for a capture, a Domination
  of one, ticks of two, one mission restart, one load, one Purchase: room for a capture, its
  Domination and a tick on either side of the restart or the load. More Objectives, longer
  holds and more restarts are what the proofs are for: all of it is proved for all values.
  `MaxStep` is how much of the clock one report may cover.
* **controller**: two processes, two Work Items, three cycles (the first publishes the one
  artifact, the other two may launch), a limit of one agent, one crash or failing port, two
  events of the world between them (a record written, an issue closed or opened again, a tree
  removed: `MaxEvents`), and recovery that answers "still live", "lost work" or nothing. Two
  events are a completion and its reopening, or a tree removed under an agent whose result then
  comes. Result records name either of two SHAs, so that evidence can be mixed. With the
  limit at one the second launch is always the one that must not be; larger limits, more
  processes and more events are left to the proofs, which cover every property of this run.
* **dispatch**: two dispatches into one tree, one hand at the breaker, one command (a stop or
  a word to the breaker: `MaxCommands`), one killed runner (`MaxKills`), one boundary and one
  tick past it, two outcomes in a row for a trip. Two of everything that can race is what it
  takes: a stop meets two dispatches of its tree, and three writers meet at the lane's file.
  Three outcomes in a row, a stop and a word to the breaker together, more trees and more
  dispatches are left to the proofs, which cover every property of this run.
* **landing**: two trees, two kinds of change, one finding of either grade, two commands at
  the loop at once, three commits and two verdicts over both trees, five commits, verdicts and
  updates of loops together (`MaxWork`), hands off the trees while they land. Three commits are
  one landing and a rebase of the other, or a rebase with a conflict; a commit, a verdict, an
  opening, an adjudication and another update of the same loop are one overwritten adjudication
  with its landing. `PushedWasReviewed` and `PushedWasGated` are about trees nobody works in
  while they land (section 5).

### Fairness

* `EffectDelivery!Fairness`: the pump is a scheduled loop (weak fairness of its own
  steps); the wire may fail any call but not every call for ever, and an Effect that
  is deferred is not deferred for ever (strong fairness of the poll, of the
  acknowledgement and of carrying out). Nothing is assumed of restarts.
* `CommandWire!Fairness`: only what the code bounds with a timeout: the shim's budget,
  the wait for the daemon's lock, the read of a line that is there. Nothing about the
  handler that holds the lock, which is the point of the run.
* `Checkpoint!Fairness`: the worker and the callers are threads, and time passes.
* `SquadLifecycle!Fairness`: the loops of the addon keep turning; an acknowledgement
  that is sent again and again lands once.

`SnapshotStore`, `Campaign`, `Controller`, `Dispatch` and `Landing` state no liveness: the
first is called, the second is driven by the world, and the tools are started by hand or by
a timer outside this repository, may refuse at any step and are then simply run again.

## 4. What is proved

TLAPS checks these for every value of the constants, from the assumptions named in the
modules (`DeliveryAssumption`, `WireAssumption`, `StoreAssumption`, `CheckpointAssumption`,
`LifecycleAssumption`, `CampaignAssumption`, `ConsecutiveAssumption`, `HandAssumption`,
`ContentAssumption`,
`LandingAssumption`, `CoordinationAssumption`, `ControllerAssumption`), which say no more than that bounds are numbers, that at least
one set-aside file is kept, that "nothing" is none of the contents a file may have, that Objectives and
players are finitely many, that sides, owners, groups and "nobody" are different things, that
a Squad is bought with two men at least, that a rule trips on at least one outcome, that
sizes and verdicts are given for each Effect, that there are finitely many Work Items and the
priority order ranks them all, and that a record holds the fields of a run. One leader slot a side is not assumed of the
constants: `TakeSlot` has it as its guard.

**EffectDelivery_proofs.** `TypeCorrect`, `NothingLost`, `DeadOnRecord`,
`OneCampaignOnly`, and `DeliveryImplementsStream`. The three invariants are not
inductive by themselves: an acknowledgement in flight, a reply on the wire and a
drain in progress each carry a claim about what the world has already met. `IInv`
states those claims. `Behind(e, s, D)` says that Effect `s` of daemon `e` was carried
out, and applied unless the record, or the set `D` still to be reported, says dead.
`AcksSound` says it of everything under an acknowledgement's mark, `TurnSound` of
everything under the pump's mark, `ReplySound` and `DrainSound` of everything older
than a message that was handed over and is not in the same hand-over, and
`OutboxComplete` of everything retired. Each part is needed for the next: a handled
acknowledgement keeps `OutboxComplete` because of `AcksSound`, which was true when
the acknowledgement was sent because of `TurnSound`, which `CarryOut` keeps because
of `DrainSound`, which `HearPoll` got from `ReplySound`, which `HandlePoll`
establishes from `OutboxComplete` and from the fact that `Drainable` is a prefix
(`DrainableIsPrefix`). All of it is guarded by "the world is with this daemon"; after
a restart the guards fall and only `OneCampaign` and the latch remain. The refinement
is proved step by step from the same invariant.

**CommandWire_proofs.** `TypeCorrect`, `RepliesAreOwn`, `DuplicatesAreLate`. A caller reads
its own answer because a connection it may read from carries at most one thing, its line or
the answer to it: `PipeSound` says so of the connection a call is on, of a new one and of the
cached one while nobody has the mutex, and `MutexSound` says that the mutex, the cache and
the phases of the calls agree on whose connection that is. A broken connection with a line
still on it is excepted as long as it has no replies, which is why the shim must discard it.
`WindowSound` makes `DuplicateNeedsFullWindow` inductive: a line that was carried out once
stands in the window at the place that the lines carried out since leave it. `since`, which
counts them, is read by the property only.

**Durability_proofs, the store.** `StoreTypeCorrect`, `PromisesKept`, `OneRotOneGeneration`,
`AcknowledgedAscend`. What a boot finds depends on which directory survived and on the rots
to come, so the invariant speaks of every directory in `survivors`: `Good(d)` says that what
a boot would pick there is no less than what is owed (`Floor`: the last promise, or the one
before once it may be the damaged one), also after the staged candidate is replaced and after
one more generation rots; `StepSound` says what each step of a save or a load finds in the
directory it renames in. Each rename is a lemma on directories, and a sync only drops
survivors. `GenerationSound` adds that the counter in the frames ascends along the slots;
`GenerationsAscend`, stated in the module, follows, with the guard `~vacated` (section 5).

**SquadLifecycle_proofs.** `TypeCorrect`, `OneLeaderEach`, `OneIdEachGroup`, `OnItsWayStays`.
`OneIdPerGroup` is not inductive: a queued enrolment could name a group that a Purchase made.
`KindSound` says that it cannot, because an id is either bought, with a group of its own, or
a player's, with a group the engine put him in, and neither the queue nor the world makes one
into the other (`Bought`, `OfPlayer`). A group that is collected has no men, so no name of a
group with men is lost (`MenKeepTheName`). `WaySound` says of a Squad on its way that it is
bought once, has no group, was seen by no report and is not `fielded`, so that a report folded
late cannot lose it; that survives a redelivery because a spawn still to be carried out is
another one than those already carried out. `TypeOK` needs `SeatSound`: one player in a group
at most bounds what is sampled, and refills never pass the size bought (`CountsTheLiving`).

**Durability_proofs, the coordinator.** `TypeCorrect`, `CleanIsDurable`, `ForcedAreDurable`,
`LossesAreBounded`. The strengthening says what each stage of a write holds (`CopySound`: the
copy holds at least the generation that was captured; a write that returned is on disk), that
what is completed is on disk (`CompletedSound`), and that a caller returned only when its
generation was completed (`CallsSound`). `OnDiskDrops` is the arithmetic of the sequence of
unsaved changes. `LossIsBounded` is about a single change and needs all the clocks at once: `AgeSound` says how old a change may be while the deadline still has `left` to go, while a
copy that misses it is being written, and while one that holds it is. The attempt to prove it
corrected it: with a write longer than the interval, a change made just after the copy waits
that write out first, so the bound starts from the longer of the two (`Longer`). For a write
shorter than the interval, as the code's defaults have it, that is the interval.

**Campaign_proofs.** `TypeCorrect`, `ToldOnce`, `Frozen`, `CapturesAreEarned`,
`DominationIsEarned`, `FundsAreEarned`. The code counts seconds of the mission's clock, the properties
seconds the world lived between reports, and the two part at a mission restart and at a
load. The invariant relates them: the interval a report adds is one that passed
(`ClockSound`), unless a load has just taken the Campaign's clock back, when nothing
holds the Domination clock yet; a hold is covered by what the reports have shown
(`HoldSound`) as long as nothing was loaded; the Domination clock is covered, and its
holder is the owner of everything, always (`DominationSound`). `AdvanceEarned` says what
one report makes of one Objective, `ObserveEarned` of the Campaign, and the action
properties follow from it. `ToldSound` ties the telling of the end to the outcome.
`FundsSound` says that some number of ticks accounts for all that the sides own and have
spent, between the bare stipends and the whole map's incomes a tick (`PayBounds`); the seconds
of those ticks fit in what the world lived and, until the mission restarts, are exactly what
the mission's clock shows. A report pays the ticks that its own interval completes, and a
Purchase only moves Funds into what was spent.

**Dispatch_proofs.** `TypeCorrect` and all five properties of the run, for any number of
dispatches, trees, stops and kills. `RunnerSound` says how far each runner got and what
that says of its child and its result; it is what `NotLaunchedNeverRan` lacks, because the
status a runner will write is decided before it is written, and `FreeTreeHidesNoChild` too,
because a runner that gave up waiting can only write that it does not know the child's state.
`StopSound` carries the empty tree a stop saw from its last scan to the result it writes: no
child, nothing a child left behind, and no runner that could still launch one, unless the stop
came before the launch (`early`). For the lane, `LaneSound` says that the outcomes counted so
far stand behind every streak of the circuit, of the scratch file and of every update under way
(`Evidence`), so that a trip has its evidence even when an update restores an older circuit or
fills a file that was renamed away; `Backed` says of a content whose writer was not overtaken
that it keeps an escalated trip (`Keeps`), which is `EscalationStands`. `WriterSound` says who
may have something to write.

**Landing_proofs.** `TypeCorrect`, `GatedPushes`, `ReviewedPushes`, `NothingOwed`,
`ClosedAreMerged`.
`HeadSound` says that a tree is on a commit of its own, that only commits land and that the
tracking ref is never behind; `RunSound` that between fetch and push a tree is on a commit
that has not landed and, with hands off, on the one its gate passed; then a push that is a
fast-forward puts on `main` what was gated on all that had landed (`PushedWasGated`).
`ClearSound` carries what the review rung saw to the push: every finding above Low of the
verdict that cleared it was adjudicated in the loop, and what was recorded once was recorded,
even if another writer has taken it out of the loop since (`LoopSound`, `LoopStep`). `MergeSound`
says the same of a merged tree and the main checkout, which is all `ClosedMeansMerged` needs.

`PushedWasReviewed` follows chains of rebases (`Carried`, `Untouched`), which are recursive
over the log of commits. The proof never asks what such a function computes: each is unfolded
once, and where every earlier commit is needed the first one that fails is taken
(`LeastNumber`, from the well-foundedness of the numbers) and led to a contradiction.

**Controller_proofs.** `TypeCorrect`, `OneAgentEach`, `LimitHolds`, `AppliedAtMostOnce`,
`UnreadableOnlyForACause`, `CompletedStays`, `OneCandidate`. Everything turns on the journal.
It is `Numbered` as long as no fresh start overlooked it: its cycles are 1, 2, 3 and so on, and
`JournalSound` says which prefix of it the view covers. A fresh start that overlooks one writes
a second cycle 1 and leaves it `Broken`, which no later append mends, so that from then on only
processes that read the root as fresh go on, all of them with cycle 1 (`HolderSound`). While it
is `Numbered`, the facts of its last record know every dispatch ever started (`HistorySound`);
a dispatch without a result shows neither landing nor publication in them, and one whose agent
lives was not concluded (`RunsSound`). So one look of a process with history, or of a fresh one
by way of the records without result and the queue's holders, sees every live agent that has
its tree and no result as a run that owns its slot (`AgentsAreSeen`), nobody without a result
works on the item chosen (`NextIsEligible`) and there is room for one more (`RoomForOne`);
`LaunchSound` carries this from the look to the launch, past results, removals and reopenings in
between. `StartsSound` confines second starts to cycle 1 of a broken journal. `DoneSound` says
that what any record ever called complete is complete in the last one and in the facts the
holder goes on with, because each collection keeps what the last record held (`KeptItems`); it
is what `CompletedStays` rests on, whatever the tracker shows. The merging of records
enters these only by what it keeps (`MergeKeeps`, `ObserveKeeps`, `RecoveryKeeps`).
`OneCandidate` needs what it drops as well: a merge that ends without conflict and without a
typed non-result has exactly the SHAs of the two observations it joined (`MergeShas`), so the
run that completes an item has all those that were known or read of it (`LookShas`) and its own
fields say that they are one; that the run was started and is bound to the item is `RunBound`.
The attempt showed what a record may still hide: a delivery record whose only SHA is that of a
landing is read as naming none (`controller_ports.py:549`, as the comment there intends), so
the property counts a delivery record as it is read and asks besides that the record does not
name two.

**Only model-checked.** Liveness under fairness and everything with ENABLED in it
(`OutboxDrains`, `NobodyWaitsForEver`, `EveryForceReturns`, `PairedInTheEnd`), which is out of
the prover's reach. Every safety invariant and every action property of a passing run is
proved. Two limits shape the proofs above: the library's induction theorems take an operator as
a parameter, which the back ends cannot instantiate, and no module with a theorem may reach a
RECURSIVE operator. Hence the recursive functions, and least numbers instead of induction.

## 5. Where the code does not do what it says

Checked as runs:

* `squads_wiped`: a filled Squad is to be dropped only when it was wiped out. A shell
  becomes filled when the Command is judged; its men come with the Effect. If the player dies
  or leaves in between, the Squad is unseen, fielded and assigned, and is dropped with
  nobody dead and the Funds spent.
* `landing_closed`: "a landing closes the issue it landed, on the success path and nowhere
  else" (`land.py:76`). A run with nothing to push and the main checkout behind is taken for
  the one that completes a blocked merge (`land.py:1288`), whoever's merge was blocked: in a
  tree whose issue has landed nothing it merges and closes that issue.

Met while modelling and reproduced with the same modules, kept here for the reader
(each formula is a definition of its module, or can be added to it, and checked there):

* *Busy and carried out* (`daemon.py:297`, `BusyMeansUnspent`). The `busy` reply says
  "Nothing was judged and nothing was spent". When the shed line is the shim's resend, its
  first copy may still be waiting for the lock and is carried out afterwards.
* *Unsaved at the end* (`coordinator.py:170`, `200`, `NothingUnsavedAtTheEnd`). Handler
  threads are not joined, so a change that is accepted while the final checkpoint is being
  written is in no save.
* *Domination across sessions* (`campaign.py:809`, `826`, `851`, `DominationIsOneSession`).
  Domination is to be sustained "within one Play Session", and a clock that goes back "is a
  new session". The Domination clock is kept across it.
* *A quick return* (`report_cycle.py:352`). With `QuickReturns = TRUE`, `PairedInTheEnd`
  fails: a player whose departure no report showed is taken for one who never left.
* *A ghost* (`fn_effectApply.sqf:440`). `registered[i] # None /\ men[registered[i]] > 0
  => i \in roster` fails: a Squad is dropped while an Effect for it is queued, and the
  redelivered spawn puts men under an id the roster does not hold.
* *Twice is not once* (`fn_effectApply.sqf:359`). A Reinforce redelivered after a man has
  died and left his group brings one more than was paid for.
* *Generation 1 again* (`store.py:432`). The guard `~vacated` of `GenerationsAscend` is
  needed: a save that fails between its renames leaves the slot empty the counter is
  read from. With it the property is proved (`AcknowledgedAscend`).
* *A load without an fsync* (`store.py:670`). A load that finds its generation in the
  trusted slot returns at once; a rotation that stopped before its fsync put it there,
  and a power loss may still take it back to the generation before.
* *After a load* (`campaign.py:316`, `324`, `239`). The saved clock is older than the
  mission's, so the first report credits a hold with the seconds in between (this is
  why `CaptureIsEarned` and `FundsFollowTheClock` speak of a Campaign that was never
  loaded); a Campaign saved after its end comes back undecided with the HQ down, and
  that side's Decapitation is no news any more; a contest is saved as it stands.

* *A conclusion that is taken back* (`controller_ports.py:355`, `ConcludedIsFinal`). A
  dispatch recovery has concluded is not asked about again, says the comment; but the next
  collection merges its delivery record first (`controller_policy.py:471`), which may bring
  back a state that is asked about, and the answer may be another one.
* *A holder nobody launched* (`controller_ports.py:297`). A tree with no dispatch journaled
  is a run of its own, and nothing later observed of that identity releases its slot.
* *Confirmed, not materialized* (`controller.py:213`, `controller_store.py:363`). A process that
  dies between the confirmed record and the view leaves a journal every later load refuses:
  one of the causes `UnreadableHasACause` names.
* *A stale fresh start* (`controller.py:124`). Freshness is read before the lock; a process
  that waited behind the first cycle opens the first cycle again: the cause named `stale`.
* *More agents than the limit* (`worktree.py:341`, `dispatch.py:5935`, `controller_policy.py:283`).
  `worktree done` asks whether a tree is clean and landed, not whether an agent works in it, and
  a runner that lost its child publishes a result beside it. From either on nothing counts
  that agent: `Cardinality(agents) <= WipLimit` fails, and with a result, two agents may work on
  one item. `AgentsWithinLimit` and `OneAgentPerItem` say what the records and trees do ensure.
* *Looking up before creating* (`controller_planning.py:1264`, `1284`). Both lookups read one
  page (`find_intent` a hundred issues, `has_plan_revision` the default page of comments), so a
  copy that newer ones pushed off it is made again by a resumption: `AppliedOnce` says that there
  is one copy where the lookup reads (`buried`). And the plan package is written before its
  digest (900): a death in between is not in the model.
* *Quality only by hand* (`breaker.py:17`, `QualityOnlyByHand`). An update that read the lane
  before a quality trip writes over it, and a later availability trip replaces it.
* *A lost trip, a lost file* (`breaker.py:1591`, `1496`, `1449`). An update that read before a
  trip writes the old circuit back; two writers at once share the scratch file, so that one may
  empty or garble what the other renames, or raise; and a file that does not parse is read as a
  fresh closed lane, with the trip and all streaks gone. `EscalationStands` names these ways.
* *A stop before the launch* (`dispatch_stop.py:958`). A stop between the record and the launch
  sees an empty tree and records its ending; the runner then launches into a tree that looks
  free (`early` in `FreeTreeHidesNoChild` and `StoppedIsOver`).
* *Two plans, one tree* (`dispatch.py:5623`). The module is for "refusing a second one into a tree
  that already has one" (`dispatch_stop.py:1`), but the look and the record are two steps: two
  plans may both pass the check before either has its record, and two children then work in one
  tree. Nothing in the code is against it, so no property is claimed.
* *A result frees the tree* (`dispatch_stop.py:995`). The check takes any result for the end of
  the work. A result "child_state_unknown" is written when the runner lost its child, and tells
  the reader not to dispatch again yet (`dispatch.py:293`); the check hands the tree out. So it
  does when a child has finished and what it started works on in the tree (`strays`), which is
  what `dispatch_stop.py:8` to 25 tells of. `FreeTreeHidesNoChild` is what remains.
* *"It never overwrites a result that is already there"* (`dispatch_stop.py:58`, `769`). The
  look and the write are two steps; a result the runner wrote in between is replaced.
* *Working in a tree while it lands* (`land.py:1608`). With `HandsOff = FALSE` both
  `PushedWasReviewed` and `PushedWasGated` fail: what is pushed is the head at the push.
* *A lost adjudication* (`review_loop.py:1673` to `1816`). "The adjudication is terminal", says
  `review_loop.py:653`; but each command loads the loop, computes and stores it, and a sync or a
  round that loaded before an adjudication was stored takes it out again, possibly after a
  landing was cleared on it: `AboveLow(main[i].verdict.found) \subseteq loop[OwnerOf(i)].adjudicated`
  fails. `LandedOwesNothing` says that the loop did hold it. Links of clean rebases are written
  the same way. And a High finding of an older verdict that was never synced is passed over
  when a newer clean verdict binds.

## 6. What is not modelled

* Wording, wire formats and byte counts other than the poll guard; telemetry and
  archives, whose loss is logged and changes nothing; the map manifest and the price
  table, which are constants here.
* The planner's scoring. What it may do to a Campaign is in `Campaign` (a Purchase at
  the end of a report, if there are Funds); which one it prefers is a heuristic.
* The engine: deaths, respawns, groups and waypoints are the world's free choices.
* `resume.py` and the reporting barrier: complete and tested, but no code of the daemon
  calls it yet; only its tests do, so its order relative to the rest of the daemon is not
  there to be modelled.
* `set_addr` of the shim and the parsing of lines in `_answer`.
* That the store's directory itself is there after a power loss: `save` makes it
  (`store.py:386`) and does not fsync its parent.
* Changes of the Campaign that do not call `mark_dirty`: a load (`daemon.py:901`) and the part
  of a report folded before it is refused (`daemon.py:515` is then skipped,
  `report_cycle.py:239`). `Checkpoint` is about the changes that do: what these two leave is
  saved with the next one that marks, and is in no promise before.
* A report refused halfway in `Campaign` (a Base the map does not have, `report_cycle.py:239`),
  which may come after an HQ was razed by the same report, and a summary that raises after
  `_concluded` is set (`report_cycle.py:445` to 468), so that an end is never told.
* The wiring of the launch: `default_controller` gives the Controller a port that refuses every
  action (`controller.py:601`), so `Launch` is the contract of a port that acts and `PortFails`
  what the wired one does.
* Of a stop: processes whose working directory was deleted (`dispatch_stop.py:660`, which only
  refuse), the stop's own chain of processes, and that a scan takes time.
* Of the review rung: the clearance of exempt changes, which asks for no verdict
  (`land_review.py:885`; the shipped table of exemptions is empty), and the refusal of a binary
  diff nothing carried (`review_exchange.py:1625`), without which the model clears more.
* Of the tools: the planner's documents and prompts, profiles, briefs and probes of a dispatch,
  the classification of a run's last lines (one free choice over the classes), authorship,
  routing and corpus rungs of a landing (they only refuse), round numbers, roles and escalations of a review
  loop, worktree set-up. The measuring tools (`ledger.py`, `observatory.py`, the evaluation
  corpora, `mutation_smoke.py` and their like), the largest part of `src/tools` by lines,
  append rows and print reports; nothing else reads what they keep, and there is no state
  in them to be right or wrong over time.
* Tests, spikes and vendored documentation.

Most of the lines under `src/tools` are argument parsing, message texts, subprocess
wrappers and reports, and no definition here stands for them. The map names what a
definition translates and nothing around it.

## 7. What comes next

In this order, the behaviour that players notice first coming first.

1. **Orders** (`port.py` judging an Order, `fn_orderApply`, the enforcement loop): an Order
   is the newest one given, survives a redelivery out of date and a Squad that was
   refilled; composed with `SquadLifecycle`. Run: two Squads, two Places, one redelivery.
2. **ResumeBarrier** (`resume.py`, `Roster.restore`), once the daemon calls it: no
   report is folded before the rebuilt world answers for every Squad; ids are not minted
   twice; the abstract specification is a Campaign that never stopped, as far as the
   snapshot reaches. Composes `Campaign`'s `Load` with the epoch of `EffectDelivery`.
3. **ReportCycle**: the fold with a refused report, the dressing and the sightings, and
   the once-only conclusion with a summary that fails.
4. **Contacts** and **SquadCeiling**: ages and removal of sightings; the force ceiling
   that an enrolment does not ask for; the ceiling of `budget.py` as a function
   compared with its definition over bounded inputs.
5. **Trees and the queue** (`worktree.py`, `queue_policy.py`): adding, finishing and removing a
   tree beside a dispatch that is being planned; composed with `Dispatch` and `Controller`.
6. **Rounds** (`review_loop.py`), composed with `Landing`: escalations, arbiters and the
   terminus. Two places to aim at, read in the code and shown by no run yet. The
   comment at line 1129 says that no reachable state has both `terminus.pending` and
   `landing.json`; `_cmd_terminus` looks for the record (1997) before it claims the marker
   (2017), and the run that wins frees the marker by renaming it, so that a slower run may
   claim it anew and file everything twice. An arbiter's verdict needs the wall to hold and
   *some* firing escalation on record, which may be one that never read this finding
   (557, 2135).
7. Proofs of what 1 to 6 add, each with its module.
