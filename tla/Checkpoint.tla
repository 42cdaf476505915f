------------------------------ MODULE Checkpoint ------------------------------
(***************************************************************************)
(* When the Campaign is made durable (coordinator.py): request threads mark *)
(* it dirty, a worker thread copies it under the daemon's lock and writes    *)
(* the copy with no lock held, callers force a checkpoint and wait for it,   *)
(* and a shutdown asks for a last one.                                       *)
(*                                                                          *)
(* Changes are numbered as they are made, so a copy, a write and a promise   *)
(* are each the number of the last change they hold.  Time is discrete: a    *)
(* worker with something to do does not let it pass, and a write, the wait   *)
(* for the daemon's lock included, lasts at most WriteTime.                  *)
(***************************************************************************)
EXTENDS Naturals, Sequences, SequencesExt

CONSTANTS Callers,      \* threads in checkpoint_now, each calling once
          Interval,     \* CHECKPOINT_INTERVAL_SECONDS
          WriteTime,    \* how long a copy and its save may take
          MaxMade,      \* bound: how many changes are made
          MaxFailures   \* bound: how many saves raise

ASSUME CheckpointAssumption ==
  /\ Interval \in Nat /\ WriteTime \in Nat
  /\ MaxMade \in Nat /\ MaxFailures \in Nat

VARIABLES
  made,       \* _generation: how many changes were marked
  ages,       \* the age of every change no save holds yet, oldest first
  dirty,      \* _dirty
  left,       \* the time left to _deadline, when dirty
  force,      \* _force
  completed,  \* _completed
  stopped,    \* _stopped
  worker,     \* where the worker thread is
  final,      \* whether its write is the one after the stop
  target,     \* the generation it captured for the write in progress
  copied,     \* the last change its copy holds
  elapsed,    \* how long its write has taken
  failures,   \* how many saves raised
  call        \* each caller: not called yet, waiting for a generation, returned

condition == <<dirty, left, force, completed, stopped>>
write == <<worker, final, target, copied, elapsed>>
vars == <<made, ages, condition, write, failures, call>>

Call == [at : {"new", "waiting", "done", "refused"}, for : 0..MaxMade]

\* The coordinator's types.
TypeOK ==
  /\ made \in 0..MaxMade
  /\ ages \in Seq(Nat) /\ Len(ages) <= made
  /\ dirty \in BOOLEAN /\ force \in BOOLEAN /\ stopped \in BOOLEAN /\ final \in BOOLEAN
  /\ left \in 0..Interval
  /\ completed \in 0..made /\ target \in 0..made /\ copied \in 0..made
  /\ worker \in {"waiting", "copying", "saving", "saved", "exited"}
  /\ elapsed \in 0..WriteTime
  /\ failures \in 0..MaxFailures
  /\ call \in [Callers -> Call]

\* The last change a boot would find on disk.
Durable == made - Len(ages)

Init ==
  /\ made = 0 /\ ages = <<>>
  /\ dirty = FALSE /\ left = 0 /\ force = FALSE /\ completed = 0 /\ stopped = FALSE
  /\ worker = "waiting" /\ final = FALSE /\ target = 0 /\ copied = 0 /\ elapsed = 0
  /\ failures = 0
  /\ call = [c \in Callers |-> [at |-> "new", for |-> 0]]
-----------------------------------------------------------------------------
(* Request threads.                                                         *)

\* Fault: every change starts the interval again.
MarkPushed == dirty' = TRUE /\ left' = Interval

\* The deadline is set by the first unsaved change and left alone by the others.
Mark == dirty' = TRUE /\ left' = IF dirty THEN left ELSE Interval

\* A report or a Command changed the Campaign under the daemon's lock: mark_dirty.
Change ==
  /\ made < MaxMade /\ worker # "exited"
  /\ made' = made + 1 /\ ages' = Append(ages, 0)
  /\ Mark
  /\ UNCHANGED <<force, completed, stopped, write, failures, call>>

\* checkpoint_now: refused once stopped, else a write is forced and waited for.
CheckpointNow(c) ==
  /\ call[c].at = "new"
  /\ IF stopped
     THEN call' = [call EXCEPT ![c].at = "refused"] /\ UNCHANGED force
     ELSE call' = [call EXCEPT ![c] = [at |-> "waiting", for |-> made]] /\ force' = TRUE
  /\ UNCHANGED <<made, ages, dirty, left, completed, stopped, write, failures>>

\* Fault: a stop does not end the wait.
WaitIsOverWhenSaved(c) == completed >= call[c].for

WaitIsOver(c) == completed >= call[c].for \/ stopped

CallerReturns(c) ==
  /\ call[c].at = "waiting" /\ WaitIsOver(c)
  /\ call' = [call EXCEPT ![c].at = IF completed >= call[c].for THEN "done" ELSE "refused"]
  /\ UNCHANGED <<made, ages, condition, write, failures>>

\* shutdown, by the thread that served; it then waits for the worker to exit.
Shutdown ==
  /\ ~stopped /\ stopped' = TRUE
  /\ UNCHANGED <<made, ages, dirty, left, force, completed, write, failures, call>>
-----------------------------------------------------------------------------
(* The worker.                                                              *)

Due == dirty /\ left = 0

StartWrite == worker' = "copying" /\ target' = made /\ elapsed' = 0

\* _await_write_or_stop returns a generation to write at.
Begin ==
  /\ worker = "waiting" /\ ~stopped /\ (force \/ Due)
  /\ force' = FALSE
  /\ StartWrite
  /\ UNCHANGED <<made, ages, dirty, left, completed, stopped, final, copied, failures, call>>

\* It returns None: one last checkpoint if anything remains unsaved.
Stop ==
  /\ worker = "waiting" /\ stopped
  /\ IF dirty \/ made > completed
     THEN StartWrite /\ final' = TRUE
     ELSE worker' = "exited" /\ UNCHANGED <<final, target, elapsed>>
  /\ UNCHANGED <<made, ages, condition, copied, failures, call>>

\* snapshot_source: a consistent copy under the daemon's lock.
Copy ==
  /\ worker = "copying" /\ worker' = "saving"
  /\ copied' = made
  /\ UNCHANGED <<made, ages, condition, final, target, elapsed, failures, call>>

\* The copy is what the next boot finds; a save may raise and still have got there.
OnDisk ==
  ages' = IF copied > Durable THEN SubSeq(ages, copied - Durable + 1, Len(ages)) ELSE ages

\* store.save returns.
Save ==
  /\ worker = "saving" /\ worker' = "saved"
  /\ OnDisk
  /\ UNCHANGED <<made, condition, final, target, copied, elapsed, failures, call>>

\* The write is over and its locals are gone.
BackToWait ==
  /\ worker' = IF final THEN "exited" ELSE "waiting"
  /\ target' = 0 /\ copied' = 0 /\ elapsed' = 0

\* Fault: the write is taken for the latest state whatever came meanwhile.
CleanAlways == dirty' = FALSE /\ left' = 0

\* The Campaign is clean only if no change was marked since the write began.
Clean == IF made = target THEN dirty' = FALSE /\ left' = 0 ELSE UNCHANGED <<dirty, left>>

\* Fault: what is completed is what was made by the end, not by the copy.
CompleteLatest == completed' = made

Complete == completed' = IF target > completed THEN target ELSE completed

\* _write, back under the condition.
Finish ==
  /\ worker = "saved" /\ BackToWait
  /\ Clean
  /\ Complete
  /\ UNCHANGED <<made, ages, force, stopped, final, failures, call>>

Retry == left' = IF dirty THEN Interval ELSE left

\* The copy or the save raised: dirty as before, and retried an interval from now.
FailWrite ==
  /\ worker \in {"copying", "saving"} /\ failures < MaxFailures
  /\ failures' = failures + 1
  /\ BackToWait
  /\ UNCHANGED ages \/ (worker = "saving" /\ OnDisk)
  /\ Retry
  /\ UNCHANGED <<made, dirty, force, completed, stopped, final, call>>
-----------------------------------------------------------------------------
Writing == worker \in {"copying", "saving", "saved"}

\* Time passes: never past what the worker has to do now.
Tick ==
  /\ worker = "waiting" => ~force /\ ~Due /\ ~stopped
  /\ Writing => elapsed < WriteTime
  /\ worker # "exited"
  /\ ages' = [i \in DOMAIN ages |-> ages[i] + 1]
  /\ left' = IF left > 0 THEN left - 1 ELSE 0
  /\ elapsed' = IF Writing THEN elapsed + 1 ELSE elapsed
  /\ UNCHANGED <<made, dirty, force, completed, stopped, worker, final, target, copied,
                 failures, call>>

WorkerStep == Begin \/ Stop \/ Copy \/ Save \/ Finish \/ FailWrite

Next ==
  \/ Change \/ Shutdown \/ Tick
  \/ \E c \in Callers : CheckpointNow(c) \/ CallerReturns(c)
  \/ Begin \/ Stop \/ Copy \/ Save \/ Finish \/ FailWrite

Spec == Init /\ [][Next]_vars

\* The worker and the callers are threads the interpreter schedules, and time passes.
Fairness ==
  /\ WF_vars(WorkerStep) /\ WF_vars(Tick)
  /\ \A c \in Callers : WF_vars(CallerReturns(c))

FairSpec == Spec /\ Fairness
-----------------------------------------------------------------------------
\* A Campaign that is clean is on disk whole: a change that arrives while the bytes
\* are on their way is not taken for saved.
CleanMeansDurable == ~dirty => Durable = made

\* A caller whose forced checkpoint returned has every change it asked for on disk.
ForcedIsDurable == \A c \in Callers : call[c].at = "done" => call[c].for <= Durable

\* What a crash can lose is bounded from the first unsaved change and not the last: an
\* interval, or a write in progress if that takes longer, then a write; and an interval
\* and a write more for every save that raised.
Longer == IF WriteTime > Interval THEN WriteTime ELSE Interval
LossIsBounded ==
  \A i \in DOMAIN ages :
    ages[i] <= Longer + WriteTime + failures * (Interval + WriteTime)

\* A caller that waits is answered, though the worker stops first.
EveryForceReturns ==
  \A c \in Callers : call[c].at = "waiting" ~> call[c].at \in {"done", "refused"}

\* What shutdown says of itself: a session that ends gracefully leaves nothing
\* unsaved.
NothingUnsavedAtTheEnd == worker = "exited" => Durable = made
=============================================================================
