---------------------------- MODULE SnapshotStore ----------------------------
(***************************************************************************)
(* The durable snapshot store (store.py): one directory with three slots a  *)
(* generation can be in, saves and loads that rename files between them and *)
(* fsync the directory, and failures between any two of those steps.        *)
(*                                                                          *)
(* A save is named by its number in the order saves were begun; each writes *)
(* one file, whose bytes are durable before it enters a slot, and 0 is an    *)
(* empty slot.  A rename is durable once the directory is fsynced: until     *)
(* then a power loss may leave any directory there has been since the last   *)
(* fsync.                                                                    *)
(***************************************************************************)
EXTENDS Naturals, FiniteSets, Sequences

CONSTANTS MaxSaves,     \* bound: how many saves are begun
          MaxRots,      \* bound: how many generations the disk damages
          MaxRejected   \* MAX_REJECTED

ASSUME StoreAssumption ==
  MaxSaves \in Nat /\ MaxRots \in Nat /\ MaxRejected \in Nat \ {0}

VARIABLES
  view,        \* the directory as the process sees it
  survivors,   \* the directories a power loss may leave
  rotten,      \* the generations validation refuses
  saves,       \* how many saves were begun: the number of the latest
  generation,  \* the generation counter each save wrote in its frame
  step,        \* where the store's only caller is
  then,        \* the step after the fsync in progress
  saving,      \* whether it is in save, rather than in load
  chosen,      \* the generation a save or a load is making the trusted one
  refused,     \* the slots it has yet to set aside
  promised,    \* the newest generation a save returned with
  fallback,    \* the one a save returned with before that
  vacated      \* whether a failure ever left the trusted slot empty, for a property

disk == <<view, survivors>>
history == <<promised, fallback, vacated>>
storeVars == <<disk, rotten, saves, generation, step, then, saving,
          chosen, refused, history>>

Slots == {"incoming", "current", "previous"}

\* load asks the slots in this order.
Newest(slots) ==
  IF "incoming" \in slots THEN "incoming"
  ELSE IF "current" \in slots THEN "current" ELSE "previous"

Empty == [incoming |-> 0, current |-> 0, previous |-> 0, rejected |-> <<>>]

Directory(d) ==
  /\ DOMAIN d = Slots \union {"rejected"}
  /\ \A s \in Slots : d[s] \in 0..saves
  /\ d.rejected \in Seq(1..saves)

\* The store's types.
StoreTypeOK ==
  /\ Directory(view) /\ \A d \in survivors : Directory(d)
  /\ view \in survivors
  /\ rotten \subseteq 1..saves
  /\ saves \in Nat /\ generation \in Seq(Nat) /\ Len(generation) = saves
  /\ step \in {"idle", "stage", "sync", "check", "demote", "promote", "acknowledge", "preserve", "prune"}
  /\ then \in {"check", "promote", "acknowledge", "prune"}
  /\ saving \in BOOLEAN /\ chosen \in 0..saves
  /\ refused \subseteq Slots
  /\ promised \in 0..saves /\ fallback \in 0..saves /\ vacated \in BOOLEAN

StoreInit ==
  /\ view = Empty /\ survivors = {Empty}
  /\ rotten = {} /\ saves = 0 /\ generation = <<>>
  /\ step = "idle" /\ then = "check" /\ saving = FALSE /\ chosen = 0 /\ refused = {}
  /\ promised = 0 /\ fallback = 0 /\ vacated = FALSE
-----------------------------------------------------------------------------
(* What is on disk, and the two steps every rotation is made of.            *)

\* _read_valid: the frame, the checksum and restore accept what the slot holds.
Valid(d, s) == d[s] # 0 /\ d[s] \notin rotten

\* load's order: the first of the staged candidate, the trusted slot and the
\* fallback that validates, 0 when none does.
Pick(d) ==
  IF Valid(d, "incoming") THEN d.incoming
  ELSE IF Valid(d, "current") THEN d.current
  ELSE IF Valid(d, "previous") THEN d.previous ELSE 0

\* The slots load refuses on its way to the one it picks.
RefusedBy(d) ==
  {s \in Slots :
    /\ d[s] # 0 /\ ~Valid(d, s)
    /\ Pick(d) = 0 \/ s = "incoming" \/ (s = "current" /\ Pick(d) = d.previous)}

\* An atomic rename, and the fsync of the directory that is to follow it.
Move(d, next) ==
  /\ view' = d /\ survivors' = survivors \union {d}
  /\ step' = "sync" /\ then' = next

\* Fault: the rename is trusted without the fsync.
SyncForgotten ==
  /\ step = "sync" /\ step' = then
  /\ UNCHANGED <<disk, rotten, saves, generation, then, saving, chosen, refused, history>>

\* _fsync_directory.
Sync ==
  /\ step = "sync" /\ step' = then
  /\ survivors' = {view}
  /\ UNCHANGED <<view, rotten, saves, generation, then, saving, chosen, refused, history>>
-----------------------------------------------------------------------------
(* save.                                                                    *)

\* _next_generation: one above the trusted slot's, read without validating it; a
\* frame that cannot be read counts as 0, and so does an empty slot.
NextGeneration ==
  IF view.current = 0 THEN {1}
  ELSE {generation[view.current] + 1} \union IF view.current \in rotten THEN {1} ELSE {}

\* The frame is written to the temp file and its bytes are made durable.
BeginSave ==
  /\ step = "idle" /\ saves < MaxSaves
  /\ saves' = saves + 1
  /\ \E g \in NextGeneration : generation' = Append(generation, g)
  /\ step' = "stage" /\ saving' = TRUE
  /\ UNCHANGED <<disk, rotten, then, chosen, refused, history>>

\* The temp file replaces whatever the staging slot held.
Stage ==
  /\ step = "stage"
  /\ Move([view EXCEPT !.incoming = saves], "check")
  /\ UNCHANGED <<rotten, saves, generation, saving, chosen, refused, history>>

\* The staged candidate is read back; one that is refused is set aside instead.
Revalidate ==
  /\ step = "check"
  /\ IF Valid(view, "incoming")
     THEN step' = "demote" /\ chosen' = saves /\ UNCHANGED refused
     ELSE step' = "preserve" /\ refused' = {"incoming"} /\ UNCHANGED chosen
  /\ UNCHANGED <<disk, rotten, saves, generation, then, saving, history>>

\* Fault: the candidate replaces the trusted generation and no fallback is kept.
DemoteNever ==
  /\ step = "demote" /\ step' = "promote"
  /\ UNCHANGED <<disk, rotten, saves, generation, then, saving, chosen, refused, history>>

\* The trusted generation, valid or not, replaces the fallback.
Demote ==
  /\ step = "demote"
  /\ IF view.current = 0
     THEN step' = "promote" /\ UNCHANGED <<disk, then>>
     ELSE Move([view EXCEPT !.previous = view.current, !.current = 0], "promote")
  /\ UNCHANGED <<rotten, saves, generation, saving, chosen, refused, history>>

\* The candidate becomes the trusted generation.
Promote ==
  /\ step = "promote"
  /\ Move([view EXCEPT !.current = view.incoming, !.incoming = 0], "acknowledge")
  /\ UNCHANGED <<rotten, saves, generation, saving, chosen, refused, history>>

\* The caller is given its SaveOutcome or LoadOutcome.
Acknowledge ==
  /\ step = "acknowledge" /\ step' = "idle"
  /\ IF saving
     THEN promised' = chosen /\ fallback' = promised /\ UNCHANGED vacated
     ELSE UNCHANGED history
  /\ chosen' = 0
  /\ UNCHANGED <<disk, rotten, saves, generation, then, saving, refused>>
-----------------------------------------------------------------------------
(* load.                                                                    *)

BeginLoad ==
  /\ step = "idle" /\ \E s \in Slots : view[s] # 0
  /\ chosen' = Pick(view) /\ refused' = RefusedBy(view)
  /\ step' = "preserve" /\ saving' = FALSE
  /\ UNCHANGED <<disk, rotten, saves, generation, then, history>>

Aside(d, s) == [d EXCEPT ![s] = 0, !.rejected = Append(@, d[s])]

\* _set_aside: the slot is renamed to a rejected one ...
SetAside ==
  /\ step = "preserve" /\ refused # {}
  /\ LET s == Newest(refused)
     IN  /\ refused' = refused \ {s}
         /\ IF view[s] = 0
            THEN UNCHANGED <<disk, step, then>>
            ELSE Move(Aside(view, s), "prune")
  /\ UNCHANGED <<rotten, saves, generation, saving, chosen, history>>

\* ... and, with that durable, the oldest of those are unlinked one by one, which no fsync
\* makes durable (_prune_rejected).
Prune ==
  /\ step = "prune"
  /\ IF Len(view.rejected) > MaxRejected
     THEN /\ view' = [view EXCEPT !.rejected = Tail(@)]
          /\ survivors' = survivors \union {view'} /\ UNCHANGED step
     ELSE step' = "preserve" /\ UNCHANGED disk
  /\ UNCHANGED <<rotten, saves, generation, then, saving, chosen, refused, history>>

FromFallback(next) == Move([view EXCEPT !.current = view.previous, !.previous = 0], next)

\* _recover_to_current, or the refusal of a save or a load with nothing to trust.
Recover ==
  /\ step = "preserve" /\ refused = {}
  /\ \/ chosen = 0 /\ step' = "idle" /\ UNCHANGED <<disk, then>>
     \/ chosen # 0 /\ chosen = view.current /\ step' = "acknowledge" /\ UNCHANGED <<disk, then>>
     \/ chosen # 0 /\ chosen = view.incoming /\ step' = "demote" /\ UNCHANGED <<disk, then>>
     \/ chosen # 0 /\ chosen = view.previous /\ FromFallback("acknowledge")
  /\ UNCHANGED <<rotten, saves, generation, saving, chosen, refused, history>>
-----------------------------------------------------------------------------
(* The box.                                                                 *)

Abandoned ==
  /\ step' = "idle" /\ chosen' = 0 /\ refused' = {}
  /\ vacated' = (vacated \/ (view'.current = 0 /\ view'.previous # 0))

\* A step raised OSError, or the process died and another was started: the store
\* keeps nothing in memory.
Fail ==
  /\ step # "idle" /\ UNCHANGED disk /\ Abandoned
  /\ UNCHANGED <<rotten, saves, generation, then, saving, promised, fallback>>

PowerLoss ==
  /\ view' \in survivors /\ survivors' = {view'}
  /\ Abandoned
  /\ UNCHANGED <<rotten, saves, generation, then, saving, promised, fallback>>

\* The disk damages a generation: validation refuses it from now on.
Rot ==
  /\ Cardinality(rotten) < MaxRots
  /\ \E n \in 1..saves \ rotten : rotten' = rotten \union {n}
  /\ UNCHANGED <<disk, saves, generation, step, then, saving, chosen, refused, history>>
-----------------------------------------------------------------------------
StoreNext ==
  \/ BeginSave \/ Stage \/ Revalidate \/ Demote \/ Promote \/ Acknowledge
  \/ BeginLoad \/ SetAside \/ Prune \/ Recover \/ Sync
  \/ Fail \/ PowerLoss \/ Rot

StoreSpec == StoreInit /\ [][StoreNext]_storeVars
-----------------------------------------------------------------------------
\* A Campaign a save returned with is what the next boot finds, or a later one: no
\* crash, power loss, failed save or interrupted load takes it back.
NoPromiseLost == rotten = {} => \A d \in survivors : Pick(d) >= promised

\* One damaged generation costs at most the progress since the promise before.
OneRotCostsOneGeneration ==
  Cardinality(rotten) <= 1 => \A d \in survivors : Pick(d) >= fallback

\* What save acknowledges is numbered ascending across restarts, as _next_generation
\* says, for as long as no failure left the trusted slot empty: the counter is read off
\* that slot alone, and the save after such a failure is numbered 1 again.
GenerationsAscend ==
  (~vacated /\ rotten = {} /\ promised # 0 /\ fallback # 0)
    => generation[fallback] < generation[promised]
=============================================================================
