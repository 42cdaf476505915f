--------------------------- MODULE EffectDelivery ---------------------------
(***************************************************************************)
(* The push path: the daemon's Outbox (outbox.py), its poll and ack         *)
(* handlers (daemon.py) and the world's effect pump with the one call every *)
(* verb goes through (fn_effectPump.sqf, fn_daemonCall.sqf).                *)
(*                                                                          *)
(* The pump polls, carries out what it was handed in order, and             *)
(* acknowledges a high-water mark.  Each call may time out at the shim at   *)
(* any moment, whether or not the daemon handled it, and an abandoned       *)
(* acknowledgement may still be handled later.  The daemon may restart with *)
(* a new epoch and an empty Outbox; a world that hears two epochs freezes.  *)
(***************************************************************************)
EXTENDS Naturals, FiniteSetsExt

CONSTANTS Effects,      \* the Effects the Campaign may issue
          None,         \* no Effect issued under this sequence yet
          Verdicts,     \* what carrying each one out may answer
          Size,         \* the bytes each one adds to a poll reply
          Guard,        \* REPORT_GUARD_BYTES, less the empty reply
          MaxIssued,    \* bound: Effects one daemon issues
          MaxEpoch      \* bound: daemons this world may meet

ASSUME DeliveryAssumption ==
  /\ None \notin Effects
  /\ MaxIssued \in Nat
  /\ MaxEpoch \in Nat \ {0}
  /\ Guard \in Nat
  /\ Size \in [Effects -> Nat]
  /\ Verdicts \in [Effects -> SUBSET {"applied", "refused", "deferred"}]

VARIABLES
  epoch,      \* which daemon answers (Daemon._epoch)
  issued,     \* Outbox._issued
  log,        \* the Effect each daemon issued under each sequence
  outbox,     \* Outbox._entries, as the set of their sequences
  deadRows,   \* effect_dead_letter rows on the Campaign's record
  pc,         \* where the pump thread is
  known,      \* cti_daemon_epoch, 0 before the first reply
  lost,       \* cti_campaign_lost
  drain,      \* messages of this drain not yet carried out
  from,       \* the epoch that handed this drain over
  highest,    \* _highest: last sequence carried out in this drain, 0 for none
  dead,       \* _dead: sequences this drain refused for good
  reply,      \* the reply on its way back to the waiting pump
  acks,       \* acknowledgements sent and not yet handled
  applied,    \* <<epoch, sequence>> the world has carried out
  refused     \* <<epoch, sequence>> the world has dead-lettered

daemonVars == <<epoch, issued, log, outbox, deadRows>>
drainVars  == <<drain, from, highest, dead>>
worldVars  == <<applied, refused>>
vars == <<daemonVars, pc, known, lost, drainVars, reply, acks, worldVars>>

Sequences_ == 1..MaxIssued
Epochs     == 1..MaxEpoch
Deliveries == Epochs \X Sequences_
AckLines   == [through : Sequences_, dead : SUBSET Sequences_]
NoReply    == [status |-> "none", epoch |-> 0, messages |-> {}]
Replies    == [status : {"none", "ok", "failed"}, epoch : 0..MaxEpoch,
               messages : SUBSET Sequences_]

TypeOK ==
  /\ epoch \in Epochs /\ issued \in 0..MaxIssued
  /\ log \in [Deliveries -> Effects \union {None}]
  /\ outbox \in SUBSET Sequences_ /\ deadRows \in SUBSET Sequences_
  /\ pc \in {"idle", "polling", "draining", "acking"}
  /\ known \in 0..MaxEpoch /\ lost \in BOOLEAN
  /\ drain \in SUBSET Sequences_ /\ from \in 0..MaxEpoch
  /\ highest \in 0..MaxIssued /\ dead \in SUBSET Sequences_
  /\ reply \in Replies
  /\ acks \in SUBSET AckLines
  /\ applied \in SUBSET Deliveries /\ refused \in SUBSET Deliveries

Init ==
  /\ epoch = 1 /\ issued = 0 /\ outbox = {} /\ deadRows = {}
  /\ log = [d \in Deliveries |-> None]
  /\ pc = "idle" /\ known = 0 /\ lost = FALSE
  /\ drain = {} /\ from = 0 /\ highest = 0 /\ dead = {}
  /\ reply = NoReply /\ acks = {}
  /\ applied = {} /\ refused = {}
-----------------------------------------------------------------------------
(* The daemon.                                                              *)

\* Outbox.push: the domain queues an Effect for delivery.
Push(e) ==
  /\ issued < MaxIssued
  /\ issued' = issued + 1
  /\ outbox' = outbox \union {issued + 1}
  /\ log' = [log EXCEPT ![<<epoch, issued + 1>>] = e]
  /\ UNCHANGED <<epoch, deadRows, pc, known, lost, drainVars, reply, acks, worldVars>>

Bytes(s) == MapThenSumSet(LAMBDA t : Size[log[<<epoch, t>>]], {t \in outbox : t <= s})

\* The prefix of the Outbox one reply carries: it stops at the first entry that
\* would take the reply to the guard, so nothing behind that entry goes either.
\* Fault: an entry that does not fit is stepped over instead of ending the drain.
DrainableSteppingOver == {s \in outbox : Size[log[<<epoch, s>>]] < Guard}

Drainable == {s \in outbox : \A t \in outbox : t <= s => Bytes(t) < Guard}

\* A poll whose oldest entry does not fit is refused rather than truncated.
HandlePoll ==
  /\ pc = "polling" /\ reply = NoReply
  /\ reply' = [status |-> IF outbox # {} /\ Drainable = {} THEN "failed" ELSE "ok",
               epoch |-> epoch, messages |-> Drainable]
  /\ UNCHANGED <<daemonVars, pc, known, lost, drainVars, acks, worldVars>>

\* Fault: the acknowledgement leaves out what the drain refused.
CurrentAckWithoutDead == [through |-> highest, dead |-> {}]

CurrentAck == [through |-> highest, dead |-> dead]

\* Outbox.ack and the rows `dead` asks for; the reply reaches nobody unless the
\* pump is still waiting for this line's answer.
HandleAck(a) ==
  /\ acks' = acks \ {a}
  /\ deadRows' = deadRows \union a.dead
  /\ outbox' = IF a.through > issued THEN outbox ELSE {s \in outbox : s > a.through}
  /\ reply' = IF pc = "acking" /\ a = CurrentAck /\ reply = NoReply
              THEN [status |-> IF a.through > issued THEN "failed" ELSE "ok",
                    epoch |-> epoch, messages |-> {}]
              ELSE reply
  /\ UNCHANGED <<epoch, issued, log, pc, known, lost, drainVars, worldVars>>

\* The daemon is busy: this line is not handled and the caller is told so.  The
\* line may be the shim's resend, whose first copy is still to be handled.
Shed ==
  /\ pc \in {"polling", "acking"} /\ reply = NoReply
  /\ reply' = [status |-> "failed", epoch |-> epoch, messages |-> {}]
  /\ acks' \in {acks, IF pc = "acking" THEN acks \ {CurrentAck} ELSE acks}
  /\ UNCHANGED <<daemonVars, pc, known, lost, drainVars, worldVars>>

\* A new process: new epoch, new Campaign, nothing queued.  What was abandoned on
\* the old process's connections dies with it; the call the pump is waiting on is
\* resent by the shim on a fresh connection unless its answer was already written.
Restart ==
  /\ epoch < MaxEpoch
  /\ epoch' = epoch + 1
  /\ issued' = 0 /\ outbox' = {} /\ deadRows' = {}
  /\ \/ /\ reply' = reply
        /\ acks' = IF pc = "acking" /\ reply = NoReply THEN {CurrentAck} ELSE {}
     \/ /\ reply # NoReply /\ reply' = NoReply
        /\ acks' = IF pc = "acking" THEN {CurrentAck} ELSE {}
  /\ UNCHANGED <<log, pc, known, lost, drainVars, worldVars>>
-----------------------------------------------------------------------------
(* The world.                                                               *)

\* Every reply is read for who sent it before it is read for what it says: the
\* first one latches the epoch and another one freezes the Campaign.
\* (Fault: the first one latches and no later one is compared with it.)
HearLatched(e) ==
  /\ known' = IF known = 0 THEN e ELSE known
  /\ UNCHANGED lost

Hear(e) ==
  /\ known' = IF known = 0 THEN e ELSE known
  /\ lost' = (lost \/ (known # 0 /\ e # known))

\* What one turn of the pump knows is gone when the turn ends.
EndTurn == pc' = "idle" /\ drain' = {} /\ from' = 0 /\ highest' = 0 /\ dead' = {}

Poll ==
  /\ pc = "idle" /\ ~lost
  /\ pc' = "polling"
  /\ UNCHANGED <<daemonVars, known, lost, drainVars, reply, acks, worldVars>>

\* Any outcome but `ok` ends the turn: only an `ok` one is drained.
HearPoll ==
  /\ pc = "polling" /\ reply # NoReply
  /\ Hear(reply.epoch)
  /\ reply' = NoReply
  /\ IF reply.status = "ok" /\ ~lost'
     THEN /\ pc' = "draining" /\ drain' = reply.messages /\ from' = reply.epoch
          /\ UNCHANGED <<highest, dead>>
     ELSE EndTurn
  /\ UNCHANGED <<daemonVars, acks, worldVars>>

\* What ends a drain short of its last message.  (Faults: nothing does; anything
\* but success does, the reading before #100.)
StopsNever(verdict) == FALSE
StopsUnlessApplied(verdict) == verdict # "applied"

Stops(verdict) == verdict = "deferred"

\* cti_fnc_effectApply on the oldest message left: `refused` is retired with a
\* dead letter, `deferred` stops the drain where it stands.
CarryOut ==
  /\ pc = "draining" /\ drain # {}
  /\ \E s \in drain : \E verdict \in Verdicts[log[<<from, s>>]] :
       /\ \A t \in drain : s <= t
       /\ IF Stops(verdict)
          THEN /\ drain' = {}
               /\ UNCHANGED <<highest, dead, worldVars>>
          ELSE /\ drain' = drain \ {s}
               /\ highest' = s
               /\ dead' = IF verdict = "refused" THEN dead \union {s} ELSE dead
               /\ applied' = IF verdict = "applied" THEN applied \union {<<from, s>>} ELSE applied
               /\ refused' = IF verdict = "refused" THEN refused \union {<<from, s>>} ELSE refused
  /\ UNCHANGED <<daemonVars, pc, known, lost, from, reply, acks>>

\* `_highest >= 0`: something of this drain was carried out.
ToAcknowledge == highest > 0

\* The drain is over: acknowledge what it carried out, if anything, unless the
\* Campaign has been lost meanwhile (the call is then refused on this side).
FinishDrain ==
  /\ pc = "draining" /\ drain = {}
  /\ IF ToAcknowledge /\ ~lost
     THEN pc' = "acking" /\ acks' = acks \union {CurrentAck} /\ UNCHANGED drainVars
     ELSE EndTurn /\ UNCHANGED acks
  /\ UNCHANGED <<daemonVars, known, lost, reply, worldVars>>

HearAck ==
  /\ pc = "acking" /\ reply # NoReply
  /\ Hear(reply.epoch)
  /\ reply' = NoReply
  /\ EndTurn
  /\ UNCHANGED <<daemonVars, acks, worldVars>>

\* The shim gives up (500 ms over both attempts): the world cannot tell whether
\* the daemon handled the line, and an abandoned ack is still in flight.
TimeOut ==
  /\ pc \in {"polling", "acking"}
  /\ EndTurn /\ reply' = NoReply
  /\ UNCHANGED <<daemonVars, known, lost, acks, worldVars>>

\* A line that never reaches a daemon.
LoseAck(a) ==
  /\ acks' = acks \ {a}
  /\ UNCHANGED <<daemonVars, pc, known, lost, drainVars, reply, worldVars>>

\* Another caller of cti_fnc_daemonCall (a report, a Command) hears the daemon.
OtherCall ==
  /\ ~lost
  /\ Hear(epoch)
  /\ UNCHANGED <<daemonVars, pc, drainVars, reply, acks, worldVars>>
-----------------------------------------------------------------------------
Next ==
  \/ \E e \in Effects : Push(e)
  \/ HandlePoll \/ Shed \/ Restart
  \/ \E a \in acks : HandleAck(a) \/ LoseAck(a)
  \/ Poll \/ HearPoll \/ CarryOut \/ FinishDrain \/ HearAck \/ TimeOut \/ OtherCall

Spec == Init /\ [][Next]_vars

\* What the deployment gives the pump: its own thread keeps turning, and the wire
\* does not fail it on every call for ever.  A world that defers an Effect does
\* not defer it for ever either.
Fairness ==
  /\ WF_vars(Poll) /\ WF_vars(FinishDrain)
  /\ SF_vars(CarryOut /\ highest' # highest) /\ WF_vars(CarryOut)
  /\ SF_vars(HandlePoll) /\ SF_vars(HearPoll /\ reply.status = "ok")
  /\ SF_vars(pc = "acking" /\ HandleAck(CurrentAck))
  /\ WF_vars(TimeOut)

FairSpec == Spec /\ Fairness
-----------------------------------------------------------------------------
CarriedOut(e, s) == <<e, s>> \in applied \union refused

\* The Outbox never forgets what the world has not met: an Effect this world's own
\* daemon has retired was applied or dead-lettered (Outbox.ack, the pump's mark).
NoEffectLost ==
  known = epoch => \A s \in 1..issued : s \in outbox \/ CarriedOut(epoch, s)

\* A retired Effect the world never applied has its dead-letter row on the
\* Campaign's record, whichever of several acknowledgements retired it.
NeverAppliedIsOnRecord ==
  known = epoch =>
    \A s \in 1..issued : s \in outbox \/ <<epoch, s>> \in applied \/ s \in deadRows

\* A world carries out the Effects of one Campaign only: nothing a restarted
\* daemon says reaches the map (the epoch latch of fn_daemonCall.sqf).
OneCampaign == \A d \in applied \union refused : d[1] = known

\* An inductive strengthening of the three, in parts.  Sequence s of daemon e is
\* behind the world: carried out, and applied unless D or the record says dead.
Behind(e, s, D) ==
  /\ CarriedOut(e, s)
  /\ <<e, s>> \in applied \/ s \in D \/ (e = epoch /\ s \in deadRows)

EpochsHeard    == /\ known <= epoch /\ reply.epoch <= epoch
                  /\ reply.status # "none" => reply.epoch # 0
OutboxIssued   == outbox \subseteq 1..issued
LogSound       == /\ \A s \in outbox : log[<<epoch, s>>] \in Effects
                  /\ \A s \in reply.messages : log[<<reply.epoch, s>>] \in Effects
                  /\ \A s \in drain : log[<<from, s>>] \in Effects
OutboxComplete == known \in {0, epoch} =>
                    \A s \in 1..issued : s \in outbox \/ Behind(epoch, s, {})
ReplySound     == (reply.epoch = epoch /\ known \in {0, epoch}) =>
                    /\ reply.messages \subseteq 1..issued
                    /\ \A s \in reply.messages : \A t \in 1..(s - 1) :
                         t \in reply.messages \/ Behind(epoch, t, {})
TurnSound      == /\ pc \in {"idle", "polling"} => drain = {} /\ highest = 0 /\ dead = {}
                  /\ pc \in {"draining", "acking"} => known # 0 /\ from = known
                  /\ pc = "acking" => highest # 0
                  /\ known = epoch => \A s \in 1..highest : Behind(epoch, s, dead)
DrainSound     == known = epoch =>
                    /\ drain \subseteq 1..issued
                    /\ \A s \in drain : \A t \in 1..(s - 1) : t \in drain \/ Behind(epoch, t, dead)
AcksSound      == /\ acks # {} => known # 0
                  /\ known = epoch =>
                       \A a \in acks : \A s \in 1..a.through : Behind(epoch, s, a.dead)

IInv == /\ TypeOK /\ OneCampaign /\ EpochsHeard /\ OutboxIssued /\ LogSound
        /\ OutboxComplete /\ ReplySound /\ TurnSound /\ DrainSound /\ AcksSound

\* The world and the daemon that answers are still one Campaign.
Live == ~lost /\ known \in {0, epoch}

\* Every Effect queued is retired in the end, or the Campaign is lost: a refusal, a
\* deferral or a lost acknowledgement never wedges what is queued behind it (#100).
\* Only an Effect no reply has room for does.
OutboxDrains ==
  \A s \in Sequences_ :
    (Live /\ s \in outbox /\ \A t \in outbox : t <= s => Size[log[<<epoch, t>>]] < Guard)
      ~> (~Live \/ s \notin outbox)

\* The delivery the abstract stream promises, for the daemon the world is with.
CarriedSequences == {s \in Sequences_ : CarriedOut(epoch, s)}

Stream == INSTANCE EffectStream WITH
  issued  <- IF Live THEN issued ELSE 0,
  queued  <- IF Live THEN outbox ELSE {},
  carried <- IF Live THEN CarriedSequences ELSE {},
  live    <- Live

\* The detailed protocol implements it: carried out in issue order, none skipped,
\* retired only after that, across lost replies, late acks and restarts.
StreamSpec == Stream!Spec
=============================================================================
