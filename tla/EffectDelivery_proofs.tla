----------------------- MODULE EffectDelivery_proofs -----------------------
(***************************************************************************)
(* The safety of the push path for every value of the constants: IInv is    *)
(* inductive, and the three invariants a reader cares about follow from it. *)
(***************************************************************************)
EXTENDS EffectDelivery, TLAPS

\* Init establishes the strengthening.
LEMMA InitIInv == Init => IInv
<1> SUFFICES ASSUME Init PROVE IInv
  OBVIOUS
<1>1. TypeOK
  <2>1. 1 \in Epochs /\ 0 \in 0..MaxEpoch /\ 0 \in 0..MaxIssued
    BY DeliveryAssumption DEF Epochs
  <2>2. log \in [Deliveries -> Effects \union {None}]
    BY DEF Init
  <2>3. reply \in Replies
    BY <2>1 DEF Init, NoReply, Replies
  <2>4. epoch \in Epochs /\ issued \in 0..MaxIssued /\ pc \in {"idle", "polling", "draining", "acking"}
    BY <2>1 DEF Init
  <2>5. known \in 0..MaxEpoch /\ from \in 0..MaxEpoch /\ highest \in 0..MaxIssued
    BY <2>1 DEF Init
  <2>6. lost \in BOOLEAN
    BY DEF Init
  <2>7. outbox = {} /\ deadRows = {} /\ drain = {} /\ dead = {} /\ acks = {} /\ applied = {} /\ refused = {}
    BY DEF Init
  <2> QED
    BY <2>2, <2>3, <2>4, <2>5, <2>6, <2>7 DEF TypeOK
<1>2. OneCampaign /\ EpochsHeard /\ OutboxIssued /\ LogSound /\ OutboxComplete
  BY DEF Init, OneCampaign, EpochsHeard, OutboxIssued, LogSound, OutboxComplete, NoReply
<1>3. ReplySound /\ TurnSound /\ DrainSound /\ AcksSound
  BY DEF Init, ReplySound, TurnSound, DrainSound, AcksSound, NoReply
<1> QED
  BY <1>1, <1>2, <1>3 DEF IInv

\* What a reader may rely on about a prefix the daemon hands over.
LEMMA DrainableIsPrefix ==
  /\ Drainable \subseteq outbox
  /\ \A s \in Drainable : \A t \in outbox : t <= s /\ TypeOK => t \in Drainable
<1> SUFFICES ASSUME NEW s \in Drainable, NEW t \in outbox, t <= s, TypeOK
             PROVE  t \in Drainable
  BY DEF Drainable
<1>1. s \in Nat /\ t \in Nat /\ (\A u \in outbox : u \in Nat)
  BY DeliveryAssumption DEF TypeOK, Sequences_, Drainable
<1>2. \A u \in outbox : u <= t => u <= s
  BY <1>1
<1> QED
  BY <1>2 DEF Drainable

\* No step undoes it.
LEMMA NextIInv == IInv /\ [Next]_vars => IInv'
<1> SUFFICES ASSUME IInv, [Next]_vars PROVE IInv'
  OBVIOUS
<1> USE DeliveryAssumption DEF IInv, daemonVars, drainVars, worldVars
<1>1. ASSUME NEW e \in Effects, Push(e) PROVE IInv'
  <2>1. TypeOK'
    BY <1>1 DEF Push, TypeOK, Sequences_, Epochs, Deliveries, TurnSound
  <2>2. OneCampaign'
    BY <1>1 DEF Push, TypeOK, OneCampaign, Behind, CarriedOut, Sequences_, Epochs,
         Deliveries, TurnSound, EpochsHeard
  <2>3. EpochsHeard'
    BY <1>1 DEF Push, TypeOK, EpochsHeard, Behind, CarriedOut, Sequences_, Epochs,
         Deliveries, TurnSound, OneCampaign
  <2>4. OutboxIssued'
    BY <1>1 DEF Push, TypeOK, OutboxIssued, Behind, CarriedOut, Sequences_, Epochs,
         Deliveries, TurnSound
  <2>5. OutboxComplete'
    BY <1>1 DEF Push, TypeOK, OutboxComplete, Behind, CarriedOut, Sequences_, Epochs,
         Deliveries, TurnSound, OneCampaign, EpochsHeard
  <2>6. ReplySound'
    BY <1>1 DEF Push, TypeOK, ReplySound, Behind, CarriedOut, Sequences_, Epochs,
         Deliveries, TurnSound, OneCampaign, EpochsHeard
  <2>7. TurnSound'
    BY <1>1 DEF Push, TypeOK, TurnSound, Behind, CarriedOut, Sequences_, Epochs,
         Deliveries, OneCampaign, EpochsHeard
  <2>8. DrainSound'
    BY <1>1 DEF Push, TypeOK, DrainSound, Behind, CarriedOut, Sequences_, Epochs,
         Deliveries, TurnSound, OneCampaign, EpochsHeard
  <2>9. AcksSound'
    BY <1>1 DEF Push, TypeOK, AcksSound, Behind, CarriedOut, Sequences_, Epochs,
         Deliveries, TurnSound, OneCampaign, EpochsHeard
  <2>10. LogSound'
    BY <1>1 DEF Push, LogSound, TypeOK, Sequences_, Epochs, Deliveries, EpochsHeard,
         OutboxIssued
  <2> QED
    BY <2>1, <2>2, <2>3, <2>4, <2>5, <2>6, <2>7, <2>8, <2>9, <2>10
<1>2. ASSUME HandlePoll PROVE IInv'
  <2>1. TypeOK'
    <3>1. Drainable \subseteq Sequences_
      BY DrainableIsPrefix DEF TypeOK
    <3>2. reply' \in Replies
      BY <1>2, <3>1 DEF HandlePoll, TypeOK, Replies, Epochs
    <3> QED
      BY <1>2, <3>2 DEF HandlePoll, TypeOK
  <2>2. OneCampaign'
    BY <1>2 DEF HandlePoll, TypeOK, OneCampaign, Behind, CarriedOut, Sequences_, Epochs,
         Deliveries, TurnSound, EpochsHeard, NoReply, Replies
  <2>3. EpochsHeard'
    BY <1>2 DEF HandlePoll, TypeOK, EpochsHeard, Behind, CarriedOut, Sequences_, Epochs,
         Deliveries, TurnSound, OneCampaign, NoReply, Replies
  <2>4. OutboxIssued'
    BY <1>2 DEF HandlePoll, TypeOK, OutboxIssued, Behind, CarriedOut, Sequences_, Epochs,
         Deliveries, TurnSound, NoReply, Replies
  <2>5. OutboxComplete'
    BY <1>2 DEF HandlePoll, TypeOK, OutboxComplete, Behind, CarriedOut, Sequences_, Epochs,
         Deliveries, TurnSound, OneCampaign, EpochsHeard, NoReply, Replies
  <2>6. ReplySound'
    <3>1. reply'.messages = Drainable /\ reply'.epoch = epoch
      BY <1>2 DEF HandlePoll
    <3>2. Drainable \subseteq 1..issued
      BY DrainableIsPrefix DEF OutboxIssued
    <3> SUFFICES ASSUME known \in {0, epoch}, NEW s \in Drainable, NEW t \in 1..(s - 1)
                 PROVE  t \in Drainable \/ Behind(epoch, t, {})
      BY <1>2, <3>1, <3>2 DEF HandlePoll, ReplySound, Behind, CarriedOut
    <3>3. s \in 1..issued /\ s \in Nat /\ issued \in Nat
      BY DrainableIsPrefix DEF OutboxIssued, TypeOK
    <3>4. t \in 1..issued /\ t <= s
      BY <3>3
    <3> QED
      BY <3>4, DrainableIsPrefix DEF OutboxComplete
  <2>7. TurnSound'
    BY <1>2 DEF HandlePoll, TypeOK, TurnSound, Behind, CarriedOut, Sequences_, Epochs,
         Deliveries, OneCampaign, EpochsHeard, NoReply, Replies
  <2>8. DrainSound'
    BY <1>2 DEF HandlePoll, TypeOK, DrainSound, Behind, CarriedOut, Sequences_, Epochs,
         Deliveries, TurnSound, OneCampaign, EpochsHeard, NoReply, Replies
  <2>9. AcksSound'
    BY <1>2 DEF HandlePoll, TypeOK, AcksSound, Behind, CarriedOut, Sequences_, Epochs,
         Deliveries, TurnSound, OneCampaign, EpochsHeard, NoReply, Replies
  <2>10. LogSound'
    BY <1>2 DEF HandlePoll, LogSound, TypeOK, Drainable
  <2> QED
    BY <2>1, <2>2, <2>3, <2>4, <2>5, <2>6, <2>7, <2>8, <2>9, <2>10
<1>3. ASSUME NEW a \in acks, HandleAck(a) PROVE IInv'
  <2>1. TypeOK'
    <3>1. a \in AckLines
      BY DEF TypeOK
    <3>2. reply' \in Replies
      BY <1>3 DEF HandleAck, TypeOK, Replies, Epochs
    <3>3. deadRows' \subseteq Sequences_ /\ outbox' \subseteq Sequences_
      BY <1>3, <3>1 DEF HandleAck, TypeOK, AckLines
    <3> QED
      BY <1>3, <3>2, <3>3 DEF HandleAck, TypeOK
  <2>2. OneCampaign'
    BY <1>3 DEF HandleAck, TypeOK, OneCampaign, Behind, CarriedOut, Sequences_, Epochs,
         Deliveries, TurnSound, EpochsHeard, CurrentAck, Replies, AckLines
  <2>3. EpochsHeard'
    BY <1>3 DEF HandleAck, TypeOK, EpochsHeard, Behind, CarriedOut, Sequences_, Epochs,
         Deliveries, TurnSound, OneCampaign, CurrentAck, Replies, AckLines
  <2>4. OutboxIssued'
    BY <1>3 DEF HandleAck, TypeOK, OutboxIssued, Behind, CarriedOut, Sequences_, Epochs,
         Deliveries, TurnSound, CurrentAck, Replies, AckLines
  <2>5. OutboxComplete'
    <3>1. a.through \in Nat /\ issued \in Nat /\ (acks # {})
      BY DEF TypeOK, AckLines, Sequences_
    <3>2. SUFFICES ASSUME known = epoch, NEW s \in 1..issued PROVE s \in outbox' \/ Behind(epoch, s, {})'
      BY <1>3, <3>1 DEF HandleAck, OutboxComplete, AcksSound, EpochsHeard
    <3>3. CASE s <= a.through
      <4>1. Behind(epoch, s, a.dead)
        BY <3>1, <3>2, <3>3 DEF AcksSound
      <4> QED
        BY <1>3, <4>1 DEF HandleAck, Behind, CarriedOut
    <3>4. CASE s > a.through
      BY <1>3, <3>2, <3>4 DEF HandleAck, OutboxComplete, Behind, CarriedOut
    <3> QED
      BY <3>1, <3>3, <3>4
  <2>6. ReplySound'
    BY <1>3 DEF HandleAck, TypeOK, ReplySound, Behind, CarriedOut, Sequences_, Epochs,
         Deliveries, TurnSound, OneCampaign, EpochsHeard, CurrentAck, Replies, AckLines
  <2>7. TurnSound'
    BY <1>3 DEF HandleAck, TypeOK, TurnSound, Behind, CarriedOut, Sequences_, Epochs,
         Deliveries, OneCampaign, EpochsHeard, CurrentAck, Replies, AckLines
  <2>8. DrainSound'
    BY <1>3 DEF HandleAck, TypeOK, DrainSound, Behind, CarriedOut, Sequences_, Epochs,
         Deliveries, TurnSound, OneCampaign, EpochsHeard, CurrentAck, Replies, AckLines
  <2>9. AcksSound'
    BY <1>3 DEF HandleAck, TypeOK, AcksSound, Behind, CarriedOut, Sequences_, Epochs,
         Deliveries, TurnSound, OneCampaign, EpochsHeard, CurrentAck, Replies, AckLines
  <2>10. LogSound'
    BY <1>3 DEF HandleAck, LogSound, TypeOK, NoReply
  <2> QED
    BY <2>1, <2>2, <2>3, <2>4, <2>5, <2>6, <2>7, <2>8, <2>9, <2>10
<1>4. ASSUME Shed PROVE IInv'
  <2>1. TypeOK'
    BY <1>4 DEF Shed, TypeOK, Sequences_, Epochs, Deliveries, TurnSound, CurrentAck,
         Replies, AckLines
  <2>2. OneCampaign'
    BY <1>4 DEF Shed, TypeOK, OneCampaign, Behind, CarriedOut, Sequences_, Epochs,
         Deliveries, TurnSound, EpochsHeard, CurrentAck, Replies, AckLines
  <2>3. EpochsHeard'
    BY <1>4 DEF Shed, TypeOK, EpochsHeard, Behind, CarriedOut, Sequences_, Epochs,
         Deliveries, TurnSound, OneCampaign, CurrentAck, Replies, AckLines
  <2>4. OutboxIssued'
    BY <1>4 DEF Shed, TypeOK, OutboxIssued, Behind, CarriedOut, Sequences_, Epochs,
         Deliveries, TurnSound, CurrentAck, Replies, AckLines
  <2>5. OutboxComplete'
    BY <1>4 DEF Shed, TypeOK, OutboxComplete, Behind, CarriedOut, Sequences_, Epochs,
         Deliveries, TurnSound, OneCampaign, EpochsHeard, CurrentAck, Replies, AckLines
  <2>6. ReplySound'
    BY <1>4 DEF Shed, TypeOK, ReplySound, Behind, CarriedOut, Sequences_, Epochs,
         Deliveries, TurnSound, OneCampaign, EpochsHeard, CurrentAck, Replies, AckLines
  <2>7. TurnSound'
    BY <1>4 DEF Shed, TypeOK, TurnSound, Behind, CarriedOut, Sequences_, Epochs,
         Deliveries, OneCampaign, EpochsHeard, CurrentAck, Replies, AckLines
  <2>8. DrainSound'
    BY <1>4 DEF Shed, TypeOK, DrainSound, Behind, CarriedOut, Sequences_, Epochs,
         Deliveries, TurnSound, OneCampaign, EpochsHeard, CurrentAck, Replies, AckLines
  <2>9. AcksSound'
    BY <1>4 DEF Shed, TypeOK, AcksSound, Behind, CarriedOut, Sequences_, Epochs,
         Deliveries, TurnSound, OneCampaign, EpochsHeard, CurrentAck, Replies, AckLines
  <2>10. LogSound'
    BY <1>4 DEF Shed, LogSound, TypeOK
  <2> QED
    BY <2>1, <2>2, <2>3, <2>4, <2>5, <2>6, <2>7, <2>8, <2>9, <2>10
<1>5. ASSUME Restart PROVE IInv'
  <2>1. TypeOK'
    <3>1. epoch' \in Epochs
      BY <1>5 DEF Restart, TypeOK, Epochs
    <3>2. pc = "acking" => CurrentAck \in AckLines
      BY DEF TypeOK, TurnSound, CurrentAck, AckLines, Sequences_
    <3>3. NoReply \in Replies
      BY DEF NoReply, Replies
    <3>4. reply' \in Replies /\ acks' \subseteq AckLines
      BY <1>5, <3>2, <3>3 DEF Restart, TypeOK
    <3> QED
      BY <1>5, <3>1, <3>4 DEF Restart, TypeOK
  <2>2. OneCampaign'
    BY <1>5 DEF Restart, TypeOK, OneCampaign, Behind, CarriedOut, Sequences_, Epochs,
         Deliveries, TurnSound, EpochsHeard, NoReply, Replies, CurrentAck, AckLines
  <2>3. EpochsHeard'
    BY <1>5 DEF Restart, TypeOK, EpochsHeard, Behind, CarriedOut, Sequences_, Epochs,
         Deliveries, TurnSound, OneCampaign, NoReply, Replies, CurrentAck, AckLines
  <2>4. OutboxIssued'
    BY <1>5 DEF Restart, TypeOK, OutboxIssued, Behind, CarriedOut, Sequences_, Epochs,
         Deliveries, TurnSound, NoReply, Replies, CurrentAck, AckLines
  <2>5. OutboxComplete'
    BY <1>5 DEF Restart, TypeOK, OutboxComplete, Behind, CarriedOut, Sequences_, Epochs,
         Deliveries, TurnSound, OneCampaign, EpochsHeard, NoReply, Replies, CurrentAck,
         AckLines
  <2>6. ReplySound'
    BY <1>5 DEF Restart, TypeOK, ReplySound, Behind, CarriedOut, Sequences_, Epochs,
         Deliveries, TurnSound, OneCampaign, EpochsHeard, NoReply, Replies, CurrentAck,
         AckLines
  <2>7. TurnSound'
    BY <1>5 DEF Restart, TypeOK, TurnSound, Behind, CarriedOut, Sequences_, Epochs,
         Deliveries, OneCampaign, EpochsHeard, NoReply, Replies, CurrentAck, AckLines
  <2>8. DrainSound'
    BY <1>5 DEF Restart, TypeOK, DrainSound, Behind, CarriedOut, Sequences_, Epochs,
         Deliveries, TurnSound, OneCampaign, EpochsHeard, NoReply, Replies, CurrentAck,
         AckLines
  <2>9. AcksSound'
    BY <1>5 DEF Restart, TypeOK, AcksSound, Behind, CarriedOut, Sequences_, Epochs,
         Deliveries, TurnSound, OneCampaign, EpochsHeard, NoReply, Replies, CurrentAck,
         AckLines
  <2>10. LogSound'
    BY <1>5 DEF Restart, LogSound, TypeOK, NoReply, EpochsHeard, Epochs
  <2> QED
    BY <2>1, <2>2, <2>3, <2>4, <2>5, <2>6, <2>7, <2>8, <2>9, <2>10
<1>6. ASSUME Poll PROVE IInv'
  <2>1. TypeOK'
    BY <1>6 DEF Poll, TypeOK, Sequences_, Epochs, Deliveries, TurnSound
  <2>2. OneCampaign'
    BY <1>6 DEF Poll, TypeOK, OneCampaign, Behind, CarriedOut, Sequences_, Epochs,
         Deliveries, TurnSound, EpochsHeard
  <2>3. EpochsHeard'
    BY <1>6 DEF Poll, TypeOK, EpochsHeard, Behind, CarriedOut, Sequences_, Epochs,
         Deliveries, TurnSound, OneCampaign
  <2>4. OutboxIssued'
    BY <1>6 DEF Poll, TypeOK, OutboxIssued, Behind, CarriedOut, Sequences_, Epochs,
         Deliveries, TurnSound
  <2>5. OutboxComplete'
    BY <1>6 DEF Poll, TypeOK, OutboxComplete, Behind, CarriedOut, Sequences_, Epochs,
         Deliveries, TurnSound, OneCampaign, EpochsHeard
  <2>6. ReplySound'
    BY <1>6 DEF Poll, TypeOK, ReplySound, Behind, CarriedOut, Sequences_, Epochs,
         Deliveries, TurnSound, OneCampaign, EpochsHeard
  <2>7. TurnSound'
    BY <1>6 DEF Poll, TypeOK, TurnSound, Behind, CarriedOut, Sequences_, Epochs,
         Deliveries, OneCampaign, EpochsHeard
  <2>8. DrainSound'
    BY <1>6 DEF Poll, TypeOK, DrainSound, Behind, CarriedOut, Sequences_, Epochs,
         Deliveries, TurnSound, OneCampaign, EpochsHeard
  <2>9. AcksSound'
    BY <1>6 DEF Poll, TypeOK, AcksSound, Behind, CarriedOut, Sequences_, Epochs,
         Deliveries, TurnSound, OneCampaign, EpochsHeard
  <2>10. LogSound'
    BY <1>6 DEF Poll, LogSound, TypeOK
  <2> QED
    BY <2>1, <2>2, <2>3, <2>4, <2>5, <2>6, <2>7, <2>8, <2>9, <2>10
<1>7. ASSUME HearPoll PROVE IInv'
  <2>1. TypeOK'
    <3>1. NoReply \in Replies /\ reply.epoch \in 0..MaxEpoch /\ reply.messages \subseteq Sequences_
      BY DEF NoReply, Replies, TypeOK
    <3>2. known' \in 0..MaxEpoch /\ lost' \in BOOLEAN
      BY <1>7, <3>1 DEF HearPoll, Hear, TypeOK
    <3>3. drain' \subseteq Sequences_ /\ from' \in 0..MaxEpoch /\ highest' \in 0..MaxIssued
          /\ dead' \subseteq Sequences_ /\ pc' \in {"idle", "polling", "draining", "acking"}
      BY <1>7, <3>1 DEF HearPoll, EndTurn, TypeOK
    <3> QED
      BY <1>7, <3>1, <3>2, <3>3 DEF HearPoll, TypeOK
  <2>2. OneCampaign'
    BY <1>7 DEF HearPoll, TypeOK, OneCampaign, Behind, CarriedOut, Sequences_, Epochs,
         Deliveries, TurnSound, EpochsHeard, Hear, EndTurn, NoReply, Replies
  <2>3. EpochsHeard'
    BY <1>7 DEF HearPoll, TypeOK, EpochsHeard, Behind, CarriedOut, Sequences_, Epochs,
         Deliveries, TurnSound, OneCampaign, Hear, EndTurn, NoReply, Replies
  <2>4. OutboxIssued'
    BY <1>7 DEF HearPoll, TypeOK, OutboxIssued, Behind, CarriedOut, Sequences_, Epochs,
         Deliveries, TurnSound, Hear, EndTurn, NoReply, Replies
  <2>5. OutboxComplete'
    BY <1>7 DEF HearPoll, TypeOK, OutboxComplete, Behind, CarriedOut, Sequences_, Epochs,
         Deliveries, TurnSound, OneCampaign, EpochsHeard, Hear, EndTurn, NoReply, Replies
  <2>6. ReplySound'
    BY <1>7 DEF HearPoll, TypeOK, ReplySound, Behind, CarriedOut, Sequences_, Epochs,
         Deliveries, TurnSound, OneCampaign, EpochsHeard, Hear, EndTurn, NoReply, Replies
  <2>7. TurnSound'
    <3>1. highest' = 0 /\ dead' = {}
      BY <1>7 DEF HearPoll, EndTurn, TurnSound
    <3>2. pc' = "draining" => known' # 0 /\ from' = known'
      BY <1>7 DEF HearPoll, EndTurn, Hear, EpochsHeard
    <3> QED
      BY <1>7, <3>1, <3>2 DEF HearPoll, EndTurn, TurnSound
  <2>8. DrainSound'
    <3>1. CASE drain' = {}
      BY <3>1 DEF DrainSound
    <3>2. CASE known' # epoch
      BY <1>7, <3>2 DEF HearPoll, DrainSound
    <3>3. CASE drain' # {} /\ known' = epoch
      <4>1. drain' = reply.messages /\ known' = reply.epoch /\ known \in {0, epoch}
        BY <1>7, <3>3 DEF HearPoll, EndTurn, Hear
      <4>2. \A s \in drain' : \A t \in 1..(s - 1) : t \in drain' \/ Behind(epoch, t, {})
        BY <3>3, <4>1 DEF ReplySound
      <4>3. drain' \subseteq 1..issued
        BY <3>3, <4>1 DEF ReplySound
      <4> QED
        BY <1>7, <3>3, <4>2, <4>3 DEF HearPoll, DrainSound, Behind, CarriedOut
    <3> QED
      BY <3>1, <3>2, <3>3
  <2>9. AcksSound'
    BY <1>7 DEF HearPoll, TypeOK, AcksSound, Behind, CarriedOut, Sequences_, Epochs,
         Deliveries, TurnSound, OneCampaign, EpochsHeard, Hear, EndTurn, NoReply, Replies
  <2>10. LogSound'
    BY <1>7 DEF HearPoll, LogSound, TypeOK, EndTurn, NoReply
  <2> QED
    BY <2>1, <2>2, <2>3, <2>4, <2>5, <2>6, <2>7, <2>8, <2>9, <2>10
<1>8. ASSUME CarryOut PROVE IInv'
  <2>0. PICK s \in drain : \E verdict \in Verdicts[log[<<from, s>>]] :
          /\ \A t \in drain : s <= t
          /\ IF Stops(verdict)
             THEN drain' = {} /\ UNCHANGED <<highest, dead, worldVars>>
             ELSE /\ drain' = drain \ {s}
                  /\ highest' = s
                  /\ dead' = IF verdict = "refused" THEN dead \union {s} ELSE dead
                  /\ applied' = IF verdict = "applied" THEN applied \union {<<from, s>>} ELSE applied
                  /\ refused' = IF verdict = "refused" THEN refused \union {<<from, s>>} ELSE refused
    BY <1>8 DEF CarryOut
  <2>1. PICK verdict \in Verdicts[log[<<from, s>>]] :
          /\ \A t \in drain : s <= t
          /\ IF Stops(verdict)
             THEN drain' = {} /\ UNCHANGED <<highest, dead, worldVars>>
             ELSE /\ drain' = drain \ {s}
                  /\ highest' = s
                  /\ dead' = IF verdict = "refused" THEN dead \union {s} ELSE dead
                  /\ applied' = IF verdict = "applied" THEN applied \union {<<from, s>>} ELSE applied
                  /\ refused' = IF verdict = "refused" THEN refused \union {<<from, s>>} ELSE refused
    BY <2>0
  <2>2. UNCHANGED <<daemonVars, pc, known, lost, from, reply, acks>> /\ pc = "draining"
    BY <1>8 DEF CarryOut
  <2>3. CASE Stops(verdict)
    BY <2>1, <2>2, <2>3 DEF TypeOK, OneCampaign, EpochsHeard, OutboxIssued, LogSound,
         OutboxComplete,
       ReplySound, TurnSound, DrainSound, AcksSound, Behind, CarriedOut
  <2>4. CASE ~Stops(verdict)
    <3>1. s \in Sequences_ /\ s \in Nat /\ from = known /\ known # 0 /\ from \in Epochs
      BY <2>2 DEF TypeOK, TurnSound, Sequences_, Epochs
    <3>2. verdict \in {"applied", "refused"}
      <4>1. Verdicts[log[<<from, s>>]] \subseteq {"applied", "refused", "deferred"}
        BY DEF LogSound
      <4> QED
        BY <2>4, <4>1 DEF Stops
    <3>3. CarriedOut(from, s)' /\ (<<from, s>> \in applied' \/ s \in dead')
      BY <2>1, <2>2, <2>4, <3>2 DEF CarriedOut
    <3>4. applied \subseteq applied' /\ refused \subseteq refused' /\ dead \subseteq dead'
      BY <2>1, <2>4
    <3>5. TypeOK'
      <4>1. <<from, s>> \in Deliveries /\ s \in 0..MaxIssued
        BY <3>1 DEF Deliveries, Sequences_
      <4>2. applied' \subseteq Deliveries /\ refused' \subseteq Deliveries
        BY <2>1, <2>4, <4>1 DEF TypeOK
      <4>3. drain' = drain \ {s} /\ highest' = s /\ dead' \subseteq dead \union {s}
        BY <2>1, <2>4
      <4>4. drain' \subseteq Sequences_ /\ highest' \in 0..MaxIssued /\ dead' \subseteq Sequences_
        BY <3>1, <4>1, <4>3 DEF TypeOK
      <4> QED
        BY <2>2, <4>2, <4>4 DEF TypeOK
    <3>6. OneCampaign'
      BY <2>1, <2>2, <2>4, <3>1 DEF OneCampaign
    <3>7. EpochsHeard' /\ OutboxIssued' /\ LogSound' /\ OutboxComplete' /\ ReplySound' /\ AcksSound'
      BY <2>1, <2>2, <2>4, <3>4 DEF EpochsHeard, OutboxIssued, LogSound, OutboxComplete,
           ReplySound, AcksSound, Behind, CarriedOut
    <3>8. known = epoch => \A t \in 1..s : Behind(epoch, t, dead)'
      <4>1. \A t \in 1..s : t = s \/ (t \in 1..(s - 1) /\ t \notin drain)
        BY <2>1, <3>1 DEF TypeOK, Sequences_
      <4> QED
        BY <2>2, <3>1, <3>3, <3>4, <4>1 DEF DrainSound, Behind, CarriedOut
    <3>9. TurnSound'
      BY <2>1, <2>2, <2>4, <3>1, <3>8 DEF TurnSound
    <3>10. DrainSound'
      BY <2>1, <2>2, <2>4, <3>1, <3>3, <3>4 DEF DrainSound, Behind, CarriedOut
    <3> QED
      BY <3>5, <3>6, <3>7, <3>9, <3>10
  <2> QED
    BY <2>3, <2>4
<1>9. ASSUME FinishDrain PROVE IInv'
  <2>1. TypeOK'
    <3>1. ToAcknowledge => CurrentAck \in AckLines
      BY DEF TypeOK, ToAcknowledge, CurrentAck, AckLines, Sequences_
    <3>2. drain' \subseteq Sequences_ /\ from' \in 0..MaxEpoch /\ highest' \in 0..MaxIssued
          /\ dead' \subseteq Sequences_ /\ pc' \in {"idle", "polling", "draining", "acking"}
      BY <1>9 DEF FinishDrain, EndTurn, TypeOK
    <3> QED
      BY <1>9, <3>1, <3>2 DEF FinishDrain, TypeOK
  <2>2. OneCampaign'
    BY <1>9 DEF FinishDrain, TypeOK, OneCampaign, Behind, CarriedOut, Sequences_, Epochs,
         Deliveries, TurnSound, EpochsHeard, ToAcknowledge, CurrentAck, AckLines, EndTurn
  <2>3. EpochsHeard'
    BY <1>9 DEF FinishDrain, TypeOK, EpochsHeard, Behind, CarriedOut, Sequences_, Epochs,
         Deliveries, TurnSound, OneCampaign, ToAcknowledge, CurrentAck, AckLines, EndTurn
  <2>4. OutboxIssued'
    BY <1>9 DEF FinishDrain, TypeOK, OutboxIssued, Behind, CarriedOut, Sequences_, Epochs,
         Deliveries, TurnSound, ToAcknowledge, CurrentAck, AckLines, EndTurn
  <2>5. OutboxComplete'
    BY <1>9 DEF FinishDrain, TypeOK, OutboxComplete, Behind, CarriedOut, Sequences_,
         Epochs, Deliveries, TurnSound, OneCampaign, EpochsHeard, ToAcknowledge,
         CurrentAck, AckLines, EndTurn
  <2>6. ReplySound'
    BY <1>9 DEF FinishDrain, TypeOK, ReplySound, Behind, CarriedOut, Sequences_, Epochs,
         Deliveries, TurnSound, OneCampaign, EpochsHeard, ToAcknowledge, CurrentAck,
         AckLines, EndTurn
  <2>7. TurnSound'
    BY <1>9 DEF FinishDrain, TypeOK, TurnSound, Behind, CarriedOut, Sequences_, Epochs,
         Deliveries, OneCampaign, EpochsHeard, ToAcknowledge, CurrentAck, AckLines, EndTurn
  <2>8. DrainSound'
    BY <1>9 DEF FinishDrain, TypeOK, DrainSound, Behind, CarriedOut, Sequences_, Epochs,
         Deliveries, TurnSound, OneCampaign, EpochsHeard, ToAcknowledge, CurrentAck,
         AckLines, EndTurn
  <2>9. AcksSound'
    BY <1>9 DEF FinishDrain, TypeOK, AcksSound, Behind, CarriedOut, Sequences_, Epochs,
         Deliveries, TurnSound, OneCampaign, EpochsHeard, ToAcknowledge, CurrentAck,
         AckLines, EndTurn
  <2>10. LogSound'
    BY <1>9 DEF FinishDrain, LogSound, TypeOK, EndTurn
  <2> QED
    BY <2>1, <2>2, <2>3, <2>4, <2>5, <2>6, <2>7, <2>8, <2>9, <2>10
<1>10. ASSUME HearAck PROVE IInv'
  <2>1. TypeOK'
    BY <1>10 DEF HearAck, TypeOK, Sequences_, Epochs, Deliveries, TurnSound, Hear, EndTurn,
         NoReply, Replies
  <2>2. OneCampaign'
    BY <1>10 DEF HearAck, TypeOK, OneCampaign, Behind, CarriedOut, Sequences_, Epochs,
         Deliveries, TurnSound, EpochsHeard, Hear, EndTurn, NoReply, Replies
  <2>3. EpochsHeard'
    BY <1>10 DEF HearAck, TypeOK, EpochsHeard, Behind, CarriedOut, Sequences_, Epochs,
         Deliveries, TurnSound, OneCampaign, Hear, EndTurn, NoReply, Replies
  <2>4. OutboxIssued'
    BY <1>10 DEF HearAck, TypeOK, OutboxIssued, Behind, CarriedOut, Sequences_, Epochs,
         Deliveries, TurnSound, Hear, EndTurn, NoReply, Replies
  <2>5. OutboxComplete'
    BY <1>10 DEF HearAck, TypeOK, OutboxComplete, Behind, CarriedOut, Sequences_, Epochs,
         Deliveries, TurnSound, OneCampaign, EpochsHeard, Hear, EndTurn, NoReply, Replies
  <2>6. ReplySound'
    BY <1>10 DEF HearAck, TypeOK, ReplySound, Behind, CarriedOut, Sequences_, Epochs,
         Deliveries, TurnSound, OneCampaign, EpochsHeard, Hear, EndTurn, NoReply, Replies
  <2>7. TurnSound'
    BY <1>10 DEF HearAck, TypeOK, TurnSound, Behind, CarriedOut, Sequences_, Epochs,
         Deliveries, OneCampaign, EpochsHeard, Hear, EndTurn, NoReply, Replies
  <2>8. DrainSound'
    BY <1>10 DEF HearAck, TypeOK, DrainSound, Behind, CarriedOut, Sequences_, Epochs,
         Deliveries, TurnSound, OneCampaign, EpochsHeard, Hear, EndTurn, NoReply, Replies
  <2>9. AcksSound'
    BY <1>10 DEF HearAck, TypeOK, AcksSound, Behind, CarriedOut, Sequences_, Epochs,
         Deliveries, TurnSound, OneCampaign, EpochsHeard, Hear, EndTurn, NoReply, Replies
  <2>10. LogSound'
    BY <1>10 DEF HearAck, LogSound, TypeOK, EndTurn, NoReply
  <2> QED
    BY <2>1, <2>2, <2>3, <2>4, <2>5, <2>6, <2>7, <2>8, <2>9, <2>10
<1>11. ASSUME TimeOut PROVE IInv'
  <2>1. TypeOK'
    BY <1>11 DEF TimeOut, TypeOK, Sequences_, Epochs, Deliveries, TurnSound, EndTurn,
         NoReply, Replies
  <2>2. OneCampaign'
    BY <1>11 DEF TimeOut, TypeOK, OneCampaign, Behind, CarriedOut, Sequences_, Epochs,
         Deliveries, TurnSound, EpochsHeard, EndTurn, NoReply, Replies
  <2>3. EpochsHeard'
    BY <1>11 DEF TimeOut, TypeOK, EpochsHeard, Behind, CarriedOut, Sequences_, Epochs,
         Deliveries, TurnSound, OneCampaign, EndTurn, NoReply, Replies
  <2>4. OutboxIssued'
    BY <1>11 DEF TimeOut, TypeOK, OutboxIssued, Behind, CarriedOut, Sequences_, Epochs,
         Deliveries, TurnSound, EndTurn, NoReply, Replies
  <2>5. OutboxComplete'
    BY <1>11 DEF TimeOut, TypeOK, OutboxComplete, Behind, CarriedOut, Sequences_, Epochs,
         Deliveries, TurnSound, OneCampaign, EpochsHeard, EndTurn, NoReply, Replies
  <2>6. ReplySound'
    BY <1>11 DEF TimeOut, TypeOK, ReplySound, Behind, CarriedOut, Sequences_, Epochs,
         Deliveries, TurnSound, OneCampaign, EpochsHeard, EndTurn, NoReply, Replies
  <2>7. TurnSound'
    BY <1>11 DEF TimeOut, TypeOK, TurnSound, Behind, CarriedOut, Sequences_, Epochs,
         Deliveries, OneCampaign, EpochsHeard, EndTurn, NoReply, Replies
  <2>8. DrainSound'
    BY <1>11 DEF TimeOut, TypeOK, DrainSound, Behind, CarriedOut, Sequences_, Epochs,
         Deliveries, TurnSound, OneCampaign, EpochsHeard, EndTurn, NoReply, Replies
  <2>9. AcksSound'
    BY <1>11 DEF TimeOut, TypeOK, AcksSound, Behind, CarriedOut, Sequences_, Epochs,
         Deliveries, TurnSound, OneCampaign, EpochsHeard, EndTurn, NoReply, Replies
  <2>10. LogSound'
    BY <1>11 DEF TimeOut, LogSound, TypeOK, EndTurn, NoReply
  <2> QED
    BY <2>1, <2>2, <2>3, <2>4, <2>5, <2>6, <2>7, <2>8, <2>9, <2>10
<1>12. ASSUME NEW a \in acks, LoseAck(a) PROVE IInv'
  <2>1. TypeOK'
    BY <1>12 DEF LoseAck, TypeOK, Sequences_, Epochs, Deliveries, TurnSound
  <2>2. OneCampaign'
    BY <1>12 DEF LoseAck, TypeOK, OneCampaign, Behind, CarriedOut, Sequences_, Epochs,
         Deliveries, TurnSound, EpochsHeard
  <2>3. EpochsHeard'
    BY <1>12 DEF LoseAck, TypeOK, EpochsHeard, Behind, CarriedOut, Sequences_, Epochs,
         Deliveries, TurnSound, OneCampaign
  <2>4. OutboxIssued'
    BY <1>12 DEF LoseAck, TypeOK, OutboxIssued, Behind, CarriedOut, Sequences_, Epochs,
         Deliveries, TurnSound
  <2>5. OutboxComplete'
    BY <1>12 DEF LoseAck, TypeOK, OutboxComplete, Behind, CarriedOut, Sequences_, Epochs,
         Deliveries, TurnSound, OneCampaign, EpochsHeard
  <2>6. ReplySound'
    BY <1>12 DEF LoseAck, TypeOK, ReplySound, Behind, CarriedOut, Sequences_, Epochs,
         Deliveries, TurnSound, OneCampaign, EpochsHeard
  <2>7. TurnSound'
    BY <1>12 DEF LoseAck, TypeOK, TurnSound, Behind, CarriedOut, Sequences_, Epochs,
         Deliveries, OneCampaign, EpochsHeard
  <2>8. DrainSound'
    BY <1>12 DEF LoseAck, TypeOK, DrainSound, Behind, CarriedOut, Sequences_, Epochs,
         Deliveries, TurnSound, OneCampaign, EpochsHeard
  <2>9. AcksSound'
    BY <1>12 DEF LoseAck, TypeOK, AcksSound, Behind, CarriedOut, Sequences_, Epochs,
         Deliveries, TurnSound, OneCampaign, EpochsHeard
  <2>10. LogSound'
    BY <1>12 DEF LoseAck, LogSound, TypeOK
  <2> QED
    BY <2>1, <2>2, <2>3, <2>4, <2>5, <2>6, <2>7, <2>8, <2>9, <2>10
<1>13. ASSUME OtherCall PROVE IInv'
  <2>1. TypeOK'
    BY <1>13 DEF OtherCall, TypeOK, Sequences_, Epochs, Deliveries, TurnSound, Hear, Replies
  <2>2. OneCampaign'
    BY <1>13 DEF OtherCall, TypeOK, OneCampaign, Behind, CarriedOut, Sequences_, Epochs,
         Deliveries, TurnSound, EpochsHeard, Hear, Replies
  <2>3. EpochsHeard'
    BY <1>13 DEF OtherCall, TypeOK, EpochsHeard, Behind, CarriedOut, Sequences_, Epochs,
         Deliveries, TurnSound, OneCampaign, Hear, Replies
  <2>4. OutboxIssued'
    BY <1>13 DEF OtherCall, TypeOK, OutboxIssued, Behind, CarriedOut, Sequences_, Epochs,
         Deliveries, TurnSound, Hear, Replies
  <2>5. OutboxComplete'
    BY <1>13 DEF OtherCall, TypeOK, OutboxComplete, Behind, CarriedOut, Sequences_, Epochs,
         Deliveries, TurnSound, OneCampaign, EpochsHeard, Hear, Replies
  <2>6. ReplySound'
    BY <1>13 DEF OtherCall, TypeOK, ReplySound, Behind, CarriedOut, Sequences_, Epochs,
         Deliveries, TurnSound, OneCampaign, EpochsHeard, Hear, Replies
  <2>7. TurnSound'
    BY <1>13 DEF OtherCall, TypeOK, TurnSound, Behind, CarriedOut, Sequences_, Epochs,
         Deliveries, OneCampaign, EpochsHeard, Hear, Replies
  <2>8. DrainSound'
    BY <1>13 DEF OtherCall, TypeOK, DrainSound, Behind, CarriedOut, Sequences_, Epochs,
         Deliveries, TurnSound, OneCampaign, EpochsHeard, Hear, Replies
  <2>9. AcksSound'
    BY <1>13 DEF OtherCall, TypeOK, AcksSound, Behind, CarriedOut, Sequences_, Epochs,
         Deliveries, TurnSound, OneCampaign, EpochsHeard, Hear, Replies
  <2>10. LogSound'
    BY <1>13 DEF OtherCall, LogSound, TypeOK
  <2> QED
    BY <2>1, <2>2, <2>3, <2>4, <2>5, <2>6, <2>7, <2>8, <2>9, <2>10
<1>14. CASE UNCHANGED vars
  BY <1>14 DEF vars, TypeOK, OneCampaign, EpochsHeard, OutboxIssued, LogSound,
       OutboxComplete, ReplySound,
     TurnSound, DrainSound, AcksSound, Behind, CarriedOut
<1> QED
  BY <1>1, <1>2, <1>3, <1>4, <1>5, <1>6, <1>7, <1>8, <1>9, <1>10, <1>11, <1>12, <1>13,
       <1>14 DEF Next

\* The push path keeps its strengthening in every reachable state.
THEOREM Strengthening == Spec => []IInv
<1>1. Init => IInv
  BY InitIInv
<1>2. IInv /\ [Next]_vars => IInv'
  BY NextIInv
<1> QED
  BY <1>1, <1>2, PTL DEF Spec

\* Every variable of the push path keeps its type.
THEOREM TypeCorrect == Spec => []TypeOK
<1>1. IInv => TypeOK
  BY DEF IInv
<1> QED
  BY <1>1, Strengthening, PTL

\* The Outbox never forgets an Effect its world has neither applied nor
\* dead-lettered, for any Effects, verdicts, byte guard and number of restarts.
THEOREM NothingLost == Spec => []NoEffectLost
<1>1. IInv => NoEffectLost
  BY DEF IInv, OutboxComplete, NoEffectLost, Behind
<1> QED
  BY <1>1, Strengthening, PTL

\* What was retired without ever being applied has its dead-letter row.
THEOREM DeadOnRecord == Spec => []NeverAppliedIsOnRecord
<1>1. IInv => NeverAppliedIsOnRecord
  BY DEF IInv, OutboxComplete, NeverAppliedIsOnRecord, Behind
<1> QED
  BY <1>1, Strengthening, PTL

\* A world only ever carries out the Effects of the daemon it first heard from.
THEOREM OneCampaignOnly == Spec => []OneCampaign
<1>1. IInv => OneCampaign
  BY DEF IInv
<1> QED
  BY <1>1, Strengthening, PTL
-----------------------------------------------------------------------------
(* The refinement.                                                          *)

\* Once the daemon that answers is not this world's, it never is again.
LEMMA FrozenForEver == IInv /\ IInv' /\ [Next]_vars /\ ~Live => ~Live'
<1> SUFFICES ASSUME IInv, IInv', [Next]_vars, ~Live PROVE ~Live'
  OBVIOUS
<1>1. lost => lost'
  BY DEF Next, vars, daemonVars, drainVars, worldVars, Push, HandlePoll, HandleAck, Shed,
       Restart, Poll,
     HearPoll, CarryOut, FinishDrain, HearAck, TimeOut, LoseAck, OtherCall, Hear
<1>2. known # 0 => known' = known
  BY DEF Next, vars, daemonVars, drainVars, worldVars, Push, HandlePoll, HandleAck, Shed,
       Restart, Poll,
     HearPoll, CarryOut, FinishDrain, HearAck, TimeOut, LoseAck, OtherCall, Hear
<1>3. epoch' = epoch \/ epoch' = epoch + 1
  BY DEF Next, vars, daemonVars, drainVars, worldVars, Push, HandlePoll, HandleAck, Shed,
       Restart, Poll,
     HearPoll, CarryOut, FinishDrain, HearAck, TimeOut, LoseAck, OtherCall
<1>4. known \in Nat /\ epoch \in Nat /\ known <= epoch
  BY DeliveryAssumption DEF IInv, TypeOK, Epochs, EpochsHeard
<1> QED
  BY <1>1, <1>2, <1>3, <1>4 DEF Live

\* A daemon just started with a fresh world is an empty stream.
LEMMA StreamInit == Init => Stream!Init
  BY DEF Init, Stream!Init, Live, CarriedSequences, CarriedOut

\* A step that leaves the queue, the record and the Campaign alone is a stutter.
LEMMA StreamStutters ==
  ASSUME Live, Live', UNCHANGED <<epoch, issued, outbox, applied, refused>>
  PROVE  UNCHANGED Stream!vars
<1>1. CarriedSequences' = CarriedSequences
  BY DEF CarriedSequences, CarriedOut
<1> QED
  BY <1>1 DEF Stream!vars

\* Every step of daemon, drain and world is one step of the stream, or none of it.
LEMMA StreamStep == IInv /\ IInv' /\ [Next]_vars => [Stream!Next]_(Stream!vars)
<1> SUFFICES ASSUME IInv, IInv', [Next]_vars PROVE [Stream!Next]_(Stream!vars)
  OBVIOUS
<1> USE DEF daemonVars, drainVars, worldVars
<1>1. CASE ~Live
  <2>1. ~Live'
    BY <1>1, FrozenForEver
  <2>2. Live = FALSE /\ Live' = FALSE
    BY <1>1, <2>1 DEF Live
  <2> QED
    BY <2>2 DEF Stream!vars
<1>2. CASE Live /\ ~Live'
  BY <1>2 DEF Stream!Next, Stream!Freeze
<1>3. CASE Live /\ Live'
  <2> USE <1>3
  <2>1. issued \in Nat /\ epoch \in Nat /\ known \in Nat /\ known <= epoch
    BY DeliveryAssumption DEF IInv, TypeOK, Epochs, EpochsHeard
  <2>2. ASSUME NEW e \in Effects, Push(e) PROVE Stream!Issue
    <3>1. CarriedSequences' = CarriedSequences
      BY <2>2 DEF Push, CarriedSequences, CarriedOut
    <3> QED
      BY <2>2, <3>1 DEF Push, Stream!Issue
  <2>3. ASSUME NEW a \in acks, HandleAck(a) PROVE [Stream!Next]_(Stream!vars)
    <3>1. a.through \in 1..MaxIssued /\ known = epoch
      BY DEF IInv, TypeOK, AckLines, Sequences_, AcksSound, Live
    <3>2. UNCHANGED <<epoch, issued, applied, refused>> /\ CarriedSequences' = CarriedSequences
      BY <2>3 DEF HandleAck, CarriedSequences, CarriedOut
    <3>3. CASE a.through > issued
      BY <2>3, <3>2, <3>3 DEF HandleAck, Stream!vars
    <3>4. CASE ~(a.through > issued)
      <4>1. a.through \in 1..issued
        BY <2>1, <3>1, <3>4, DeliveryAssumption
      <4>2. 1..a.through \subseteq CarriedSequences
        <5>1. \A s \in 1..a.through : s \in Sequences_
          BY <3>1, DeliveryAssumption DEF Sequences_
        <5> QED
          BY <3>1, <5>1 DEF IInv, AcksSound, Behind, CarriedSequences
      <4>3. outbox' = {s \in outbox : s > a.through}
        BY <2>3, <3>4 DEF HandleAck
      <4>4. Stream!Retire
        BY <3>2, <4>1, <4>2, <4>3 DEF Stream!Retire
      <4> QED
        BY <4>4 DEF Stream!Next
    <3> QED
      BY <3>3, <3>4
  <2>4. ASSUME Restart PROVE Stream!StartAgain
    <3>1. known = 0 /\ epoch' \in Nat /\ known' = known
      BY <2>1, <2>4 DEF Restart, Live
    <3>2. applied = {} /\ refused = {}
      BY <3>1 DEF IInv, TypeOK, OneCampaign, Deliveries, Epochs
    <3>3. CarriedSequences = {} /\ CarriedSequences' = {}
      BY <2>4, <3>2 DEF Restart, CarriedSequences, CarriedOut
    <3> QED
      BY <2>4, <3>3 DEF Restart, Stream!StartAgain
  <2>5. ASSUME CarryOut PROVE [Stream!Next]_(Stream!vars)
    <3>1. from = epoch /\ known = epoch /\ UNCHANGED <<epoch, issued, outbox>>
      BY <2>5 DEF CarryOut, IInv, TurnSound, Live
    <3>2. PICK s \in drain :
            /\ \A t \in drain : s <= t
            /\ \/ UNCHANGED <<applied, refused>>
               \/ applied' \union refused' = (applied \union refused) \union {<<epoch, s>>}
      BY <2>5, <3>1 DEF CarryOut
    <3>3. s \in Sequences_ /\ s \in Nat /\ s \in 1..issued
      BY <3>1, DeliveryAssumption DEF IInv, TypeOK, DrainSound, Sequences_
    <3>4. CASE UNCHANGED <<applied, refused>> \/ CarriedOut(epoch, s)
      <4>1. \A t \in Sequences_ : CarriedOut(epoch, t)' <=> CarriedOut(epoch, t)
        BY <3>1, <3>2, <3>4 DEF CarriedOut
      <4>2. CarriedSequences' = CarriedSequences
        BY <3>1, <4>1 DEF CarriedSequences, CarriedOut
      <4> QED
        BY <3>1, <4>2 DEF Stream!vars
    <3>5. CASE ~UNCHANGED <<applied, refused>> /\ ~CarriedOut(epoch, s)
      <4>1. s \in outbox \ CarriedSequences
        BY <3>3, <3>5 DEF IInv, OutboxComplete, Behind, Live, CarriedSequences
      <4>2. CarriedSequences' = CarriedSequences \union {s}
        BY <3>1, <3>2, <3>3, <3>5 DEF CarriedSequences, CarriedOut
      <4>3. 1..(s - 1) \subseteq CarriedSequences
        <5>1. \A t \in 1..(s - 1) : t \in Sequences_ /\ t \notin drain
          BY <3>2, <3>3, DeliveryAssumption DEF Sequences_, IInv, TypeOK
        <5> QED
          BY <3>1, <5>1 DEF IInv, DrainSound, Behind, CarriedSequences
      <4>4. Stream!CarryOut
        BY <3>1, <4>1, <4>2, <4>3 DEF Stream!CarryOut
      <4> QED
        BY <4>4 DEF Stream!Next
    <3> QED
      BY <3>4, <3>5
  <2>6. ASSUME UNCHANGED <<epoch, issued, outbox, applied, refused>>
        PROVE  [Stream!Next]_(Stream!vars)
    BY <2>6, StreamStutters
  <2> QED
    <3>1. CASE \/ HandlePoll \/ Shed \/ Poll \/ HearPoll \/ FinishDrain \/ HearAck \/ TimeOut \/ OtherCall
               \/ (\E a \in acks : LoseAck(a)) \/ UNCHANGED vars
      BY <2>6, <3>1 DEF HandlePoll, Shed, Poll, HearPoll, FinishDrain, HearAck, TimeOut,
           OtherCall,
         LoseAck, vars
    <3> QED
      BY <2>2, <2>3, <2>4, <2>5, <3>1 DEF Next, Stream!Next
<1> QED
  BY <1>1, <1>2, <1>3

\* Across lost replies, late acknowledgements and restarts, the poll-and-ack
\* protocol implements in-order delivery with nothing skipped and nothing retired
\* before the world has met it.
THEOREM DeliveryImplementsStream == Spec => StreamSpec
<1>1. Init => Stream!Init
  BY StreamInit
<1>2. IInv /\ IInv' /\ [Next]_vars => [Stream!Next]_(Stream!vars)
  BY StreamStep
<1> QED
  BY <1>1, <1>2, Strengthening, PTL DEF Spec, StreamSpec, Stream!Spec
=============================================================================
