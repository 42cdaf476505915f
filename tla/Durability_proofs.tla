-------------------------- MODULE Durability_proofs --------------------------
(***************************************************************************)
(* What is proved of the two parts that make a Campaign durable: of the      *)
(* Checkpoint coordinator, for every number of callers, interval, write time *)
(* and number of changes and failures, and of the SnapshotStore, for any     *)
(* number of saves, of damaged generations and of slots for rejected ones.   *)
(***************************************************************************)
EXTENDS Checkpoint, SnapshotStore, SequenceTheorems, FiniteSetTheorems, TLAPS
-----------------------------------------------------------------------------
(* Checkpoint.                                                              *)

\* The flags of TypeOK.
Flags == dirty \in BOOLEAN /\ force \in BOOLEAN /\ stopped \in BOOLEAN /\ final \in BOOLEAN

\* Where the worker is decides what its copy holds: the generation it captured is
\* never past its copy, and once the save returned the copy is on disk.
CopySound ==
  /\ worker \in {"saving", "saved"} => target <= copied
  /\ worker = "saved" => copied <= Durable

\* What the coordinator calls completed is on disk.
CompletedSound == completed <= Durable

CallsSound == \A c \in Callers : call[c].at = "done" => call[c].for <= completed

\* Clean, completed and returned say no more than the disk holds.
IInv == TypeOK /\ CopySound /\ CompletedSound /\ CallsSound /\ CleanMeansDurable

-----------------------------------------------------------------------------
(* How old an unsaved change gets.                                          *)

\* What the saves that raised cost so far.
Base == failures * (Interval + WriteTime)

\* Between two writes the deadline answers for the oldest change.  During a write its
\* age is counted from the start; the changes made since are no older than the write, and
\* the deadline answers for them too, unless it has passed already.
AgeSound ==
  /\ worker = "waiting" => \A i \in DOMAIN ages : ages[i] + left <= Longer + Base
  /\ Writing =>
       /\ \A i \in DOMAIN ages : ages[i] <= Longer + Base + elapsed
       /\ \A i \in DOMAIN ages :
            Durable + i > target => ages[i] <= elapsed /\ (left = 0 \/ ages[i] + left <= Interval)
  /\ LossIsBounded

-----------------------------------------------------------------------------
\* The sequence of unsaved changes is shorter by what the copy adds to the disk.
LEMMA OnDiskDrops ==
  ASSUME TypeOK, OnDisk
  PROVE  /\ ages' \in Seq(Nat) /\ Len(ages') <= Len(ages)
         /\ made - Len(ages') = IF copied > Durable THEN copied ELSE Durable
<1>1. CASE copied > Durable
  <2>1. copied - Durable + 1 \in 1..Len(ages)+1 /\ Len(ages) \in Nat
    BY <1>1 DEF TypeOK, Durable
  <2>2. /\ ages' \in Seq(Nat)
        /\ Len(ages') = Len(ages) - (copied - Durable)
    <3> DEFINE first == copied - Durable + 1
    <3>1. ages' = SubSeq(ages, first, Len(ages))
      BY <1>1 DEF OnDisk
    <3>2. ages \in Seq(Nat) /\ first \in 1..Len(ages)+1 /\ Len(ages) \in Nat
      BY <2>1 DEF TypeOK
    <3> HIDE DEF first
    <3>3. /\ SubSeq(ages, first, Len(ages)) \in Seq(Nat)
          /\ Len(SubSeq(ages, first, Len(ages))) = Len(ages) - first + 1
      BY <3>2, SubSeqProperties
    <3> QED BY <3>1, <3>2, <3>3, <2>1 DEF first, TypeOK, Durable
  <2> QED BY <1>1, <2>1, <2>2 DEF TypeOK, Durable
<1>2. CASE ~(copied > Durable)
  BY <1>2 DEF OnDisk, TypeOK, Durable
<1> QED BY <1>1, <1>2

\* The invariant holds of a coordinator just made.
LEMMA InitIInv == Init => IInv
<1> SUFFICES ASSUME Init PROVE IInv
  OBVIOUS
<1>1. ages \in Seq(Nat) /\ Len(ages) = 0
  BY DEF Init
<1>2. call \in [Callers -> Call] /\ \A c \in Callers : call[c].at = "new"
  BY CheckpointAssumption DEF Init, Call
<1>3. TypeOK
  <2>1. Flags
    BY DEF Init, Flags
  <2> QED BY <1>1, <1>2, <2>1, CheckpointAssumption DEF Init, TypeOK, Flags
<1>4. CopySound /\ CompletedSound /\ CleanMeansDurable
  <2>1. Durable = 0 /\ made = 0
    <3>1. made = 0
      BY DEF Init
    <3> QED BY <3>1, <1>1 DEF Durable
  <2>2. worker = "waiting" /\ completed = 0
    BY DEF Init
  <2> QED BY <2>1, <2>2 DEF CopySound, CompletedSound, CleanMeansDurable
<1>5. CallsSound
  BY <1>2 DEF CallsSound
<1> QED BY <1>3, <1>4, <1>5 DEF IInv

\* Every step of a request thread, of the worker and of time keeps it.
LEMMA NextIInv == IInv /\ [Next]_vars => IInv'
<1> SUFFICES ASSUME IInv, [Next]_vars PROVE IInv'
  OBVIOUS
<1> USE CheckpointAssumption
<1>1. CASE Change
  <2>1. /\ ages' \in Seq(Nat) /\ Len(ages') = Len(ages) + 1
    BY <1>1 DEF Change, IInv, TypeOK
  <2> QED BY <1>1, <2>1 DEF Change, Mark, IInv, TypeOK, CopySound, CompletedSound,
    CallsSound,
             CleanMeansDurable, Durable, write
<1>2. CASE Shutdown
  BY <1>2 DEF Shutdown, IInv, TypeOK, CopySound, CompletedSound, CallsSound,
     CleanMeansDurable, Durable, write
<1>3. CASE Tick
  <2>1. /\ ages' \in Seq(Nat) /\ Len(ages') = Len(ages)
    BY <1>3 DEF Tick, IInv, TypeOK
  <2> QED BY <1>3, <2>1 DEF Tick, Writing, IInv, TypeOK, CopySound, CompletedSound,
    CallsSound,
             CleanMeansDurable, Durable
<1>4. ASSUME NEW c \in Callers, CheckpointNow(c) PROVE IInv'
  <2>1. /\ call' \in [Callers -> Call]
        /\ \A q \in Callers : call'[q].at = "done" => call'[q] = call[q]
    <3>1. CASE stopped
      <4>1. call' = [call EXCEPT ![c] = [at |-> "refused", for |-> call[c].for]]
        BY <1>4, <3>1 DEF CheckpointNow, IInv, TypeOK, Call
      <4> QED BY <4>1 DEF IInv, TypeOK, Call
    <3>2. CASE ~stopped
      BY <1>4, <3>2 DEF CheckpointNow, IInv, TypeOK, Call
    <3> QED BY <3>1, <3>2
  <2>2. force' \in BOOLEAN
    BY <1>4 DEF CheckpointNow, IInv, TypeOK
  <2> QED BY <1>4, <2>1, <2>2 DEF CheckpointNow, IInv, TypeOK, CopySound, CompletedSound,
             CallsSound, CleanMeansDurable, Durable, write
<1>5. ASSUME NEW c \in Callers, CallerReturns(c) PROVE IInv'
  BY <1>5 DEF CallerReturns, WaitIsOver, IInv, TypeOK, Call, CopySound, CompletedSound,
       CallsSound,
     CleanMeansDurable, Durable, write, condition
<1>6. CASE Begin
  <2>1. TypeOK'
    <3>1. Flags'
      BY <1>6 DEF Begin, Due, StartWrite, IInv, TypeOK, Flags
    <3> QED BY <1>6, <3>1 DEF Begin, Due, StartWrite, IInv, TypeOK, Flags
  <2>2. CopySound' /\ CompletedSound' /\ CallsSound'
    BY <1>6 DEF Begin, Due, StartWrite, IInv, TypeOK, CopySound, CompletedSound,
         CallsSound, CleanMeansDurable, Durable
  <2>3. CleanMeansDurable'
    BY <1>6 DEF Begin, Due, StartWrite, IInv, TypeOK, CopySound, CleanMeansDurable, Durable
  <2> QED BY <2>1, <2>2, <2>3 DEF IInv
<1>7. CASE Stop
  <2>1. TypeOK'
    <3>1. Flags'
      BY <1>7 DEF Stop, StartWrite, condition, IInv, TypeOK, Flags
    <3> QED BY <1>7, <3>1 DEF Stop, StartWrite, condition, IInv, TypeOK, Flags
  <2>2. CopySound' /\ CompletedSound' /\ CallsSound'
    BY <1>7 DEF Stop, StartWrite, condition, IInv, TypeOK, CopySound, CompletedSound,
         CallsSound, CleanMeansDurable, Durable
  <2>3. CleanMeansDurable'
    BY <1>7 DEF Stop, StartWrite, condition, IInv, TypeOK, CopySound, CleanMeansDurable,
         Durable
  <2> QED BY <2>1, <2>2, <2>3 DEF IInv
<1>8. CASE Copy
  BY <1>8 DEF Copy, IInv, TypeOK, CopySound, CompletedSound, CallsSound,
     CleanMeansDurable, Durable, condition
<1>9. CASE Save
  <2>1. /\ ages' \in Seq(Nat) /\ Len(ages') <= Len(ages)
        /\ made - Len(ages') = IF copied > Durable THEN copied ELSE Durable
    BY <1>9, OnDiskDrops DEF Save, IInv
  <2> QED BY <1>9, <2>1 DEF Save, IInv, TypeOK, CopySound, CompletedSound, CallsSound,
             CleanMeansDurable, Durable, condition
<1>10. CASE Finish
  <2>1. TypeOK'
    <3>1. Flags'
      BY <1>10 DEF Finish, BackToWait, Clean, Complete, IInv, TypeOK, Flags
    <3> QED BY <1>10, <3>1 DEF Finish, BackToWait, Clean, Complete, IInv, TypeOK, Flags
  <2>2. CopySound' /\ CompletedSound' /\ CallsSound'
    <3>1. worker' \in {"exited", "waiting"}
      BY <1>10 DEF Finish, BackToWait
    <3>2. Durable' = Durable /\ call' = call
      BY <1>10 DEF Finish, Durable
    <3>3. target \in Nat /\ completed \in Nat /\ Durable \in Int /\ target <= Durable /\ completed <= Durable
      BY <1>10 DEF Finish, IInv, TypeOK, CopySound, CompletedSound, Durable
    <3>4. completed' <= Durable /\ completed' >= completed /\ completed' \in Nat
      BY <1>10, <3>3 DEF Finish, Complete
    <3> QED BY <3>1, <3>2, <3>3, <3>4 DEF IInv, TypeOK, Call, CopySound, CompletedSound,
      CallsSound
  <2>3. CleanMeansDurable'
    BY <1>10 DEF Finish, BackToWait, Clean, Complete, IInv, TypeOK, CopySound,
         CleanMeansDurable, Durable
  <2> QED BY <2>1, <2>2, <2>3 DEF IInv
<1>11. CASE FailWrite
  <2>1. /\ ages' \in Seq(Nat) /\ Len(ages') <= Len(ages)
        /\ made - Len(ages') >= Durable
    BY <1>11, OnDiskDrops DEF FailWrite, IInv, TypeOK, Durable
  <2> QED BY <1>11, <2>1 DEF FailWrite, BackToWait, Retry, IInv, TypeOK, CopySound,
    CompletedSound,
             CallsSound, CleanMeansDurable, Durable
<1>12. CASE UNCHANGED vars
  BY <1>12 DEF vars, condition, write, IInv, TypeOK, CopySound, CompletedSound, CallsSound,
     CleanMeansDurable, Durable
<1> QED BY <1>1, <1>2, <1>3, <1>4, <1>5, <1>6, <1>7, <1>8, <1>9, <1>10, <1>11, <1>12
  DEF Next

-----------------------------------------------------------------------------
\* Numbers: a failure costs an interval and a write.
LEMMA BaseFacts ==
  ASSUME TypeOK
  PROVE  /\ Base \in Nat /\ Longer \in Nat /\ Longer >= Interval /\ Longer >= WriteTime
         /\ failures' = failures => Base' = Base
         /\ failures' = failures + 1 => Base' = Base + Interval + WriteTime
<1>1. failures \in Nat /\ Interval \in Nat /\ WriteTime \in Nat
  BY CheckpointAssumption DEF TypeOK
<1>2. \A f, c \in Nat : f * c \in Nat /\ (f + 1) * c = f * c + c
  OBVIOUS
<1>3. Interval + WriteTime \in Nat
  BY <1>1
<1> QED BY <1>1, <1>2, <1>3 DEF Base, Longer

\* What is left unsaved was unsaved before, in the same place of the order.
LEMMA OnDiskKeeps ==
  ASSUME TypeOK, OnDisk, made' = made
  PROVE  \A i \in DOMAIN ages' :
           \E j \in DOMAIN ages : ages'[i] = ages[j] /\ Durable' + i = Durable + j
<1>1. CASE copied > Durable
  <2> DEFINE first == copied - Durable + 1
  <2>1. /\ ages' = SubSeq(ages, first, Len(ages)) /\ Durable \in Int /\ made \in Nat
        /\ ages \in Seq(Nat) /\ first \in 1..Len(ages)+1 /\ Len(ages) \in Nat
    BY <1>1 DEF OnDisk, TypeOK, Durable
  <2> HIDE DEF first
  <2>2. /\ Len(ages') = Len(ages) - first + 1 /\ DOMAIN ages' = 1..Len(ages')
        /\ \A i \in 1..(Len(ages) - first + 1) : ages'[i] = ages[first + i - 1]
    BY <2>1, SubSeqProperties
  <2>3. Durable' = Durable + first - 1
    BY <2>1, <2>2 DEF Durable
  <2>4. ASSUME NEW i \in DOMAIN ages'
        PROVE  first + i - 1 \in DOMAIN ages /\ ages'[i] = ages[first + i - 1]
               /\ Durable' + i = Durable + (first + i - 1)
    <3>1. i \in 1..(Len(ages) - first + 1) /\ i \in Int /\ first \in Int
      BY <2>1, <2>2, <2>4
    <3>2. first + i - 1 \in 1..Len(ages) /\ DOMAIN ages = 1..Len(ages)
      BY <2>1, <3>1
    <3>3. Durable' + i = Durable + (first + i - 1)
      BY <2>1, <2>3, <3>1
    <3>4. ages'[i] = ages[first + i - 1]
      BY <2>2, <3>1
    <3> QED BY <3>2, <3>3, <3>4
  <2> QED BY <2>4
<1>2. CASE ~(copied > Durable)
  BY <1>2 DEF OnDisk, Durable
<1> QED BY <1>1, <1>2

\* A write that starts finds every change within the deadline and none made since.
LEMMA StartAge ==
  ASSUME IInv, AgeSound, worker = "waiting", StartWrite, ages' = ages, made' = made,
         left' = left, failures' = failures
  PROVE  AgeSound'
<1>1. /\ \A i \in DOMAIN ages : ages[i] \in Nat /\ i \in 1..Len(ages)
      /\ Len(ages) \in Nat /\ made \in Nat /\ left \in Nat
  BY DEF IInv, TypeOK
<1>2. Base \in Nat /\ Longer \in Nat /\ Base' = Base
  BY BaseFacts DEF IInv
<1>3. Durable' = Durable /\ \A i \in DOMAIN ages : Durable + i <= made
  BY <1>1 DEF Durable
<1>4. LossIsBounded'
  BY DEF AgeSound, LossIsBounded, Longer
<1>5. worker' = "copying" /\ target' = made /\ elapsed' = 0
  BY DEF StartWrite
<1>6. \A i \in DOMAIN ages : ages[i] + left <= Longer + Base
  BY DEF AgeSound
<1>7. Longer' = Longer
  BY DEF Longer
<1>8. \A i \in DOMAIN ages' : ages'[i] <= Longer' + Base' + elapsed'
  BY <1>1, <1>2, <1>5, <1>6, <1>7
<1>9. \A i \in DOMAIN ages' : ~(Durable' + i > target')
  BY <1>1, <1>3, <1>5 DEF Durable
<1> QED BY <1>4, <1>5, <1>8, <1>9 DEF AgeSound

\* What is young enough while it is written is young enough when the write is over, with
\* the interval of a retry on top when it failed.
LEMMA OverAge ==
  ASSUME IInv, AgeSound, Writing, BackToWait,
         left' \in 0..Interval,
         \A i \in DOMAIN ages' : ages'[i] \in Nat,
         \/ /\ failures' = failures /\ left' \in {0, left}
            /\ \A i \in DOMAIN ages' : \E j \in DOMAIN ages :
                 ages'[i] = ages[j] /\ Durable + j > target
         \/ /\ failures' = failures + 1
            /\ \A i \in DOMAIN ages' : \E j \in DOMAIN ages : ages'[i] = ages[j]
  PROVE  AgeSound'
<1>1. /\ \A j \in DOMAIN ages : ages[j] \in Nat
      /\ left \in Nat /\ elapsed \in Nat /\ elapsed <= WriteTime
      /\ Interval \in Nat /\ WriteTime \in Nat
  BY CheckpointAssumption DEF IInv, TypeOK
<1>2. /\ Base \in Nat /\ Longer \in Nat /\ Longer >= Interval /\ Longer >= WriteTime
      /\ failures' = failures => Base' = Base
      /\ failures' = failures + 1 => Base' = Base + Interval + WriteTime
  BY BaseFacts DEF IInv
<1>3. ASSUME NEW i \in DOMAIN ages'
      PROVE  ages'[i] + left' <= Longer + Base' /\ ages'[i] <= Longer + WriteTime + Base'
  <2>1. CASE failures' = failures + 1
    <3>1. PICK j \in DOMAIN ages : ages'[i] = ages[j]
      BY <2>1
    <3>2. ages[j] <= Longer + Base + elapsed
      BY DEF AgeSound
    <3> QED BY <1>1, <1>2, <2>1, <3>1, <3>2
  <2>2. CASE failures' = failures /\ failures' # failures + 1
    <3>1. PICK j \in DOMAIN ages : ages'[i] = ages[j] /\ Durable + j > target
      BY <2>2
    <3>2. left' \in {0, left}
      BY <2>2
    <3>3. ages[j] <= elapsed /\ (left = 0 \/ ages[j] + left <= Interval)
      BY <3>1 DEF AgeSound
    <3> QED BY <1>1, <1>2, <2>2, <3>1, <3>2, <3>3
  <2>3. failures \in Nat
    BY DEF IInv, TypeOK
  <2> QED BY <2>1, <2>2, <2>3
<1>4. LossIsBounded'
  BY <1>3 DEF LossIsBounded, Longer, Base
<1> QED BY <1>3, <1>4 DEF AgeSound, BackToWait, Writing

\* Every step keeps the ages in bounds.
LEMMA NextAge == IInv /\ IInv' /\ AgeSound /\ [Next]_vars => AgeSound'
<1> SUFFICES ASSUME IInv, IInv', AgeSound, [Next]_vars PROVE AgeSound'
  OBVIOUS
<1> USE CheckpointAssumption
<1>a. /\ ages \in Seq(Nat) /\ Len(ages) \in Nat /\ DOMAIN ages = 1..Len(ages)
      /\ \A i \in DOMAIN ages : ages[i] \in Nat
      /\ made \in Nat /\ left \in 0..Interval /\ elapsed \in 0..WriteTime /\ target \in 0..made
      /\ failures \in Nat /\ Interval \in Nat /\ WriteTime \in Nat
  BY DEF IInv, TypeOK
<1>b. /\ Base \in Nat /\ Longer \in Nat /\ Longer >= Interval /\ Longer >= WriteTime
      /\ failures' = failures => Base' = Base
  BY BaseFacts DEF IInv
<1>c. ~dirty => DOMAIN ages = {}
  BY <1>a DEF IInv, CleanMeansDurable, Durable
<1>d. LossIsBounded <=> \A i \in DOMAIN ages : ages[i] <= Longer + WriteTime + Base
  BY DEF LossIsBounded, Base
<1>e. LossIsBounded' <=> \A i \in DOMAIN ages' : ages'[i] <= Longer + WriteTime + Base'
  BY DEF LossIsBounded, Base, Longer
<1>1. CASE Change
  <2>1. /\ Len(ages') = Len(ages) + 1 /\ DOMAIN ages' = 1..(Len(ages) + 1)
        /\ \A i \in DOMAIN ages : ages'[i] = ages[i]
        /\ ages'[Len(ages) + 1] = 0
    BY <1>1, <1>a DEF Change
  <2>2. Durable' = Durable /\ Base' = Base /\ UNCHANGED <<worker, target, elapsed>>
    BY <1>1, <1>a, <1>b, <2>1 DEF Change, write, Durable
  <2>3. left' \in 0..Interval /\ (left' = left \/ DOMAIN ages = {})
    BY <1>1, <1>a, <1>c DEF Change, Mark
  <2>4. ASSUME NEW i \in DOMAIN ages' PROVE ages'[i] = 0 \/ (i \in DOMAIN ages /\ ages'[i] = ages[i])
    BY <1>a, <2>1
  <2>5. worker' = "waiting" => \A i \in DOMAIN ages' : ages'[i] + left' <= Longer + Base'
    BY <1>a, <1>b, <2>2, <2>3, <2>4 DEF AgeSound
  <2>6. Writing' => \A i \in DOMAIN ages' :
          /\ ages'[i] <= Longer + Base' + elapsed'
          /\ Durable' + i > target' =>
               ages'[i] <= elapsed' /\ (left' = 0 \/ ages'[i] + left' <= Interval)
    BY <1>a, <1>b, <2>2, <2>3, <2>4 DEF AgeSound, Writing
  <2>7. LossIsBounded'
    BY <1>a, <1>b, <1>d, <1>e, <2>2, <2>4 DEF AgeSound
  <2> QED BY <2>5, <2>6, <2>7 DEF AgeSound
<1>2. CASE Shutdown
  BY <1>2, <1>b, <1>d, <1>e DEF Shutdown, write, AgeSound, Writing, Durable
<1>3. CASE Tick
  <2>1. /\ DOMAIN ages' = DOMAIN ages /\ Len(ages') = Len(ages)
        /\ \A i \in DOMAIN ages : ages'[i] = ages[i] + 1
    BY <1>3, <1>a DEF Tick
  <2>2. Durable' = Durable /\ Base' = Base /\ UNCHANGED <<worker, target, dirty>>
    BY <1>3, <1>b, <2>1 DEF Tick, Durable
  <2>3. CASE worker = "waiting"
    <3>1. \A i \in DOMAIN ages : left > 0 /\ left' = left - 1
      BY <1>3, <1>a, <1>c, <2>3 DEF Tick, Due
    <3>2. \A i \in DOMAIN ages' : ages'[i] + left' <= Longer + Base'
      BY <1>a, <1>b, <2>1, <2>2, <2>3, <3>1 DEF AgeSound
    <3>3. left' \in Nat
      BY <1>3, <1>a DEF Tick
    <3>4. LossIsBounded'
      BY <1>a, <1>b, <1>e, <2>1, <2>2, <3>2, <3>3
    <3> QED BY <2>2, <2>3, <3>2, <3>4 DEF AgeSound, Writing
  <2>4. CASE Writing
    <3>1. elapsed' = elapsed + 1 /\ elapsed' <= WriteTime /\ left' = IF left > 0 THEN left - 1 ELSE 0
      BY <1>3, <1>a, <2>4 DEF Tick
    <3>2. \A i \in DOMAIN ages' :
            /\ ages'[i] <= Longer + Base' + elapsed'
            /\ Durable' + i > target' =>
                 ages'[i] <= elapsed' /\ (left' = 0 \/ ages'[i] + left' <= Interval)
      BY <1>a, <1>b, <2>1, <2>2, <2>4, <3>1 DEF AgeSound
    <3>3. LossIsBounded'
      BY <1>a, <1>b, <1>e, <2>1, <2>2, <3>1, <3>2
    <3> QED BY <2>2, <2>4, <3>2, <3>3 DEF AgeSound, Writing
  <2> QED BY <1>3, <2>3, <2>4 DEF Tick, Writing, IInv, TypeOK
<1>4. ASSUME NEW c \in Callers, CheckpointNow(c) \/ CallerReturns(c) PROVE AgeSound'
  <2>1. UNCHANGED <<made, ages, left, write, failures>>
    BY <1>4 DEF CheckpointNow, CallerReturns, condition
  <2> QED BY <2>1, <1>b, <1>d, <1>e DEF write, AgeSound, Writing, Durable
<1>5. CASE Begin
  BY <1>5, StartAge DEF Begin
<1>6. CASE Stop
  <2>1. CASE dirty \/ made > completed
    BY <1>6, <2>1, StartAge DEF Stop, condition
  <2>2. CASE ~(dirty \/ made > completed)
    BY <1>6, <2>2, <1>b, <1>d, <1>e DEF Stop, condition, AgeSound, Writing
  <2> QED BY <2>1, <2>2
<1>7. CASE Copy
  BY <1>7, <1>b, <1>d, <1>e DEF Copy, condition, AgeSound, Writing, Durable
<1>8. CASE Save
  <2>1. \A i \in DOMAIN ages' :
          \E j \in DOMAIN ages : ages'[i] = ages[j] /\ Durable' + i = Durable + j
    BY <1>8, OnDiskKeeps DEF Save, IInv
  <2>2. Base' = Base /\ UNCHANGED <<left, target, elapsed>> /\ worker' = "saved" /\ Writing
    BY <1>8, <1>b DEF Save, condition, Writing
  <2>3. LossIsBounded'
    BY <1>d, <1>e, <2>1, <2>2 DEF AgeSound
  <2> QED BY <2>1, <2>2, <2>3 DEF AgeSound
<1>9. CASE Finish
  <2>1. \A i \in DOMAIN ages : Durable + i > target
    BY <1>9, <1>a DEF Finish, IInv, TypeOK, CopySound, Durable
  <2>2. left' \in {0, left} /\ left' \in 0..Interval /\ ages' = ages /\ failures' = failures
        /\ BackToWait /\ Writing
    BY <1>9, <1>a DEF Finish, Clean, Writing
  <2> QED BY <1>a, <2>1, <2>2, OverAge
<1>10. CASE FailWrite
  <2>1. ages' = ages \/ OnDisk
    BY <1>10 DEF FailWrite
  <2>2. \A i \in DOMAIN ages' : \E j \in DOMAIN ages : ages'[i] = ages[j]
    BY <1>10, <2>1, OnDiskKeeps DEF FailWrite, IInv
  <2>3. left' \in 0..Interval /\ failures' = failures + 1 /\ BackToWait /\ Writing
    BY <1>10, <1>a DEF FailWrite, Retry, Writing
  <2> QED BY <1>a, <2>2, <2>3, OverAge
<1>11. CASE UNCHANGED vars
  BY <1>11, <1>b, <1>d, <1>e DEF vars, condition, write, AgeSound, Writing, Durable
<1> QED BY <1>1, <1>2, <1>3, <1>4, <1>5, <1>6, <1>7, <1>8, <1>9, <1>10, <1>11 DEF Next

\* The strengthening holds throughout: what is clean, completed or returned is never
\* ahead of the disk, whatever the order of changes, writes, failures and stops.
THEOREM Strengthening == Spec => []IInv
BY InitIInv, NextIInv, PTL DEF Spec

\* The coordinator keeps its types: a deadline is never further than an interval and
\* no generation is ahead of the changes made.
THEOREM TypeCorrect == Spec => []TypeOK
<1>1. IInv => TypeOK
  BY DEF IInv
<1> QED BY <1>1, Strengthening, PTL

\* A clean Campaign is on disk whole: mark_dirty during a write is never lost.
THEOREM CleanIsDurable == Spec => []CleanMeansDurable
<1>1. IInv => CleanMeansDurable
  BY DEF IInv
<1> QED BY <1>1, Strengthening, PTL

\* checkpoint_now returns normally only when what it was called for is on disk.
THEOREM ForcedAreDurable == Spec => []ForcedIsDurable
<1>1. IInv => ForcedIsDurable
  BY DEF IInv, TypeOK, Call, CallsSound, CompletedSound, ForcedIsDurable, Durable
<1> QED BY <1>1, Strengthening, PTL

\* What a crash loses is bounded by the interval, the write and the saves that raised:
\* no burst of changes and no forced write moves the deadline of the first of them.
THEOREM LossesAreBounded == Spec => []LossIsBounded
<1>1. Init => AgeSound
  BY DEF Init, AgeSound, Writing, LossIsBounded
<1>2. AgeSound => LossIsBounded
  BY DEF AgeSound
<1> QED BY <1>1, <1>2, NextAge, Strengthening, PTL DEF Spec
-----------------------------------------------------------------------------
(* SnapshotStore.                                                           *)

\* What a boot finds when the staged candidate is gone or refused.
BaseOf(d) == IF d.current # 0 THEN d.current ELSE d.previous

\* No generation is in two slots, and a staged one was not acknowledged yet.
Sound(d) ==
  /\ d.incoming # 0 => d.incoming > promised /\ d.incoming \notin {d.current, d.previous}
  /\ d.current # 0 => d.current # d.previous

\* The claims are made while at most one generation is damaged; what is owed then is the
\* last promise, or the one before when the damaged generation may be the last promise.
Few   == \A q, r \in rotten : q = r
Floor == IF \A r \in rotten : r > promised THEN promised ELSE fallback

\* A directory a boot may find keeps what is owed, also when its staged candidate is
\* replaced (BaseOf) and when one of its generations is damaged next.
Good(d) ==
  /\ Pick(d) >= Floor
  /\ BaseOf(d) \notin rotten => BaseOf(d) >= Floor
  /\ rotten = {} /\ d.incoming = 0 =>
       IF d.current = 0 THEN d.previous = 0
       ELSE d.previous >= IF d.current > promised THEN promised ELSE fallback

DiskSound == \A d \in survivors : Sound(d) /\ (Few => Good(d))

At(next) == step = next \/ (step = "sync" /\ then = next)

Preserving == step = "preserve" \/ At("prune")

\* What each step of a save or a load finds in the directory it works on.
StepSound ==
  /\ step = "idle" => chosen = 0 /\ refused = {}
  /\ step = "stage" =>
       /\ saving /\ chosen = 0 /\ saves > promised
       /\ \A d \in survivors : saves \notin {d.incoming, d.current, d.previous}
  /\ At("check") => saving /\ chosen = 0 /\ view.incoming = saves /\ saves # 0
  /\ step = "demote" \/ At("promote") =>
       /\ chosen # 0 /\ chosen = view.incoming
       /\ saving => chosen = saves
  /\ At("promote") => view.current = 0
  /\ At("acknowledge") /\ saving =>
       /\ chosen # 0 /\ chosen = saves /\ chosen > promised
       /\ view.current = chosen /\ view.incoming = 0
  /\ step = "acknowledge" /\ saving => survivors = {view}
  /\ Preserving =>
       /\ saving => chosen = 0
       /\ \A s \in refused : view[s] \in rotten
       /\ "current" \in refused => ~ Valid(view, "incoming")
       /\ "previous" \in refused => ~ Valid(view, "incoming") /\ ~ Valid(view, "current")
       /\ chosen # 0 /\ chosen = view.previous =>
            /\ view.incoming # 0 => "incoming" \in refused
            /\ view.current # 0 => "current" \in refused
  /\ ~ Preserving => refused = {}

StoreInv == StoreTypeOK /\ DiskSound /\ StepSound /\ promised >= fallback
-----------------------------------------------------------------------------
(* What each rename does to a directory.                                     *)

\* A directory, and the numbers in it, as every lemma below finds them.
Kept(d) == Directory(d) /\ Sound(d) /\ (Few => Good(d))

Bounds ==
  /\ promised \in Nat /\ fallback \in Nat /\ saves \in Nat
  /\ promised >= fallback /\ rotten \subseteq 1..saves

\* What is owed is a number, and never more than the last promise.
LEMMA FloorBound == Bounds => Floor \in Nat /\ Floor <= promised
BY DEF Bounds, Floor

\* A fresh generation staged over whatever the slot held.
LEMMA StageKeeps ==
  ASSUME Bounds, NEW d, Kept(d), saves > promised,
         saves \notin {d.incoming, d.current, d.previous}
  PROVE  LET e == [d EXCEPT !.incoming = saves] IN Sound(e) /\ (Few => Good(e))
<1> DEFINE e == [d EXCEPT !.incoming = saves]
<1>1. e.incoming = saves /\ e.current = d.current /\ e.previous = d.previous
  BY DEF Kept, Directory, Slots
<1>2. d.incoming \in 0..saves /\ d.current \in 0..saves /\ d.previous \in 0..saves
  BY DEF Kept, Directory, Slots
<1>3. Sound(e)
  BY <1>1, <1>2 DEF Kept, Sound, Bounds
<1>4. ASSUME Few PROVE Good(e)
  <2>1. Pick(e) >= Floor
    <3>1. CASE saves \notin rotten
      BY <3>1, <1>1, <1>2, FloorBound DEF Pick, Valid, Bounds
    <3>2. CASE saves \in rotten
      <4>1. Pick(e) = BaseOf(d) /\ BaseOf(d) \notin rotten
        BY <3>2, <1>1, <1>2, <1>4 DEF Pick, Valid, BaseOf, Few, Bounds
      <4> QED BY <4>1, <1>4 DEF Kept, Good
    <3> QED BY <3>1, <3>2
  <2>2. BaseOf(e) \notin rotten => BaseOf(e) >= Floor
    BY <1>1, <1>4 DEF Kept, Good, BaseOf
  <2> QED BY <2>1, <2>2, <1>1, <1>2 DEF Good, Bounds
<1> QED BY <1>3, <1>4

\* The trusted generation moved over the fallback, with a candidate staged.
LEMMA DemoteKeeps ==
  ASSUME Bounds, NEW d, Kept(d), d.incoming # 0, d.current # 0
  PROVE  LET e == [d EXCEPT !.previous = d.current, !.current = 0]
         IN  Sound(e) /\ (Few => Good(e))
<1> DEFINE e == [d EXCEPT !.previous = d.current, !.current = 0]
<1>1. e.incoming = d.incoming /\ e.current = 0 /\ e.previous = d.current
  BY DEF Kept, Directory, Slots
<1>2. d.incoming \in 0..saves /\ d.current \in 0..saves /\ d.previous \in 0..saves
  BY DEF Kept, Directory, Slots
<1>3. Sound(e)
  BY <1>1, <1>2 DEF Kept, Sound, Bounds
<1>4. ASSUME Few PROVE Good(e)
  <2>1. BaseOf(e) = BaseOf(d)
    BY <1>1 DEF BaseOf
  <2>2. Pick(e) >= Floor
    <3>1. CASE d.incoming \notin rotten
      BY <3>1, <1>1, <1>2, FloorBound DEF Pick, Valid, Bounds, Kept, Sound
    <3>2. CASE d.incoming \in rotten
      <4>1. Pick(e) = BaseOf(d) /\ BaseOf(d) \notin rotten
        BY <3>2, <1>1, <1>2, <1>4 DEF Pick, Valid, BaseOf, Few, Bounds, Kept, Sound
      <4> QED BY <4>1, <1>4 DEF Kept, Good
    <3> QED BY <3>1, <3>2
  <2> QED BY <2>1, <2>2, <1>1, <1>2, <1>4 DEF Good, Bounds, Kept
<1> QED BY <1>3, <1>4

\* The candidate moved into the trusted slot, which is empty.
LEMMA PromoteKeeps ==
  ASSUME Bounds, NEW d, Kept(d), d.incoming # 0, d.current = 0
  PROVE  LET e == [d EXCEPT !.current = d.incoming, !.incoming = 0]
         IN  Sound(e) /\ (Few => Good(e))
<1> DEFINE e == [d EXCEPT !.current = d.incoming, !.incoming = 0]
<1>1. e.incoming = 0 /\ e.current = d.incoming /\ e.previous = d.previous
  BY DEF Kept, Directory, Slots
<1>2. d.incoming \in 0..saves /\ d.current \in 0..saves /\ d.previous \in 0..saves
  BY DEF Kept, Directory, Slots
<1>3. Sound(e)
  BY <1>1, <1>2 DEF Kept, Sound, Bounds
<1>4. ASSUME Few PROVE Good(e)
  <2>1. Pick(e) = Pick(d)
    BY <1>1 DEF Pick, Valid
  <2>2. BaseOf(e) > promised
    BY <1>1, <1>2 DEF BaseOf, Kept, Sound, Bounds
  <2>3. rotten = {} => e.previous >= promised
    BY <1>1, <1>4 DEF Kept, Good, BaseOf, Floor
  <2> QED BY <2>1, <2>2, <2>3, <1>1, <1>2, <1>4, FloorBound DEF Good, Bounds, Kept, BaseOf
<1> QED BY <1>3, <1>4

\* A damaged generation set aside, when no slot asked before it holds a valid one.
LEMMA AsideKeeps ==
  ASSUME Bounds, NEW d, Kept(d), NEW s \in Slots, d[s] \in rotten,
         s = "current" => ~ Valid(d, "incoming"),
         s = "previous" => ~ Valid(d, "incoming") /\ ~ Valid(d, "current")
  PROVE  LET e == Aside(d, s) IN Sound(e) /\ (Few => Good(e))
<1> DEFINE e == Aside(d, s)
<1>1. \A t \in Slots : e[t] = IF t = s THEN 0 ELSE d[t]
  BY DEF Kept, Directory, Slots, Aside
<1>2. /\ e.incoming = IF s = "incoming" THEN 0 ELSE d.incoming
      /\ e.current = IF s = "current" THEN 0 ELSE d.current
      /\ e.previous = IF s = "previous" THEN 0 ELSE d.previous
  BY <1>1 DEF Slots
<1>3. d.incoming \in 0..saves /\ d.current \in 0..saves /\ d.previous \in 0..saves
  BY DEF Kept, Directory, Slots
<1>4. s = "incoming" \/ s = "current" \/ s = "previous"
  BY DEF Slots
<1>5. Sound(e)
  BY <1>2, <1>3, <1>4 DEF Kept, Sound, Bounds
<1>6. ASSUME Few PROVE Good(e)
  <2>1. Pick(e) = Pick(d)
    BY <1>2, <1>4 DEF Pick, Valid
  <2>2. BaseOf(e) = BaseOf(d) \/ BaseOf(e) = Pick(d)
    BY <1>2, <1>3, <1>4, <1>6 DEF BaseOf, Pick, Valid, Few, Kept, Sound, Bounds
  <2> QED BY <2>1, <2>2, <1>6 DEF Good, Kept
<1> QED BY <1>5, <1>6

\* The fallback made the trusted generation, when nothing else is left.
LEMMA FallbackKeeps ==
  ASSUME Bounds, NEW d, Kept(d), d.incoming = 0, d.current = 0, d.previous # 0
  PROVE  LET e == [d EXCEPT !.current = d.previous, !.previous = 0]
         IN  Sound(e) /\ (Few => Good(e))
<1> DEFINE e == [d EXCEPT !.current = d.previous, !.previous = 0]
<1>1. e.incoming = 0 /\ e.current = d.previous /\ e.previous = 0
  BY DEF Kept, Directory, Slots
<1>2. Sound(e)
  BY <1>1 DEF Sound
<1>3. ASSUME Few PROVE Good(e)
  <2>1. Pick(e) = Pick(d) /\ BaseOf(e) = BaseOf(d) /\ rotten # {}
    BY <1>1, <1>3 DEF Pick, Valid, BaseOf, Good, Kept
  <2> QED BY <2>1, <1>3 DEF Good, Kept
<1> QED BY <1>2, <1>3

\* A generation is damaged.
LEMMA RotKeeps ==
  ASSUME Bounds, NEW d, Kept(d), NEW n \in 1..saves, n \notin rotten,
         rotten' = rotten \union {n}, promised' = promised, fallback' = fallback
  PROVE  Sound(d)' /\ (Few' => Good(d)')
<1>1. d.incoming \in 0..saves /\ d.current \in 0..saves /\ d.previous \in 0..saves
  BY DEF Kept, Directory, Slots
<1>2. Sound(d)'
  BY DEF Sound, Kept
<1>3. ASSUME Few' PROVE Good(d)'
  <2>1. rotten = {} /\ rotten' = {n}
    BY <1>3 DEF Few
  <2>2. Few /\ Good(d) /\ Floor = promised
    BY <2>1 DEF Few, Kept, Floor
  <2>3. Floor' = IF n > promised THEN promised ELSE fallback
    BY <2>1 DEF Floor
  <2>4. BaseOf(d) >= promised /\ Pick(d) >= promised /\ BaseOf(d)' = BaseOf(d)
    BY <2>1, <2>2 DEF Good, BaseOf
  <2>5. Pick(d)' >= Floor'
    BY <1>1, <2>1, <2>2, <2>3, <2>4 DEF Good, Kept, Sound, Pick, Valid, BaseOf, Bounds
  <2> QED BY <1>1, <2>1, <2>3, <2>4, <2>5 DEF Good, Bounds, BaseOf
<1> QED BY <1>2, <1>3

\* A save returns: its generation is trusted and durable.
LEMMA AckKeeps ==
  ASSUME Bounds, NEW d, Kept(d), d.incoming = 0, d.current # 0, d.current > promised,
         rotten' = rotten, promised' = d.current, fallback' = promised
  PROVE  Sound(d)' /\ (Few' => Good(d)')
<1>1. d.incoming \in 0..saves /\ d.current \in 0..saves /\ d.previous \in 0..saves
  BY DEF Kept, Directory, Slots
<1>2. Sound(d)'
  BY DEF Sound, Kept
<1>3. ASSUME Few' PROVE Good(d)'
  <2>1. Few /\ Good(d)
    BY <1>3 DEF Few, Kept
  <2>2. BaseOf(d)' = d.current /\ Pick(d)' = Pick(d) /\ BaseOf(d) = d.current
    BY DEF BaseOf, Pick, Valid
  <2>3. Floor' \in Nat /\ Floor' <= d.current
    BY <1>1 DEF Floor, Bounds
  <2>4. Pick(d)' >= Floor'
    <3>1. CASE d.current \notin rotten
      BY <3>1, <1>1, <2>2, <2>3 DEF Pick, Valid
    <3>2. CASE d.current \in rotten
      <4>1. Floor = promised /\ Floor' = promised
        BY <3>2, <2>1, <1>1 DEF Few, Floor, Bounds
      <4> QED BY <4>1, <2>1, <2>2 DEF Good
    <3> QED BY <3>1, <3>2
  <2>5. rotten = {} => d.previous >= promised
    BY <2>1, <1>1 DEF Good
  <2> QED BY <1>1, <2>2, <2>3, <2>4, <2>5 DEF Good, Bounds
<1> QED BY <1>2, <1>3

\* What a directory keeps does not depend on the rest of the state.
LEMMA StillKept ==
  ASSUME NEW d, Sound(d), Few => Good(d),
         rotten' = rotten, promised' = promised, fallback' = fallback
  PROVE  Sound(d)' /\ (Few' => Good(d)')
BY DEF Sound, Few, Good, Pick, Valid, BaseOf, Floor
-----------------------------------------------------------------------------
(* Types.                                                                    *)

\* A directory stays one while the number of saves grows.
LEMMA DirectoryGrows ==
  ASSUME NEW d, Directory(d), saves \in Nat, saves' \in Nat, saves' >= saves
  PROVE  Directory(d)'
<1>1. \A s \in Slots : d[s] \in 0..saves'
  BY DEF Directory
<1>2. d.rejected \in Seq(1..saves')
  BY DEF Directory
<1> QED BY <1>1, <1>2 DEF Directory

\* A rename that puts a generation or nothing into slots makes a directory.
LEMMA MoveType ==
  ASSUME saves \in Nat, NEW d, Directory(d), NEW e, DOMAIN e = DOMAIN d,
         \A s \in Slots : e[s] \in 0..saves,
         e.rejected = d.rejected
  PROVE  Directory(e)
BY DEF Directory

\* The same for a slot set aside.
LEMMA AsideType ==
  ASSUME saves \in Nat, NEW d, Directory(d), NEW s \in Slots, d[s] \in 1..saves
  PROVE  Directory(Aside(d, s))
<1> DEFINE e == Aside(d, s)
<1>1. DOMAIN e = DOMAIN d /\ (\A t \in Slots : e[t] = IF t = s THEN 0 ELSE d[t])
  BY DEF Directory, Slots, Aside
<1>2. e.rejected = Append(d.rejected, d[s])
  BY DEF Directory, Slots, Aside
<1> HIDE DEF e
<1>3. e.rejected \in Seq(1..saves)
  BY <1>2 DEF Directory
<1>4. DOMAIN e = Slots \union {"rejected"}
  BY <1>1 DEF Directory
<1>5. \A t \in Slots : e[t] \in 0..saves
  BY <1>1 DEF Directory
<1>6. Directory(e)
  BY <1>3, <1>4, <1>5 DEF Directory
<1> QED BY <1>6 DEF e

\* And for one unlinked: what is in the slots stays.
LEMMA PruneFacts ==
  ASSUME StoreTypeOK, Prune
  PROVE  /\ Directory(view)' /\ view' \in survivors' /\ survivors' \subseteq survivors \union {view'}
         /\ \A e \in survivors' : Directory(e)'
         /\ \A s \in Slots : view'[s] = view[s]
<1>1. /\ Directory(view) /\ view \in survivors /\ saves' = saves /\ saves \in Nat
      /\ \A e \in survivors : Directory(e)
  BY DEF StoreTypeOK, Prune
<1>2. \A e : Directory(e) => Directory(e)'
  BY <1>1 DEF Directory
<1>3. CASE UNCHANGED disk
  BY <1>1, <1>2, <1>3 DEF disk, Directory
<1>4. CASE /\ view' = [view EXCEPT !.rejected = Tail(@)] /\ survivors' = survivors \union {view'}
           /\ Len(view.rejected) > MaxRejected
  <2> DEFINE d == [view EXCEPT !.rejected = Tail(@)]
  <2>1. view.rejected \in Seq(1..saves) /\ view.rejected # << >>
    BY <1>1, <1>4, StoreAssumption DEF Directory
  <2>2. Tail(view.rejected) \in Seq(1..saves)
    BY <2>1, HeadTailProperties
  <2>3. Directory(d) /\ \A s \in Slots : d[s] = view[s]
    BY <1>1, <2>2 DEF Directory, Slots
  <2>4. view' = d
    BY <1>4
  <2> HIDE DEF d
  <2> QED BY <1>1, <1>2, <1>4, <2>3, <2>4 DEF Directory
<1> QED BY <1>3, <1>4 DEF Prune

\* What a move does to the type of the disk.
LEMMA MoveKeepsType ==
  ASSUME NEW d, NEW next, StoreTypeOK, Move(d, next), saves' = saves, Directory(d)
  PROVE  /\ Directory(view)' /\ view' \in survivors'
         /\ \A e \in survivors' : Directory(e)'
<1>1. Directory(d)'
  BY DirectoryGrows DEF StoreTypeOK
<1>2. \A e \in survivors : Directory(e)'
  BY DirectoryGrows DEF StoreTypeOK
<1>3. view' = d /\ survivors' = survivors \union {d}
  BY DEF Move
<1>4. Directory(view)'
  BY <1>1, <1>3 DEF Directory
<1> QED BY <1>1, <1>2, <1>3, <1>4
\* Every step keeps the type invariant.
LEMMA TypeStep ==
  ASSUME StoreTypeOK, [StoreNext]_storeVars, DiskSound, StepSound
  PROVE  StoreTypeOK'
<1> DEFINE Rest ==
      /\ rotten \subseteq 1..saves
      /\ saves \in Nat /\ generation \in Seq(Nat) /\ Len(generation) = saves
      /\ step \in {"idle", "stage", "sync", "check", "demote", "promote",
                   "acknowledge", "preserve", "prune"}
      /\ then \in {"check", "promote", "acknowledge", "prune"}
      /\ saving \in BOOLEAN /\ chosen \in 0..saves
      /\ refused \subseteq Slots
      /\ promised \in 0..saves /\ fallback \in 0..saves /\ vacated \in BOOLEAN
      Disk == Directory(view) /\ view \in survivors /\ \A d \in survivors : Directory(d)
<1>1. view.incoming \in 0..saves /\ view.current \in 0..saves /\ view.previous \in 0..saves
  BY DEF StoreTypeOK, Directory, Slots
<1>2. ASSUME UNCHANGED disk, saves' \in Nat, saves' >= saves PROVE Disk'
  <2>1. Directory(view)'
    BY <1>2, DirectoryGrows DEF StoreTypeOK, disk
  <2> QED BY <1>2, <2>1, DirectoryGrows DEF StoreTypeOK, disk
<1>3. Disk' /\ Rest' => StoreTypeOK'
  BY DEF StoreTypeOK
<1>4. CASE BeginSave
  <2>1. PICK g \in NextGeneration : generation' = Append(generation, g)
    BY <1>4 DEF BeginSave
  <2>2. g \in Nat
    <3>1. CASE view.current = 0
      BY <3>1 DEF NextGeneration
    <3>2. CASE view.current # 0
      <4>1. generation[view.current] \in Nat
        BY <3>2, <1>1 DEF StoreTypeOK
      <4> QED BY <4>1, <3>2 DEF NextGeneration
    <3> QED BY <3>1, <3>2
  <2>3. generation' \in Seq(Nat) /\ Len(generation') = saves + 1
    BY <2>1, <2>2 DEF StoreTypeOK
  <2>4. Rest'
    BY <1>4, <2>3 DEF BeginSave, StoreTypeOK, history
  <2> QED BY <1>2, <1>3, <1>4, <2>4 DEF BeginSave, StoreTypeOK
<1>5. CASE Stage
  <2> DEFINE d == [view EXCEPT !.incoming = saves]
  <2>1. Directory(d)
    BY MoveType, <1>1 DEF StoreTypeOK, Directory, Slots
  <2> QED BY <1>3, <1>5, <2>1, MoveKeepsType DEF Stage, Move, StoreTypeOK, history
<1>6. CASE Revalidate
  <2>1. Disk'
    BY <1>2, <1>6 DEF Revalidate, StoreTypeOK
  <2>2. refused' \subseteq Slots
    BY <1>6 DEF Revalidate, StoreTypeOK, Slots
  <2>3. chosen' \in 0..saves
    BY <1>6 DEF Revalidate, StoreTypeOK
  <2> QED BY <1>3, <1>6, <2>1, <2>2, <2>3 DEF Revalidate, StoreTypeOK, history
<1>7. CASE Demote
  <2> DEFINE d == [view EXCEPT !.previous = view.current, !.current = 0]
  <2>1. Directory(d)
    BY MoveType, <1>1 DEF StoreTypeOK, Directory, Slots
  <2>2. CASE view.current = 0
    BY <1>2, <1>3, <1>7, <2>2 DEF Demote, StoreTypeOK, history
  <2>3. CASE view.current # 0
    BY <1>3, <1>7, <2>1, <2>3, MoveKeepsType DEF Demote, Move, StoreTypeOK, history
  <2> QED BY <2>2, <2>3
<1>8. CASE Promote
  <2> DEFINE d == [view EXCEPT !.current = view.incoming, !.incoming = 0]
  <2>1. Directory(d)
    BY MoveType, <1>1 DEF StoreTypeOK, Directory, Slots
  <2> QED BY <1>3, <1>8, <2>1, MoveKeepsType DEF Promote, Move, StoreTypeOK, history
<1>9. CASE Acknowledge
  BY <1>2, <1>3, <1>9 DEF Acknowledge, StoreTypeOK, history
<1>10. CASE BeginLoad
  <2>1. Pick(view) \in 0..saves
    BY <1>1 DEF Pick, StoreTypeOK
  <2>2. RefusedBy(view) \subseteq Slots
    BY DEF RefusedBy
  <2>3. Disk'
    BY <1>2, <1>10 DEF BeginLoad, StoreTypeOK
  <2> QED BY <1>3, <1>10, <2>1, <2>2, <2>3 DEF BeginLoad, StoreTypeOK, history
<1>11. CASE SetAside
  <2> DEFINE s == Newest(refused)
             d == Aside(view, s)
  <2>1. s \in refused /\ s \in Slots
    BY <1>11 DEF SetAside, Newest, Slots, StoreTypeOK
  <2>2. view[s] \in 1..saves
    BY <1>11, <2>1 DEF SetAside, StepSound, Preserving, StoreTypeOK
  <2>3. Directory(d)
    BY <2>1, <2>2, AsideType DEF StoreTypeOK
  <2>4. Move(d, "prune")
    BY <1>11, <2>2 DEF SetAside
  <2> HIDE DEF d
  <2> QED BY <1>3, <1>11, <2>3, <2>4, MoveKeepsType DEF SetAside, Move, StoreTypeOK, history
<1>12. CASE Recover
  <2> DEFINE d == [view EXCEPT !.current = view.previous, !.previous = 0]
  <2>1. Directory(d)
    BY MoveType, <1>1 DEF StoreTypeOK, Directory, Slots
  <2>2. CASE UNCHANGED disk
    BY <1>2, <1>3, <1>12, <2>2 DEF Recover, FromFallback, Move, StoreTypeOK, history
  <2>3. CASE FromFallback("acknowledge")
    BY <1>3, <1>12, <2>1, <2>3, MoveKeepsType DEF Recover, FromFallback, Move, StoreTypeOK, history
  <2> QED BY <1>12, <2>2, <2>3 DEF Recover
<1>13. CASE Sync
  <2>1. Disk'
    <3>1. Directory(view)'
      BY <1>13, DirectoryGrows DEF Sync, StoreTypeOK
    <3> QED BY <1>13, <3>1 DEF Sync, Directory
  <2> QED BY <1>3, <1>13, <2>1 DEF Sync, StoreTypeOK, history
<1>14. CASE Fail
  BY <1>2, <1>3, <1>14 DEF Fail, Abandoned, StoreTypeOK, history, disk
<1>15. CASE PowerLoss
  <2>1. Disk'
    <3>1. Directory(view)'
      BY <1>15 DEF PowerLoss, StoreTypeOK, Directory
    <3> QED BY <1>15, <3>1 DEF PowerLoss, Directory
  <2> QED BY <1>3, <1>15, <2>1 DEF PowerLoss, Abandoned, StoreTypeOK
<1>16. CASE Rot
  BY <1>2, <1>3, <1>16 DEF Rot, StoreTypeOK, history
<1>17. CASE UNCHANGED storeVars
  BY <1>2, <1>3, <1>17 DEF storeVars, StoreTypeOK, history, disk
<1>18. CASE Prune
  BY <1>3, <1>18, PruneFacts DEF Prune, StoreTypeOK, history
<1> QED BY <1>4, <1>5, <1>6, <1>7, <1>8, <1>9, <1>10, <1>11, <1>12, <1>13, <1>14, <1>15,
           <1>16, <1>17, <1>18 DEF StoreNext
-----------------------------------------------------------------------------
(* What a boot may find.                                                     *)

\* The facts the lemmas on directories start from.
LEMMA BoundsHold ==
  ASSUME StoreTypeOK, promised >= fallback, DiskSound
  PROVE  Bounds /\ Kept(view) /\ \A d \in survivors : Kept(d)
BY DEF StoreTypeOK, Bounds, DiskSound, Kept

\* A step that renames nothing and damages nothing.
LEMMA DiskStays ==
  ASSUME DiskSound, survivors' \subseteq survivors,
         rotten' = rotten, promised' = promised, fallback' = fallback
  PROVE  DiskSound'
BY StillKept DEF DiskSound

\* A step that renames.
LEMMA DiskMoves ==
  ASSUME DiskSound, NEW e, NEW next, Move(e, next), Sound(e) /\ (Few => Good(e)),
         rotten' = rotten, promised' = promised, fallback' = fallback
  PROVE  DiskSound'
BY StillKept DEF DiskSound, Move

\* Every step leaves only directories that keep what is owed.
LEMMA DiskStep ==
  ASSUME StoreInv, [StoreNext]_storeVars
  PROVE  DiskSound' /\ (promised >= fallback)'
<1>1. StoreTypeOK /\ DiskSound /\ StepSound /\ promised >= fallback
  BY DEF StoreInv
<1>2. Bounds /\ Kept(view) /\ \A d \in survivors : Kept(d)
  BY <1>1, BoundsHold
<1>3. view \in survivors
  BY <1>1 DEF StoreTypeOK
<1>4. CASE BeginSave
  BY <1>1, <1>4, DiskStays DEF BeginSave, disk, history
<1>5. CASE Stage
  <2> DEFINE e == [view EXCEPT !.incoming = saves]
  <2>1. Sound(e) /\ (Few => Good(e))
    BY <1>1, <1>2, <1>3, <1>5, StageKeeps DEF StepSound, Stage
  <2> HIDE DEF e
  <2>2. Move(e, "check")
    BY <1>5 DEF Stage, e
  <2> QED BY <1>1, <1>5, <2>1, <2>2, DiskMoves DEF Stage, history
<1>6. CASE Revalidate
  BY <1>1, <1>6, DiskStays DEF Revalidate, disk, history
<1>7. CASE Demote
  <2>1. CASE view.current = 0
    BY <1>1, <1>7, <2>1, DiskStays DEF Demote, disk, history
  <2>2. CASE view.current # 0
    <3> DEFINE e == [view EXCEPT !.previous = view.current, !.current = 0]
    <3>1. Sound(e) /\ (Few => Good(e))
      BY <1>1, <1>2, <1>7, <2>2, DemoteKeeps DEF StepSound, Demote
    <3> HIDE DEF e
    <3>2. Move(e, "promote")
      BY <1>7, <2>2 DEF Demote, e
    <3> QED BY <1>1, <1>7, <3>1, <3>2, DiskMoves DEF Demote, history
  <2> QED BY <2>1, <2>2
<1>8. CASE Promote
  <2> DEFINE e == [view EXCEPT !.current = view.incoming, !.incoming = 0]
  <2>1. Sound(e) /\ (Few => Good(e))
    BY <1>1, <1>2, <1>8, PromoteKeeps DEF StepSound, At, Promote
  <2> HIDE DEF e
  <2>2. Move(e, "acknowledge")
    BY <1>8 DEF Promote, e
  <2> QED BY <1>1, <1>8, <2>1, <2>2, DiskMoves DEF Promote, history
<1>9. CASE Acknowledge
  <2>1. CASE saving
    <3>1. /\ chosen # 0 /\ chosen > promised /\ view.current = chosen
          /\ view.incoming = 0 /\ survivors = {view}
      BY <1>1, <1>9, <2>1 DEF StepSound, At, Acknowledge
    <3>2. Sound(view)' /\ (Few' => Good(view)')
      <4>1. PICK v \in survivors : v = view
        BY <1>3
      <4>2. Sound(v)' /\ (Few' => Good(v)')
        BY <1>2, <1>9, <2>1, <3>1, <4>1, AckKeeps DEF Acknowledge
      <4>3. view' = v
        BY <1>9, <4>1 DEF Acknowledge, disk
      <4> QED BY <4>2, <4>3 DEF Sound, Good, Pick, Valid, BaseOf
    <3>3. survivors' = {view'}
      BY <1>9, <3>1 DEF Acknowledge, disk
    <3>4. promised' >= fallback'
      BY <1>1, <1>9, <2>1, <3>1 DEF Acknowledge, StoreTypeOK
    <3> QED BY <3>2, <3>3, <3>4 DEF DiskSound, Sound, Good, Pick, Valid, BaseOf
  <2>2. CASE ~ saving
    BY <1>1, <1>9, <2>2, DiskStays DEF Acknowledge, disk, history
  <2> QED BY <2>1, <2>2
<1>10. CASE BeginLoad
  BY <1>1, <1>10, DiskStays DEF BeginLoad, disk, history
<1>11. CASE SetAside
  <2> DEFINE s == Newest(refused)
  <2>1. s \in refused /\ s \in Slots
    BY <1>1, <1>11 DEF SetAside, Newest, Slots, StoreTypeOK
  <2>2. view[s] \in rotten
    BY <1>1, <1>11, <2>1 DEF SetAside, StepSound, Preserving
  <2>3. s = "current" => ~ Valid(view, "incoming")
    BY <1>1, <1>11, <2>1 DEF SetAside, StepSound, Preserving
  <2>4. s = "previous" => ~ Valid(view, "incoming") /\ ~ Valid(view, "current")
    BY <1>1, <1>11, <2>1 DEF SetAside, StepSound, Preserving
  <2>5. Sound(Aside(view, s)) /\ (Few => Good(Aside(view, s)))
    BY <1>2, <2>1, <2>2, <2>3, <2>4, AsideKeeps
  <2>6. view[s] # 0
    BY <1>2, <2>2 DEF Bounds
  <2>7. Move(Aside(view, s), "prune")
    BY <1>11, <2>6 DEF SetAside
  <2> QED BY <1>1, <1>11, <2>5, <2>7, DiskMoves DEF SetAside, history
<1>12. CASE Recover
  <2>1. CASE UNCHANGED disk
    BY <1>1, <1>12, <2>1, DiskStays DEF Recover, disk, history
  <2>2. CASE chosen # 0 /\ chosen = view.previous /\ FromFallback("acknowledge")
    <3> DEFINE e == [view EXCEPT !.current = view.previous, !.previous = 0]
    <3>1. view.incoming = 0 /\ view.current = 0
      BY <1>1, <1>12, <2>2 DEF StepSound, Preserving, Recover
    <3>2. Sound(e) /\ (Few => Good(e))
      BY <1>2, <2>2, <3>1, FallbackKeeps
    <3> HIDE DEF e
    <3>3. Move(e, "acknowledge")
      BY <2>2 DEF FromFallback, e
    <3> QED BY <1>1, <1>12, <3>2, <3>3, DiskMoves DEF Recover, history
  <2> QED BY <1>12, <2>1, <2>2 DEF Recover
<1>13. CASE Sync
  BY <1>1, <1>3, <1>13, DiskStays DEF Sync, history
<1>14. CASE Fail
  BY <1>1, <1>14, DiskStays DEF Fail, disk
<1>15. CASE PowerLoss
  BY <1>1, <1>15, DiskStays DEF PowerLoss
<1>16. CASE Rot
  <2>1. PICK n \in 1..saves \ rotten : rotten' = rotten \union {n}
    BY <1>16 DEF Rot
  <2>2. survivors' = survivors /\ promised' = promised /\ fallback' = fallback
    BY <1>16 DEF Rot, disk, history
  <2>3. ASSUME NEW d \in survivors PROVE Sound(d)' /\ (Few' => Good(d)')
    BY <1>2, <2>1, <2>2, RotKeeps
  <2> QED BY <1>1, <2>2, <2>3 DEF DiskSound
<1>17. CASE UNCHANGED storeVars
  BY <1>1, <1>17, DiskStays DEF storeVars, disk, history
<1>18. CASE Prune
  <2>1. /\ survivors' \subseteq survivors \union {view'}
        /\ \A s \in Slots : view'[s] = view[s]
    BY <1>1, <1>18, PruneFacts
  <2>2. rotten' = rotten /\ promised' = promised /\ fallback' = fallback
    BY <1>18 DEF Prune, history
  <2>3. Sound(view') /\ (Few => Good(view'))
    BY <1>2, <2>1 DEF Kept, Sound, Good, Pick, Valid, BaseOf, Slots
  <2>4. ASSUME NEW d \in survivors' PROVE Sound(d)' /\ (Few' => Good(d)')
    <3>1. Sound(d) /\ (Few => Good(d))
      BY <1>2, <2>1, <2>3 DEF Kept
    <3> QED BY <2>2, <3>1, StillKept
  <2> QED BY <1>1, <2>2, <2>4 DEF DiskSound
<1> QED BY <1>4, <1>5, <1>6, <1>7, <1>8, <1>9, <1>10, <1>11, <1>12, <1>13, <1>14, <1>15,
           <1>16, <1>17, <1>18 DEF StoreNext

\* Every step of a save, of a load and of the box leaves the next one what it needs.
LEMMA StepStep ==
  ASSUME StoreInv, [StoreNext]_storeVars
  PROVE  StepSound'
<1>1. StoreTypeOK /\ DiskSound /\ StepSound
  BY DEF StoreInv
<1>2. /\ view.incoming \in 0..saves /\ view.current \in 0..saves /\ view.previous \in 0..saves
      /\ saves \in Nat /\ promised \in Nat /\ promised <= saves /\ view \in survivors
  BY <1>1 DEF StoreTypeOK, Directory, Slots
<1>3. Sound(view)
  BY <1>1, <1>2 DEF DiskSound
<1>4. CASE BeginSave
  <2>1. \A d \in survivors' : saves' \notin {d.incoming, d.current, d.previous}
    <3> SUFFICES ASSUME NEW d \in survivors PROVE saves + 1 \notin {d.incoming, d.current, d.previous}
      BY <1>4 DEF BeginSave, disk
    <3>1. d.incoming \in 0..saves /\ d.current \in 0..saves /\ d.previous \in 0..saves
      BY <1>1 DEF StoreTypeOK, Directory, Slots
    <3> QED BY <1>2, <3>1
  <2> QED BY <1>1, <1>2, <1>4, <2>1 DEF BeginSave, StepSound, Preserving, At, history
<1>5. CASE Stage
  <2>1. view'.incoming = saves
    BY <1>1, <1>5 DEF Stage, Move, StoreTypeOK, Directory
  <2> QED BY <1>1, <1>2, <1>5, <2>1 DEF Stage, Move, StepSound, Preserving, At, history
<1>6. CASE Revalidate
  <2>1. view' = view /\ rotten' = rotten /\ saves' = saves /\ saving' = saving
    BY <1>6 DEF Revalidate, disk
  <2>2. saving /\ chosen = 0 /\ view.incoming = saves /\ saves # 0 /\ refused = {}
    BY <1>1, <1>6 DEF Revalidate, StepSound, Preserving, At
  <2>3. CASE Valid(view, "incoming")
    BY <1>1, <1>6, <2>1, <2>2, <2>3 DEF Revalidate, StepSound, Preserving, At
  <2>4. CASE ~ Valid(view, "incoming")
    BY <1>1, <1>6, <2>1, <2>2, <2>4 DEF Revalidate, StepSound, Preserving, At, Valid
  <2> QED BY <2>3, <2>4
<1>7. CASE Demote
  <2>1. view'.incoming = view.incoming /\ view'.current = 0
    <3>1. CASE view.current = 0
      BY <1>7, <3>1 DEF Demote, disk
    <3>2. CASE view.current # 0
      BY <1>1, <1>7, <3>2 DEF Demote, Move, StoreTypeOK, Directory, Slots
    <3> QED BY <3>1, <3>2
  <2> QED BY <1>1, <1>7, <2>1 DEF Demote, Move, StepSound, Preserving, At, history
<1>8. CASE Promote
  <2>1. view'.incoming = 0 /\ view'.current = view.incoming
    BY <1>1, <1>8 DEF Promote, Move, StoreTypeOK, Directory, Slots
  <2>2. view.incoming > promised
    BY <1>1, <1>3, <1>8 DEF Promote, StepSound, Preserving, At, Sound
  <2> QED BY <1>1, <1>8, <2>1, <2>2 DEF Promote, Move, StepSound, Preserving, At, history
<1>9. CASE Acknowledge
  BY <1>1, <1>9 DEF Acknowledge, StepSound, Preserving, At
<1>10. CASE BeginLoad
  <2>1. view' = view /\ rotten' = rotten /\ chosen' = Pick(view) /\ refused' = RefusedBy(view)
        /\ step' = "preserve" /\ ~ saving'
    BY <1>10 DEF BeginLoad, disk
  <2>2. \A s \in RefusedBy(view) : view[s] \in rotten
    BY DEF RefusedBy, Valid
  <2>3. "current" \in RefusedBy(view) => ~ Valid(view, "incoming")
    BY <1>3 DEF RefusedBy, Pick, Valid, Sound
  <2>4. "previous" \in RefusedBy(view) => ~ Valid(view, "incoming") /\ ~ Valid(view, "current")
    BY DEF RefusedBy, Pick, Valid
  <2>5. Pick(view) # 0 /\ Pick(view) = view.previous =>
          /\ view.incoming # 0 => "incoming" \in RefusedBy(view)
          /\ view.current # 0 => "current" \in RefusedBy(view)
    BY <1>3 DEF RefusedBy, Pick, Valid, Sound, Slots
  <2> QED BY <2>1, <2>2, <2>3, <2>4, <2>5 DEF StepSound, Preserving, At, Valid
<1>11. CASE SetAside
  <2> DEFINE s == Newest(refused)
  <2>1. s \in refused /\ s \in Slots
    BY <1>1, <1>11 DEF SetAside, Newest, Slots, StoreTypeOK
  <2>2. view[s] \in rotten /\ view[s] # 0
    BY <1>1, <1>11, <2>1 DEF SetAside, StepSound, Preserving, At, StoreTypeOK
  <2>3. Move(Aside(view, s), "prune") /\ refused' = refused \ {s}
    BY <1>11, <2>2 DEF SetAside
  <2>4. \A t \in Slots : view'[t] = IF t = s THEN 0 ELSE view[t]
    BY <1>1, <2>3 DEF Move, Aside, StoreTypeOK, Directory, Slots
  <2>5. refused' \subseteq Slots
    BY <1>1, <2>3 DEF StoreTypeOK
  <2>6. rotten' = rotten /\ chosen' = chosen /\ saving' = saving /\ Preserving
    BY <1>11 DEF SetAside, Preserving
  <2>7. \A t \in refused' : view'[t] \in rotten'
    BY <1>1, <2>3, <2>4, <2>5, <2>6 DEF StepSound
  <2>8. \A t \in Slots : ~ Valid(view, t) => ~ Valid(view, t)'
    BY <2>4, <2>6 DEF Valid
  <2> QED
    BY <1>1, <2>1, <2>3, <2>4, <2>6, <2>7, <2>8 DEF StepSound, Preserving, At, Move, Slots, Valid
<1>12. CASE Recover
  BY <1>1, <1>12 DEF Recover, FromFallback, Move, StepSound, Preserving, At, disk
<1>13. CASE Sync
  <2>1. /\ view' = view /\ rotten' = rotten /\ saves' = saves /\ saving' = saving
        /\ chosen' = chosen /\ refused' = refused /\ promised' = promised
        /\ survivors' = {view'} /\ step' = then /\ then' = then /\ step = "sync"
    BY <1>13 DEF Sync, history
  <2>2. then \in {"check", "promote", "acknowledge", "prune"}
    BY <1>1 DEF StoreTypeOK
  <2>3. At("check")' = At("check") /\ At("promote")' = At("promote")
        /\ At("acknowledge")' = At("acknowledge") /\ At("prune")' = At("prune")
    BY <2>1, <2>2 DEF At
  <2>4. step' # "idle" /\ step' # "stage" /\ step' # "demote"
    BY <2>1, <2>2
  <2>5. Preserving' = Preserving
    BY <2>1, <2>2, <2>3 DEF Preserving
  <2> HIDE DEF At
  <2> QED BY <1>1, <2>1, <2>2, <2>3, <2>4, <2>5 DEF StepSound, Valid
<1>14. CASE Fail
  BY <1>14 DEF Fail, Abandoned, StepSound, Preserving, At
<1>15. CASE PowerLoss
  BY <1>15 DEF PowerLoss, Abandoned, StepSound, Preserving, At
<1>16. CASE Rot
  BY <1>1, <1>16 DEF Rot, StepSound, Preserving, At, disk, history, Valid
<1>17. CASE UNCHANGED storeVars
  BY <1>1, <1>17 DEF storeVars, StepSound, Preserving, At, disk, history, Valid
<1>18. CASE Prune
  <2>1. \A s \in Slots : view'[s] = view[s]
    BY <1>1, <1>18, PruneFacts
  <2>2. /\ view'.incoming = view.incoming /\ view'.current = view.current
        /\ view'.previous = view.previous
    BY <2>1 DEF Slots
  <2>3. /\ step = "prune" /\ step' \in {"prune", "preserve"}
        /\ UNCHANGED <<rotten, saves, then, saving, chosen, refused, promised, fallback>>
    BY <1>18 DEF Prune, history
  <2>4. Preserving /\ Preserving' /\ \A s \in Slots : Valid(view, s)' <=> Valid(view, s)
    BY <2>1, <2>3 DEF Preserving, At, Valid
  <2>5. /\ ~ At("check")' /\ ~ At("promote")' /\ ~ At("acknowledge")'
    BY <2>3 DEF At
  <2>6. \A s \in refused : s \in Slots
    BY <1>1 DEF StoreTypeOK
  <2>7. Valid(view, "incoming")' = Valid(view, "incoming")
        /\ Valid(view, "current")' = Valid(view, "current")
    BY <2>2, <2>3 DEF Valid
  <2> HIDE DEF At
  <2> QED BY <1>1, <2>1, <2>2, <2>3, <2>4, <2>5, <2>6, <2>7 DEF StepSound
<1> QED BY <1>4, <1>5, <1>6, <1>7, <1>8, <1>9, <1>10, <1>11, <1>12, <1>13, <1>14, <1>15,
           <1>16, <1>17, <1>18 DEF StoreNext
-----------------------------------------------------------------------------
LEMMA Initially == StoreInit => StoreInv
<1> SUFFICES ASSUME StoreInit PROVE StoreInv
  OBVIOUS
<1>1. StoreTypeOK
  <2>1. Directory(Empty)
    <3>1. DOMAIN Empty = Slots \union {"rejected"} /\ \A s \in Slots : Empty[s] = 0
      BY DEF Empty, Slots
    <3>2. Empty.rejected \in Seq(1..saves) /\ Len(Empty.rejected) = 0
      BY DEF Empty
    <3> QED BY <3>1, <3>2, StoreAssumption DEF Directory, StoreInit
  <2>2. Directory(view) /\ view \in survivors /\ \A d \in survivors : Directory(d)
    BY <2>1 DEF StoreInit
  <2>3. generation \in Seq(Nat) /\ Len(generation) = saves
    BY DEF StoreInit
  <2>4. rotten \subseteq 1..saves /\ refused \subseteq Slots
    BY DEF StoreInit
  <2>5. /\ saves \in Nat /\ chosen \in 0..saves
        /\ promised \in 0..saves /\ fallback \in 0..saves
    BY DEF StoreInit
  <2>6. step = "idle" /\ then = "check" /\ saving \in BOOLEAN /\ vacated \in BOOLEAN
    BY DEF StoreInit
  <2> QED BY <2>2, <2>3, <2>4, <2>5, <2>6 DEF StoreTypeOK
<1>2. DiskSound
  BY DEF StoreInit, Empty, DiskSound, Sound, Good, Few, Pick, Valid, BaseOf, Floor
<1>3. StepSound
  BY DEF StoreInit, StepSound, Preserving, At
<1> QED BY <1>1, <1>2, <1>3 DEF StoreInit, StoreInv

LEMMA Inductive == StoreInv /\ [StoreNext]_storeVars => StoreInv'
<1> SUFFICES ASSUME StoreInv, [StoreNext]_storeVars PROVE StoreInv'
  OBVIOUS
<1>1. StoreTypeOK'
  BY TypeStep DEF StoreInv
<1> QED BY <1>1, DiskStep, StepStep DEF StoreInv

LEMMA Invariant == StoreSpec => []StoreInv
BY Initially, Inductive, PTL DEF StoreSpec

\* Every variable keeps its type, on every directory a power loss may leave too.
THEOREM StoreTypeCorrect == StoreSpec => []StoreTypeOK
<1>1. StoreInv => StoreTypeOK
  BY DEF StoreInv
<1> QED BY <1>1, Invariant, PTL

\* A Campaign a save returned with, or a later one, is what the next boot finds, whatever
\* failed, was interrupted or lost power since.
THEOREM PromisesKept == StoreSpec => []NoPromiseLost
<1>1. StoreInv => NoPromiseLost
  <2> SUFFICES ASSUME StoreInv, rotten = {}, NEW d \in survivors PROVE Pick(d) >= promised
    BY DEF NoPromiseLost
  <2>1. Few /\ Floor = promised
    BY DEF Few, Floor
  <2> QED BY <2>1 DEF StoreInv, DiskSound, Good
<1> QED BY <1>1, Invariant, PTL

\* One damaged generation costs at most the progress since the promise before.
THEOREM OneRotOneGeneration == StoreSpec => []OneRotCostsOneGeneration
<1>1. StoreInv => OneRotCostsOneGeneration
  <2> SUFFICES ASSUME StoreInv, Cardinality(rotten) <= 1, NEW d \in survivors
               PROVE  Pick(d) >= fallback
    BY DEF OneRotCostsOneGeneration
  <2>1. StoreTypeOK
    BY DEF StoreInv
  <2>2. IsFiniteSet(rotten)
    <3>1. saves \in Int /\ rotten \in SUBSET (1..saves)
      BY <2>1 DEF StoreTypeOK
    <3>2. IsFiniteSet(1..saves)
      BY <3>1, FS_Interval
    <3> QED BY <3>1, <3>2, FS_Subset
  <2>3. Cardinality(rotten) = 0 \/ Cardinality(rotten) = 1
    BY <2>2, FS_CardinalityType
  <2>4. Few
    BY <2>2, <2>3, FS_EmptySet, FS_Singleton DEF Few
  <2>5. Pick(d) >= Floor
    BY <2>4 DEF StoreInv, DiskSound, Good
  <2>6. Floor >= fallback
    BY <2>1 DEF StoreInv, Floor, StoreTypeOK
  <2>7. Pick(d) \in Nat
    <3>1. d.incoming \in Nat /\ d.current \in Nat /\ d.previous \in Nat
      BY <2>1 DEF StoreTypeOK, Directory, Slots
    <3> QED BY <3>1 DEF Pick
  <2>8. Floor \in Nat /\ fallback \in Nat
    BY <2>1 DEF StoreTypeOK, Floor
  <2> QED BY <2>5, <2>6, <2>7, <2>8
<1> QED BY <1>1, Invariant, PTL
-----------------------------------------------------------------------------
(* Generation numbers.                                                       *)

\* Until a failure leaves the trusted slot empty, and while nothing is damaged, a save
\* reads its number off a generation no older than the last promise.
GenerationSound ==
  ~ vacated /\ rotten = {} =>
    /\ promised # 0 /\ fallback # 0 => generation[fallback] < generation[promised]
    /\ promised # 0 => \A d \in survivors : \A s \in {"incoming", "current"} :
         d[s] > promised => generation[d[s]] > generation[promised]
    /\ promised # 0 /\ step = "stage" => generation[saves] > generation[promised]
    /\ step = "idle" /\ view.current = 0 => view.previous = 0
    /\ Preserving => chosen # 0
    /\ At("acknowledge") => view.current # 0

\* Nothing but an acknowledged save, a rename, a new save and a failure disturbs it.
LEMMA GenerationStays ==
  ASSUME GenerationSound, generation' = generation, promised' = promised, fallback' = fallback,
         survivors' \subseteq survivors, view' = view, saves' = saves,
         vacated => vacated', rotten \subseteq rotten',
         step' # "stage", step' # "idle" \/ step = "idle",
         Preserving' => chosen' # 0 \/ rotten' # {},
         At("acknowledge")' => view.current # 0
  PROVE  GenerationSound'
BY DEF GenerationSound

\* A rename keeps it when what it puts in the two slots was there before.
LEMMA GenerationMoves ==
  ASSUME GenerationSound, NEW e, NEW next, Move(e, next),
         generation' = generation, promised' = promised, fallback' = fallback,
         vacated' = vacated, rotten' = rotten, chosen' = chosen,
         \A s \in {"incoming", "current"} : e[s] > promised =>
           (promised # 0 => generation[e[s]] > generation[promised]) \/ vacated \/ rotten # {},
         next = "prune" => rotten # {},
         next = "acknowledge" => e.current # 0
  PROVE  GenerationSound'
BY DEF GenerationSound, Move, Preserving, At

LEMMA GenerationStep ==
  ASSUME StoreInv, GenerationSound, [StoreNext]_storeVars
  PROVE  GenerationSound'
<1>1. StoreTypeOK /\ DiskSound /\ StepSound /\ promised >= fallback
  BY DEF StoreInv
<1>2. /\ view.incoming \in 0..saves /\ view.current \in 0..saves /\ view.previous \in 0..saves
      /\ saves \in Nat /\ promised \in 0..saves /\ fallback \in 0..saves /\ view \in survivors
      /\ generation \in Seq(Nat) /\ Len(generation) = saves
  BY <1>1 DEF StoreTypeOK, Directory, Slots
<1>3. rotten = {} => Sound(view) /\ Good(view) /\ Floor = promised
  BY <1>1, <1>2 DEF DiskSound, Few, Floor
<1>4. CASE BeginSave
  <2> SUFFICES ASSUME ~ vacated, rotten = {} PROVE GenerationSound'
    BY <1>4 DEF BeginSave, GenerationSound, history
  <2>1. PICK g \in NextGeneration : generation' = Append(generation, g)
    BY <1>4 DEF BeginSave
  <2>2. \A n \in 1..saves : generation'[n] = generation[n]
    BY <1>2, <2>1
  <2>3. ASSUME promised # 0 PROVE generation'[saves + 1] > generation'[promised]
    <3>1. view.current # 0 /\ view.current >= promised
      BY <1>2, <1>3, <1>4, <2>3 DEF BeginSave, GenerationSound, Good, BaseOf
    <3>2. generation[view.current] >= generation[promised]
      BY <1>2, <2>3, <3>1 DEF GenerationSound
    <3>3. g = generation[view.current] + 1
      BY <3>1 DEF NextGeneration
    <3>4. generation'[saves + 1] = g
      BY <1>2, <2>1, <3>3
    <3>5. generation'[promised] = generation[promised] /\ generation[promised] \in Nat
          /\ generation[view.current] \in Nat
      BY <1>2, <2>2, <2>3, <3>1
    <3> QED BY <3>2, <3>3, <3>4, <3>5
  <2>4. /\ survivors' = survivors /\ view' = view /\ promised' = promised
        /\ fallback' = fallback /\ saves' = saves + 1 /\ step' = "stage"
    BY <1>4 DEF BeginSave, disk, history
  <2>5. \A d \in survivors : \A s \in {"incoming", "current"} : d[s] \in 0..saves
    BY <1>1 DEF StoreTypeOK, Directory, Slots
  <2>6. promised # 0 /\ fallback # 0 => generation'[fallback] < generation'[promised]
    BY <1>2, <2>2 DEF GenerationSound
  <2>7. promised # 0 => \A d \in survivors : \A s \in {"incoming", "current"} :
          d[s] > promised => generation'[d[s]] > generation'[promised]
    <3> SUFFICES ASSUME promised # 0, NEW d \in survivors, NEW s \in {"incoming", "current"},
                        d[s] > promised
                 PROVE  generation'[d[s]] > generation'[promised]
      OBVIOUS
    <3>1. generation[d[s]] > generation[promised]
      BY DEF GenerationSound
    <3>2. d[s] \in 1..saves /\ promised \in 1..saves
      BY <1>2, <2>5
    <3> QED BY <2>2, <3>1, <3>2
  <2> QED BY <2>3, <2>4, <2>6, <2>7 DEF GenerationSound, Preserving, At
<1>5. CASE Stage
  <2> DEFINE e == [view EXCEPT !.incoming = saves]
  <2>1. e.incoming = saves /\ e.current = view.current
    BY <1>1 DEF StoreTypeOK, Directory, Slots
  <2> HIDE DEF e
  <2>2. Move(e, "check")
    BY <1>5 DEF Stage, e
  <2>3. \A s \in {"incoming", "current"} : e[s] > promised =>
          (promised # 0 => generation[e[s]] > generation[promised]) \/ vacated \/ rotten # {}
    BY <1>2, <1>5, <2>1 DEF GenerationSound, Stage
  <2> QED BY <1>5, <2>2, <2>3, GenerationMoves DEF Stage, history
<1>6. CASE Revalidate
  BY <1>1, <1>6, GenerationStays DEF Revalidate, Preserving, At, disk, history, Valid, StepSound
<1>7. CASE Demote
  <2>1. CASE view.current = 0
    BY <1>1, <1>7, <2>1, GenerationStays DEF Demote, Preserving, At, disk, history
  <2>2. CASE view.current # 0
    <3> DEFINE e == [view EXCEPT !.previous = view.current, !.current = 0]
    <3>1. e.incoming = view.incoming /\ e.current = 0
      BY <1>1 DEF StoreTypeOK, Directory, Slots
    <3> HIDE DEF e
    <3>2. Move(e, "promote")
      BY <1>7, <2>2 DEF Demote, e
    <3>3. \A s \in {"incoming", "current"} : e[s] > promised =>
            (promised # 0 => generation[e[s]] > generation[promised]) \/ vacated \/ rotten # {}
      BY <1>2, <3>1 DEF GenerationSound
    <3> QED BY <1>7, <3>2, <3>3, GenerationMoves DEF Demote, history
  <2> QED BY <2>1, <2>2
<1>8. CASE Promote
  <2> DEFINE e == [view EXCEPT !.current = view.incoming, !.incoming = 0]
  <2>1. e.incoming = 0 /\ e.current = view.incoming /\ view.incoming # 0
    BY <1>1, <1>8 DEF StoreTypeOK, Directory, Slots, StepSound, Preserving, At, Promote
  <2> HIDE DEF e
  <2>2. Move(e, "acknowledge")
    BY <1>8 DEF Promote, e
  <2>3. \A s \in {"incoming", "current"} : e[s] > promised =>
          (promised # 0 => generation[e[s]] > generation[promised]) \/ vacated \/ rotten # {}
    BY <1>2, <2>1 DEF GenerationSound
  <2> QED BY <1>8, <2>1, <2>2, <2>3, GenerationMoves DEF Promote, history
<1>9. CASE Acknowledge
  <2> SUFFICES ASSUME ~ vacated, rotten = {} PROVE GenerationSound'
    BY <1>9 DEF Acknowledge, GenerationSound, history
  <2>1. view' = view /\ survivors' = survivors /\ generation' = generation /\ step' = "idle"
    BY <1>9 DEF Acknowledge, disk
  <2>2. view.current # 0
    BY <1>9 DEF Acknowledge, GenerationSound, At
  <2>3. CASE saving
    <3>1. /\ chosen > promised /\ view.current = chosen /\ view.incoming = 0
          /\ survivors = {view} /\ chosen \in Nat
      BY <1>1, <1>9, <2>3 DEF StepSound, Preserving, At, Acknowledge, StoreTypeOK
    <3>2. promised' = chosen /\ fallback' = promised
      BY <1>9, <2>3 DEF Acknowledge
    <3>3. promised # 0 => generation[chosen] > generation[promised]
      BY <1>2, <3>1 DEF GenerationSound
    <3>4. promised # 0 => generation[promised] < generation[chosen]
      BY <1>2, <3>1, <3>3
    <3>5. \A d \in survivors' : \A s \in {"incoming", "current"} : ~ (d[s] > promised')
      BY <2>1, <3>1, <3>2
    <3> QED BY <2>1, <2>2, <3>2, <3>4, <3>5 DEF GenerationSound, Preserving, At
  <2>4. CASE ~ saving
    BY <1>9, <2>1, <2>2, <2>4 DEF Acknowledge, GenerationSound, Preserving, At, history
  <2> QED BY <2>3, <2>4
<1>10. CASE BeginLoad
  <2>1. Pick(view) # 0 \/ rotten # {}
    BY <1>10 DEF BeginLoad, Pick, Valid, Slots
  <2> QED BY <1>10, <2>1, GenerationStays DEF BeginLoad, Preserving, At, disk, history
<1>11. CASE SetAside
  <2> DEFINE s == Newest(refused)
  <2>1. s \in refused
    BY <1>1, <1>11 DEF SetAside, Newest, Slots, StoreTypeOK
  <2>2. rotten # {}
    BY <1>1, <1>11, <2>1 DEF SetAside, StepSound, Preserving, At
  <2> QED BY <1>11, <2>2 DEF SetAside, GenerationSound
<1>12. CASE Recover
  <2> SUFFICES ASSUME ~ vacated, rotten = {} PROVE GenerationSound'
    BY <1>12 DEF Recover, GenerationSound, history
  <2>1. chosen # 0 /\ refused = {} /\ step = "preserve"
    BY <1>12 DEF Recover, GenerationSound, Preserving, At
  <2>2. ~ (chosen = view.previous /\ chosen # view.current /\ chosen # view.incoming)
    <3> SUFFICES ASSUME chosen = view.previous PROVE FALSE
      OBVIOUS
    <3>1. view.incoming = 0 /\ view.current = 0
      BY <1>1, <2>1 DEF StepSound, Preserving, At
    <3> QED BY <1>3, <2>1, <3>1 DEF Good
  <2>3. UNCHANGED disk /\ ((step' = "acknowledge" /\ view.current # 0) \/ step' = "demote")
    BY <1>1, <1>12, <2>1, <2>2 DEF Recover, StepSound, Preserving, At, FromFallback
  <2> QED BY <1>12, <2>3, GenerationStays DEF Recover, Preserving, At, disk, history
<1>13. CASE Sync
  <2>1. then \in {"check", "promote", "acknowledge", "prune"}
    BY <1>1 DEF StoreTypeOK
  <2>2. survivors' \subseteq survivors
    BY <1>2, <1>13 DEF Sync
  <2>3. Preserving' => chosen' # 0 \/ rotten' # {} \/ vacated
    BY <1>13, <2>1 DEF Sync, Preserving, At, GenerationSound
  <2>4. At("acknowledge")' => view.current # 0 \/ rotten # {} \/ vacated
    BY <1>13, <2>1 DEF Sync, Preserving, At, GenerationSound
  <2> QED BY <1>13, <2>1, <2>2, <2>3, <2>4 DEF Sync, Preserving, At, GenerationSound, history
<1>14. CASE Fail
  BY <1>14 DEF Fail, Abandoned, GenerationSound, Preserving, At, disk
<1>15. CASE PowerLoss
  BY <1>15 DEF PowerLoss, Abandoned, GenerationSound, Preserving, At
<1>16. CASE Rot
  BY <1>16 DEF Rot, GenerationSound
<1>17. CASE UNCHANGED storeVars
  BY <1>17 DEF storeVars, GenerationSound, Preserving, At, disk, history
<1>18. CASE Prune
  <2>1. /\ survivors' \subseteq survivors \union {view'} /\ \A s \in Slots : view'[s] = view[s]
    BY <1>1, <1>18, PruneFacts
  <2>2. \A d \in survivors' : \E e \in survivors : \A s \in Slots : d[s] = e[s]
    BY <1>2, <2>1
  <2>3. /\ step = "prune" /\ step' \in {"prune", "preserve"}
        /\ UNCHANGED <<rotten, saves, generation, chosen, promised, fallback, vacated>>
    BY <1>18 DEF Prune, history
  <2>4. Preserving /\ ~ At("acknowledge")'
    BY <2>3 DEF Preserving, At
  <2> QED BY <2>2, <2>3, <2>4 DEF GenerationSound, Slots
<1> QED BY <1>4, <1>5, <1>6, <1>7, <1>8, <1>9, <1>10, <1>11, <1>12, <1>13, <1>14, <1>15,
           <1>16, <1>17, <1>18 DEF StoreNext

\* Acknowledged saves are numbered ascending, until a failure leaves the trusted slot empty.
THEOREM AcknowledgedAscend == StoreSpec => []GenerationsAscend
<1>1. StoreInit => GenerationSound
  BY DEF StoreInit, Empty, GenerationSound, Preserving, At
<1>2. StoreInv /\ GenerationSound /\ [StoreNext]_storeVars => GenerationSound'
  BY GenerationStep
<1>3. GenerationSound => GenerationsAscend
  BY DEF GenerationSound, GenerationsAscend
<1> QED BY <1>1, <1>2, <1>3, Invariant, PTL DEF StoreSpec
=============================================================================
