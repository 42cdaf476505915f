-------------------------- MODULE CommandWire_proofs --------------------------
(***************************************************************************)
(* What is proved of CommandWire for any lines, connections and window: the *)
(* two safety properties of the request path, whatever breaks and whenever  *)
(* a handler is slow.                                                       *)
(***************************************************************************)
EXTENDS CommandWire, SequenceTheorems, TLAPS

\* The mutex is held by the one call on the kept connection that is in progress.
MutexSound ==
  /\ \A r \in Requests : mutex = r <=> (r \notin Async /\ phase[r] \in {"cached", "fresh"})
  /\ \A r \in Requests : phase[r] = "cached" => cached # None /\ r \notin Async
  /\ \A r \in Requests \ Async : phase[r] = "fresh" => cached = None
  /\ cached # None => phase[cached] = "done" /\ cached \notin Async

\* A connection carries one line of the call that is waiting on it, or the answer to it,
\* while no line has failed on it.
InHand(c) == IF handling[c] = None THEN 0 ELSE 1
Quiet(c) == unread[c] = <<>> /\ handling[c] = None /\ replies[c] = <<>>
Carries(c, r) ==
  /\ Len(unread[c]) + InHand(c) + Len(replies[c]) <= 1
  /\ unread[c] # <<>> => Head(unread[c]) = r
  /\ handling[c] # None => handling[c] = r
  /\ replies[c] # <<>> => Head(replies[c]).to = r

\* A connection that can be read from holds what its user waits for and nothing else.
PipeSound ==
  /\ \A c \in Requests : phase[c] \in {"new", "cached"} => Quiet(c) /\ c \notin broken
  /\ \A r \in Requests : phase[r] \in {"cached", "fresh"} =>
       IF On(r) \in broken THEN replies[On(r)] = <<>> ELSE Carries(On(r), r)
  /\ cached # None /\ mutex = None =>
       IF cached \in broken THEN replies[cached] = <<>> ELSE Quiet(cached)

\* Who was answered was carried out.
AnsweredSound ==
  /\ \A i \in DOMAIN answered : times[answered[i]] > 0
  /\ \A c \in Requests : \A i \in DOMAIN replies[c] :
       replies[c][i].says = "ok" => times[replies[c][i].to] > 0

\* A line carried out once is remembered until a window of others was carried out.
WindowSound ==
  /\ DuplicateNeedsFullWindow
  /\ \A r \in Requests :
       /\ times[r] = 0 => since[r] = 0
       /\ times[r] = 1 /\ since[r] < Window =>
            since[r] < Len(answered) /\ answered[Len(answered) - since[r]] = r

HandlerSound == \A c \in Requests : lock = c => handling[c] # None

IInv == /\ TypeOK /\ MutexSound /\ PipeSound /\ HandlerSound
        /\ AnsweredSound /\ WindowSound /\ OwnReply
-----------------------------------------------------------------------------
\* A line carried out or an answer sent, whatever the connection.
LEMMA ReplyType ==
  ASSUME TypeOK, NEW c \in Requests, NEW says \in {"ok", "busy"}, handling[c] # None,
         Reply_(c, says)
  PROVE  replies' \in [Requests -> Seq(Reply)] /\ handling' \in [Requests -> Maybe]
<1>1. [to |-> handling[c], says |-> says] \in Reply
  BY DEF TypeOK, Maybe, Reply
<1>2. Append(replies[c], [to |-> handling[c], says |-> says]) \in Seq(Reply)
  BY <1>1 DEF TypeOK
<1> QED BY <1>2 DEF Reply_, TypeOK, Maybe

\* The window never outgrows its bound.
LEMMA RememberType ==
  ASSUME TypeOK, NEW r \in Requests, Remember(r)
  PROVE  answered' \in Seq(Requests) /\ Len(answered') <= Window
<1> DEFINE all == Append(answered, r)
<1>1. all \in Seq(Requests) /\ Len(all) = Len(answered) + 1
  BY DEF TypeOK
<1>2. CASE Len(all) > Window
  <2>1. answered' = Tail(all)
    BY <1>2 DEF Remember
  <2>2. Tail(all) \in Seq(Requests) /\ Len(Tail(all)) = Len(all) - 1
    BY <1>1, <1>2, HeadTailProperties, WireAssumption
  <2>3. Len(answered) \in Nat /\ Len(answered) <= Window /\ Window \in Nat
    BY WireAssumption DEF TypeOK
  <2> QED BY <1>1, <2>1, <2>2, <2>3
<1>3. CASE ~ (Len(all) > Window)
  BY <1>1, <1>3, WireAssumption DEF Remember
<1> QED BY <1>2, <1>3

LEMMA TypeStep ==
  ASSUME TypeOK, MutexSound, HandlerSound, [Next]_vars
  PROVE  TypeOK'
<1>1. \A r \in Requests : phase[r] \in {"cached", "fresh"} => On(r) \in Requests
  BY DEF TypeOK, MutexSound, On, Maybe
<1>2. ASSUME NEW r \in Requests, StartKept(r) PROVE TypeOK'
  <2>1. \A c \in Requests : Append(unread[c], r) \in Seq(Requests)
    BY DEF TypeOK
  <2> QED BY <1>2, <2>1 DEF StartKept, Write, TypeOK, Maybe, daemonVars
<1>3. ASSUME NEW r \in Requests, StartSpent(r) PROVE TypeOK'
  BY <1>3 DEF StartSpent, TypeOK, Maybe, Told, Failure, daemonVars
<1>4. ASSUME NEW r \in Requests, StartAsync(r) PROVE TypeOK'
  <2>1. Append(unread[r], r) \in Seq(Requests)
    BY DEF TypeOK
  <2> QED BY <1>4, <2>1 DEF StartAsync, Write, TypeOK, daemonVars
<1>5. ASSUME NEW r \in Requests, ReadReply(r) PROVE TypeOK'
  <2>1. On(r) \in Requests /\ replies[On(r)] \in Seq(Reply) /\ replies[On(r)] # <<>>
    BY <1>1, <1>5 DEF ReadReply, TypeOK
  <2>2. Head(replies[On(r)]) \in Reply /\ Tail(replies[On(r)]) \in Seq(Reply)
    BY <2>1, HeadTailProperties
  <2> QED BY <1>5, <2>1, <2>2 DEF ReadReply, Return, TypeOK, Maybe, Told, daemonVars
<1>6. ASSUME NEW r \in Requests, Resend(r) PROVE TypeOK'
  <2>1. Append(unread[r], r) \in Seq(Requests)
    BY DEF TypeOK
  <2> QED BY <1>6, <2>1 DEF Resend, Write, TypeOK, Maybe, daemonVars
<1>7. ASSUME NEW r \in Requests, GiveUp(r) PROVE TypeOK'
  BY <1>1, <1>7 DEF GiveUp, Return, DroppedOnFailure, TypeOK, Maybe, Told, Failure, daemonVars
<1>8. ASSUME NEW c \in Requests, Break(c) PROVE TypeOK'
  <2>1. unread' \in [Requests -> Seq(Requests)] /\ replies' \in [Requests -> Seq(Reply)]
    <3>1. <<>> \in Seq(Requests) /\ <<>> \in Seq(Reply)
      OBVIOUS
    <3>2. [unread EXCEPT ![c] = <<>>] \in [Requests -> Seq(Requests)]
      BY <3>1 DEF TypeOK
    <3>3. [replies EXCEPT ![c] = <<>>] \in [Requests -> Seq(Reply)]
      BY <3>1 DEF TypeOK
    <3> QED BY <1>8, <3>2, <3>3 DEF Break, TypeOK
  <2> QED BY <1>8, <2>1 DEF Break, TypeOK, shimVars, daemonVars
<1>9. ASSUME NEW c \in Requests, ReadLine(c) PROVE TypeOK'
  <2>1. Head(unread[c]) \in Requests /\ Tail(unread[c]) \in Seq(Requests)
    BY <1>9, HeadTailProperties DEF ReadLine, TypeOK
  <2> QED BY <1>9, <2>1 DEF ReadLine, TypeOK, Maybe, shimVars
<1>10. ASSUME NEW c \in Requests, TakeLock(c) PROVE TypeOK'
  BY <1>10 DEF TakeLock, TypeOK, Maybe, shimVars
<1>11. ASSUME NEW c \in Requests, Shed(c) PROVE TypeOK'
  BY <1>11, ReplyType DEF Shed, TypeOK, shimVars
<1>12. ASSUME NEW c \in Requests, Answer(c) PROVE TypeOK'
  <2>1. handling[c] \in Requests
    BY <1>12 DEF Answer, HandlerSound, TypeOK, Maybe
  <2>2. replies' \in [Requests -> Seq(Reply)] /\ handling' \in [Requests -> Maybe]
    BY <1>12, <2>1, ReplyType, WireAssumption DEF Answer
  <2>3. /\ answered' \in Seq(Requests) /\ Len(answered') <= Window
        /\ times' \in [Requests -> Nat] /\ since' \in [Requests -> Nat]
    <3>1. CASE UNCHANGED <<answered, times, since>>
      BY <3>1 DEF TypeOK
    <3>2. CASE CarryOut(handling[c])
      <4>1. answered' \in Seq(Requests) /\ Len(answered') <= Window
        BY <2>1, <3>2, RememberType DEF CarryOut
      <4>2. times' \in [Requests -> Nat]
        BY <2>1, <3>2 DEF CarryOut, TypeOK
      <4>3. since' \in [Requests -> Nat]
        BY <3>2 DEF CarryOut, TypeOK
      <4> QED BY <4>1, <4>2, <4>3
    <3> QED BY <1>12, <3>1, <3>2 DEF Answer
  <2> QED BY <1>12, <2>2, <2>3 DEF Answer, TypeOK, Maybe, shimVars
<1>13. CASE UNCHANGED vars
  BY <1>13 DEF vars, shimVars, daemonVars, TypeOK
<1> QED BY <1>2, <1>3, <1>4, <1>5, <1>6, <1>7, <1>8, <1>9, <1>10, <1>11, <1>12, <1>13 DEF Next

\* The mutex and the cache.
LEMMA MutexStep ==
  ASSUME TypeOK, MutexSound, HandlerSound, [Next]_vars
  PROVE  MutexSound' /\ HandlerSound'
<1>1. ASSUME NEW r \in Requests, StartKept(r) PROVE MutexSound' /\ HandlerSound'
  <2>1. \A q \in Requests :
          phase'[q] = IF q # r THEN phase[q] ELSE IF cached # None THEN "cached" ELSE "fresh"
    BY <1>1 DEF StartKept, TypeOK
  <2>2. /\ cached' = cached /\ cached \in Maybe /\ mutex = None /\ mutex' = r
        /\ HandlerSound' /\ phase[r] = "new" /\ r \notin Async
    BY <1>1 DEF StartKept, HandlerSound, daemonVars, TypeOK
  <2>3. \A q \in Requests : mutex' = q <=> (q \notin Async /\ phase'[q] \in {"cached", "fresh"})
    BY <2>1, <2>2, WireAssumption DEF MutexSound
  <2>4. cached # None => phase'[cached] = "done"
    BY <2>1, <2>2 DEF MutexSound, Maybe
  <2> QED BY <2>1, <2>2, <2>3, <2>4, WireAssumption DEF MutexSound
<1>2. ASSUME NEW r \in Requests, StartSpent(r) PROVE MutexSound' /\ HandlerSound'
  <2>1. \A q \in Requests : phase'[q] = IF q = r THEN "done" ELSE phase[q]
    BY <1>2 DEF StartSpent, TypeOK
  <2>2. cached' = None /\ mutex' = mutex /\ mutex = None /\ HandlerSound' /\ phase[r] = "new"
    BY <1>2 DEF StartSpent, HandlerSound, daemonVars
  <2> QED BY <2>1, <2>2, WireAssumption DEF MutexSound
<1>3. ASSUME NEW r \in Requests, StartAsync(r) PROVE MutexSound' /\ HandlerSound'
  BY <1>3, WireAssumption DEF StartAsync, MutexSound, HandlerSound, TypeOK, Maybe, daemonVars
<1>4. ASSUME NEW r \in Requests, ReadReply(r) PROVE MutexSound' /\ HandlerSound'
  BY <1>4, WireAssumption DEF ReadReply, Return, On, MutexSound, HandlerSound, TypeOK, Maybe,
     daemonVars
<1>5. ASSUME NEW r \in Requests, Resend(r) PROVE MutexSound' /\ HandlerSound'
  <2>1. \A q \in Requests : phase'[q] = IF q = r THEN "fresh" ELSE phase[q]
    BY <1>5 DEF Resend, TypeOK
  <2>2. cached' = None /\ mutex' = mutex /\ HandlerSound' /\ phase[r] = "cached"
    BY <1>5 DEF Resend, HandlerSound, daemonVars
  <2>3. \A q \in Requests : phase[q] = "cached" => q = r
    BY <2>2, WireAssumption DEF MutexSound
  <2> QED BY <2>1, <2>2, <2>3, WireAssumption DEF MutexSound
<1>6. ASSUME NEW r \in Requests, GiveUp(r) PROVE MutexSound' /\ HandlerSound'
  <2>1. \A q \in Requests : phase'[q] = IF q = r THEN "done" ELSE phase[q]
    BY <1>6 DEF GiveUp, Return, TypeOK
  <2>2. /\ cached' = (IF phase[r] = "cached" THEN None ELSE cached) /\ HandlerSound'
        /\ mutex' = IF mutex = r THEN None ELSE mutex
    BY <1>6 DEF GiveUp, Return, DroppedOnFailure, HandlerSound, daemonVars
  <2>3. \A q \in Requests : phase[q] = "cached" /\ phase[r] = "cached" => q = r
    BY WireAssumption DEF MutexSound
  <2>4. \A q \in Requests : mutex' = q <=> (q \notin Async /\ phase'[q] \in {"cached", "fresh"})
    BY <2>1, <2>2, WireAssumption DEF MutexSound
  <2>5. cached' # None => phase'[cached'] = "done" /\ cached' \notin Async
    BY <2>1, <2>2 DEF MutexSound, TypeOK, Maybe
  <2>6. \A q \in Requests : phase'[q] = "cached" => cached' # None /\ q \notin Async
    BY <2>1, <2>2, <2>3 DEF MutexSound
  <2>7. \A q \in Requests \ Async : phase'[q] = "fresh" => cached' = None
    BY <2>1, <2>2 DEF MutexSound
  <2> QED BY <2>2, <2>4, <2>5, <2>6, <2>7 DEF MutexSound
<1>7. ASSUME NEW c \in Requests,
             Break(c) \/ ReadLine(c) \/ TakeLock(c) \/ Shed(c) \/ Answer(c)
      PROVE  MutexSound'
  BY <1>7 DEF Break, ReadLine, TakeLock, Shed, Answer, MutexSound, shimVars
<1>8. ASSUME NEW c \in Requests, Break(c) \/ ReadLine(c) \/ TakeLock(c) PROVE HandlerSound'
  <2>1. CASE ReadLine(c)
    <3>1. Head(unread[c]) # None
      BY <2>1, HeadTailProperties, WireAssumption DEF ReadLine, TypeOK
    <3> QED BY <2>1, <3>1 DEF ReadLine, HandlerSound, TypeOK
  <2> QED BY <1>8, <2>1 DEF Break, TakeLock, HandlerSound, daemonVars
<1>9. ASSUME NEW c \in Requests, Shed(c) \/ Answer(c) PROVE HandlerSound'
  BY <1>9, WireAssumption DEF Shed, Answer, Reply_, HandlerSound, TypeOK
<1>10. CASE UNCHANGED vars
  BY <1>10 DEF vars, shimVars, daemonVars, MutexSound, HandlerSound
<1> QED BY <1>1, <1>2, <1>3, <1>4, <1>5, <1>6, <1>7, <1>8, <1>9, <1>10 DEF Next
-----------------------------------------------------------------------------
(* What a connection carries.                                                *)

\* A sequence of at most one.
LEMMA Pipe ==
  ASSUME NEW S, NEW q \in Seq(S)
  PROVE  /\ Len(q) \in Nat /\ (q = <<>> <=> Len(q) = 0)
         /\ q # <<>> => /\ Head(q) \in S /\ Tail(q) \in Seq(S) /\ Len(Tail(q)) = Len(q) - 1
         /\ Len(q) = 1 => Tail(q) = <<>>
         /\ \A e \in S : q = <<>> => Append(q, e) = <<e>> /\ Head(<<e>>) = e /\ Len(<<e>>) = 1
<1>1. Len(q) \in Nat /\ (q = <<>> <=> Len(q) = 0)
  BY EmptySeq
<1>2. q # <<>> => Head(q) \in S /\ Tail(q) \in Seq(S) /\ Len(Tail(q)) = Len(q) - 1
  BY HeadTailProperties
<1>3. Len(q) = 1 => Tail(q) = <<>>
  <2> SUFFICES ASSUME Len(q) = 1 PROVE Tail(q) = <<>>
    OBVIOUS
  <2>1. Tail(q) \in Seq(S) /\ Len(Tail(q)) = 0
    BY <1>1, <1>2
  <2> QED BY <2>1, EmptySeq
<1>4. \A e \in S : q = <<>> => Append(q, e) = <<e>> /\ Head(<<e>>) = e /\ Len(<<e>>) = 1
  OBVIOUS
<1> QED BY <1>1, <1>2, <1>3, <1>4

LEMMA OneOfThree ==
  ASSUME NEW i \in Nat, NEW j \in Nat, NEW k \in Nat, i + j + k <= 1
  PROVE  /\ i # 0 => i = 1 /\ j = 0 /\ k = 0
         /\ k # 0 => k = 1 /\ i = 0 /\ j = 0
OBVIOUS

\* Two calls in progress wait on two connections.
LEMMA Apart ==
  ASSUME TypeOK, MutexSound, NEW r \in Requests, NEW q \in Requests, r # q,
         phase[r] \in {"cached", "fresh"}, phase[q] \in {"cached", "fresh"}
  PROVE  On(r) # On(q)
BY WireAssumption DEF MutexSound, On, TypeOK, Maybe

\* A connection somebody waits on is his own or the cached one.
LEMMA OnType ==
  ASSUME TypeOK, MutexSound, NEW r \in Requests, phase[r] \in {"cached", "fresh"}
  PROVE  /\ On(r) \in Requests
         /\ phase[On(r)] \in {"fresh", "done"}
         /\ phase[r] = "fresh" => On(r) = r
         /\ phase[r] = "cached" => On(r) = cached /\ On(r) # r
BY DEF MutexSound, On, TypeOK, Maybe

Same(c) == unread'[c] = unread[c] /\ handling'[c] = handling[c] /\ replies'[c] = replies[c]

LEMMA SameCarries ==
  ASSUME NEW c, Same(c)
  PROVE  Quiet(c)' = Quiet(c) /\ \A r \in Requests : Carries(c, r)' = Carries(c, r)
BY DEF Same, Quiet, Carries, InHand

\* The line a call writes to a quiet connection is all that connection carries.
LEMMA WriteCarries ==
  ASSUME TypeOK, NEW r \in Requests, NEW c \in Requests, Quiet(c), Write(r, c),
         handling' = handling, replies' = replies
  PROVE  Carries(c, r)' /\ \A d \in Requests \ {c} : Same(d)
<1>1. unread'[c] = <<r>> /\ \A d \in Requests \ {c} : unread'[d] = unread[d]
  BY Pipe DEF Write, Quiet, TypeOK
<1>2. Len(<<r>>) = 1 /\ Head(<<r>>) = r /\ Len(<<>>) = 0
  OBVIOUS
<1>3. Carries(c, r)'
  BY <1>1, <1>2 DEF Carries, Quiet, InHand
<1> QED BY <1>1, <1>3 DEF Same

\* A handler thread moves what its connection carries and adds nothing to it.
LEMMA HandlerCarries ==
  ASSUME TypeOK, MutexSound, PipeSound, NEW c \in Requests, ~ Quiet(c),
         phase' = phase, cached' = cached, mutex' = mutex, broken' = broken,
         \A d \in Requests \ {c} : Same(d),
         c \in broken /\ replies[c] = <<>> => replies'[c] = <<>>,
         c \notin broken => \A r \in Requests : Carries(c, r) => Carries(c, r)'
  PROVE  PipeSound'
<1>1. \A r \in Requests : On(r)' = On(r)
  BY DEF On
<1>2. \A r \in Requests : phase'[r] \in {"cached", "fresh"} =>
        IF On(r)' \in broken' THEN replies'[On(r)'] = <<>> ELSE Carries(On(r), r)'
  <2> SUFFICES ASSUME NEW r \in Requests, phase[r] \in {"cached", "fresh"}
               PROVE  IF On(r) \in broken THEN replies'[On(r)] = <<>> ELSE Carries(On(r), r)'
    BY <1>1
  <2>1. On(r) \in Requests
    BY OnType
  <2>2. IF On(r) \in broken THEN replies[On(r)] = <<>> ELSE Carries(On(r), r)
    BY DEF PipeSound
  <2>3. CASE On(r) = c
    BY <1>1, <2>2, <2>3
  <2>4. CASE On(r) # c
    <3>1. Same(On(r))
      BY <2>1, <2>4
    <3>2. Same(On(r)) => Carries(On(r), r)' = Carries(On(r), r)
      BY <1>1 DEF Same, Carries, InHand
    <3> QED BY <2>2, <3>1, <3>2 DEF Same
  <2> QED BY <2>3, <2>4
<1>3. \A d \in Requests : phase[d] \in {"new", "cached"} => Quiet(d)' /\ d \notin broken
  <2> SUFFICES ASSUME NEW d \in Requests, phase[d] \in {"new", "cached"}
               PROVE  Quiet(d)' /\ d \notin broken
    OBVIOUS
  <2>1. Quiet(d) /\ d \notin broken /\ d # c
    BY DEF PipeSound
  <2> QED BY <2>1, SameCarries
<1>4. cached # None /\ mutex = None =>
        IF cached \in broken THEN replies'[cached] = <<>> ELSE Quiet(cached)'
  <2> SUFFICES ASSUME cached # None, mutex = None
               PROVE  IF cached \in broken THEN replies'[cached] = <<>> ELSE Quiet(cached)'
    OBVIOUS
  <2>1. cached \in Requests
    BY DEF TypeOK, Maybe
  <2>2. IF cached \in broken THEN replies[cached] = <<>> ELSE Quiet(cached)
    BY DEF PipeSound
  <2>3. CASE cached = c
    BY <2>2, <2>3
  <2>4. CASE cached # c
    BY <2>1, <2>2, <2>4 DEF Same, Quiet
  <2> QED BY <2>3, <2>4
<1> QED BY <1>1, <1>2, <1>3, <1>4 DEF PipeSound

LEMMA PipeStep ==
  ASSUME TypeOK, MutexSound, HandlerSound, PipeSound, [Next]_vars
  PROVE  PipeSound'
<1> DEFINE Using(r) == IF On(r) \in broken THEN replies[On(r)] = <<>> ELSE Carries(On(r), r)
           Idle == cached # None /\ mutex = None =>
                     IF cached \in broken THEN replies[cached] = <<>> ELSE Quiet(cached)
           Unused(c) == phase[c] \in {"new", "cached"} => Quiet(c) /\ c \notin broken
<1>1. ASSUME NEW r \in Requests, StartKept(r) PROVE PipeSound'
  <2> DEFINE c == IF cached # None THEN cached ELSE r
  <2>1. \A q \in Requests :
          phase'[q] = IF q # r THEN phase[q] ELSE IF cached # None THEN "cached" ELSE "fresh"
    BY <1>1 DEF StartKept, TypeOK
  <2>2. /\ cached' = cached /\ mutex = None /\ mutex' = r /\ phase[r] = "new"
        /\ broken' = broken /\ handling' = handling /\ replies' = replies
        /\ Write(r, c) /\ c \in Requests /\ r # None
    BY <1>1, WireAssumption DEF StartKept, TypeOK, Maybe, daemonVars
  <2>3. On(r)' = c /\ \A q \in Requests : phase[q] \in {"cached", "fresh"} => q # r /\ On(q)' = On(q)
    BY <2>1, <2>2 DEF On
  <2>4. \A q \in Requests : phase[q] \in {"cached", "fresh"} => On(q) # c /\ On(q) \in Requests
    <3> SUFFICES ASSUME NEW q \in Requests, phase[q] \in {"cached", "fresh"}
                 PROVE  On(q) # c /\ On(q) \in Requests
      OBVIOUS
    <3>1. phase[q] = "fresh" /\ On(q) = q
      BY <2>2, WireAssumption DEF MutexSound, On
    <3> QED BY <2>2, <3>1 DEF MutexSound
  <2>5. \A d \in Requests \ {c} : Same(d)
    BY <2>2, WriteCarries DEF Write, Same, TypeOK
  <2>6. IF c \in broken THEN replies'[c] = <<>> ELSE Carries(c, r)'
    BY <2>2, WriteCarries DEF PipeSound
  <2>7. \A q \in Requests : phase'[q] \in {"cached", "fresh"} => Using(q)'
    BY <2>1, <2>2, <2>3, <2>4, <2>5, <2>6, SameCarries DEF PipeSound, Same
  <2>8. \A d \in Requests : Unused(d)'
    <3> SUFFICES ASSUME NEW d \in Requests, phase'[d] \in {"new", "cached"} PROVE Quiet(d)' /\ d \notin broken
      BY <2>2
    <3>1. d # c /\ phase[d] \in {"new", "cached"}
      BY <2>1, <2>2 DEF MutexSound
    <3> QED BY <2>5, <3>1, SameCarries DEF PipeSound
  <2> QED BY <2>2, <2>7, <2>8 DEF PipeSound
<1>2. ASSUME NEW r \in Requests, StartSpent(r) PROVE PipeSound'
  <2>1. \A q \in Requests : phase'[q] = IF q = r THEN "done" ELSE phase[q]
    BY <1>2 DEF StartSpent, TypeOK
  <2>2. /\ cached' = None /\ mutex = None /\ broken' = broken \union ({cached} \ {None})
        /\ phase[r] = "new" /\ unread' = unread /\ handling' = handling /\ replies' = replies
    BY <1>2 DEF StartSpent, daemonVars
  <2>3. \A c \in Requests : Same(c)
    BY <2>2 DEF Same
  <2>4. \A q \in Requests : phase'[q] \in {"cached", "fresh"} =>
          On(q)' = On(q) /\ On(q) = q /\ On(q) # cached /\ phase[q] = "fresh"
    BY <2>1, <2>2, WireAssumption DEF On, MutexSound
  <2>5. \A q \in Requests : phase'[q] \in {"cached", "fresh"} => Using(q)'
    BY <2>2, <2>3, <2>4, SameCarries DEF PipeSound, Same
  <2>6. \A d \in Requests : Unused(d)'
    BY <2>1, <2>2, <2>3, SameCarries DEF PipeSound, MutexSound
  <2> QED BY <2>2, <2>5, <2>6 DEF PipeSound
<1>3. ASSUME NEW r \in Requests, StartAsync(r) PROVE PipeSound'
  <2>1. \A q \in Requests : phase'[q] = IF q = r THEN "fresh" ELSE phase[q]
    BY <1>3 DEF StartAsync, TypeOK
  <2>2. /\ cached' = cached /\ mutex' = mutex /\ phase[r] = "new" /\ Quiet(r) /\ Write(r, r)
        /\ broken' = broken /\ handling' = handling /\ replies' = replies
    BY <1>3 DEF StartAsync, daemonVars, PipeSound
  <2>3. Carries(r, r)' /\ \A d \in Requests \ {r} : Same(d)
    BY <2>2, WriteCarries
  <2>4. \A q \in Requests : phase[q] \in {"cached", "fresh"} =>
          q # r /\ On(q)' = On(q) /\ On(q) # r /\ On(q) \in Requests
    BY <2>1, <2>2, OnType DEF On
  <2>5. On(r)' = r
    BY <2>1 DEF On
  <2>6. \A q \in Requests : phase'[q] \in {"cached", "fresh"} => Using(q)'
    <3> SUFFICES ASSUME NEW q \in Requests, phase'[q] \in {"cached", "fresh"} PROVE Using(q)'
      OBVIOUS
    <3>1. CASE q = r
      BY <2>2, <2>3, <2>5, <3>1 DEF PipeSound
    <3>2. CASE q # r
      BY <2>1, <2>2, <2>3, <2>4, <3>2, SameCarries DEF PipeSound, Same
    <3> QED BY <3>1, <3>2
  <2>7. \A d \in Requests : Unused(d)'
    BY <2>1, <2>2, <2>3, SameCarries DEF PipeSound
  <2>8. cached # None => cached \in Requests \ {r}
    BY <2>2 DEF MutexSound, TypeOK, Maybe
  <2>9. Idle'
    BY <2>2, <2>3, <2>8, SameCarries DEF PipeSound, Same
  <2> QED BY <2>6, <2>7, <2>9 DEF PipeSound
<1>4. ASSUME NEW r \in Requests, Resend(r) PROVE PipeSound'
  <2>1. \A q \in Requests : phase'[q] = IF q = r THEN "fresh" ELSE phase[q]
    BY <1>4 DEF Resend, TypeOK
  <2>2. /\ cached' = None /\ mutex' = mutex /\ phase[r] = "cached" /\ Quiet(r) /\ Write(r, r)
        /\ broken' = broken /\ handling' = handling /\ replies' = replies
    BY <1>4 DEF Resend, daemonVars, PipeSound
  <2>3. Carries(r, r)' /\ \A d \in Requests \ {r} : Same(d)
    BY <2>2, WriteCarries
  <2>4. \A q \in Requests : phase[q] = "cached" => q = r
    BY <2>2, WireAssumption DEF MutexSound
  <2>5. \A q \in Requests \ {r} : phase[q] \in {"cached", "fresh"} => On(q)' = On(q) /\ On(q) = q
    BY <2>1, <2>4 DEF On
  <2>6. On(r)' = r
    BY <2>1 DEF On
  <2>7. \A q \in Requests : phase'[q] \in {"cached", "fresh"} => Using(q)'
    <3> SUFFICES ASSUME NEW q \in Requests, phase'[q] \in {"cached", "fresh"} PROVE Using(q)'
      OBVIOUS
    <3>1. CASE q = r
      BY <2>2, <2>3, <2>6, <3>1 DEF PipeSound
    <3>2. CASE q # r
      BY <2>1, <2>2, <2>3, <2>5, <3>2, SameCarries DEF PipeSound, Same
    <3> QED BY <3>1, <3>2
  <2>8. \A d \in Requests : Unused(d)'
    BY <2>1, <2>2, <2>3, SameCarries DEF PipeSound
  <2> QED BY <2>2, <2>7, <2>8 DEF PipeSound
<1>5. ASSUME NEW r \in Requests, ReadReply(r) PROVE PipeSound'
  <2>0. PICK c \in Requests : c = On(r)
    BY <1>5, OnType DEF ReadReply
  <2>1. \A q \in Requests : phase'[q] = IF q = r THEN "done" ELSE phase[q]
    BY <1>5 DEF ReadReply, Return, TypeOK
  <2>2. /\ phase[r] \in {"cached", "fresh"} /\ replies[c] # <<>> /\ c \in Requests
        /\ cached' = (IF r \in Async THEN cached ELSE c)
        /\ mutex' = (IF mutex = r THEN None ELSE mutex)
        /\ replies' = [replies EXCEPT ![c] = Tail(@)]
        /\ broken' = broken /\ unread' = unread /\ handling' = handling
    BY <1>5, <2>0 DEF ReadReply, Return, daemonVars
  <2>3. Carries(c, r) /\ c \notin broken
    BY <2>0, <2>2 DEF PipeSound
  <2>4. Quiet(c)'
    <3>1. Len(replies[c]) = 1 /\ Len(unread[c]) = 0 /\ handling[c] = None
      <4>1. /\ Len(replies[c]) \in Nat /\ Len(replies[c]) # 0
            /\ Len(unread[c]) \in Nat /\ InHand(c) \in Nat
        BY <2>2, Pipe DEF TypeOK, InHand
      <4>2. Len(unread[c]) + InHand(c) + Len(replies[c]) <= 1
        BY <2>3 DEF Carries
      <4>3. Len(replies[c]) = 1 /\ Len(unread[c]) = 0 /\ InHand(c) = 0
        BY <4>1, <4>2, OneOfThree
      <4> QED BY <4>3 DEF InHand
    <3>2. Tail(replies[c]) = <<>> /\ unread[c] = <<>>
      BY <2>2, <3>1, Pipe DEF TypeOK
    <3> QED BY <2>2, <3>1, <3>2 DEF Quiet, TypeOK
  <2>5. \A d \in Requests \ {c} : Same(d)
    BY <2>2 DEF Same, TypeOK
  <2>6. \A q \in Requests : phase'[q] \in {"cached", "fresh"} =>
          q # r /\ On(q)' = On(q) /\ On(q) # c /\ On(q) \in Requests
    <3> SUFFICES ASSUME NEW q \in Requests, phase'[q] \in {"cached", "fresh"}
                 PROVE  q # r /\ On(q)' = On(q) /\ On(q) # c /\ On(q) \in Requests
      OBVIOUS
    <3>1. q # r /\ phase'[q] = phase[q] /\ phase[q] \in {"cached", "fresh"}
      BY <2>1
    <3>2. On(q) # c /\ On(q) \in Requests
      BY <2>0, <2>2, <3>1, Apart, OnType
    <3>3. phase[q] = "cached" => r \in Async
      BY <2>2, <3>1, WireAssumption DEF MutexSound
    <3> QED BY <2>2, <3>1, <3>2, <3>3 DEF On
  <2>7. \A q \in Requests : phase'[q] \in {"cached", "fresh"} => Using(q)'
    BY <2>1, <2>2, <2>5, <2>6, SameCarries DEF PipeSound, Same
  <2>8. \A d \in Requests : Unused(d)'
    <3> SUFFICES ASSUME NEW d \in Requests, phase'[d] \in {"new", "cached"}
                 PROVE  Quiet(d)' /\ d \notin broken
      BY <2>2
    <3>1. d # c /\ phase[d] \in {"new", "cached"}
      BY <2>0, <2>1, <2>2, OnType
    <3> QED BY <2>5, <3>1, SameCarries DEF PipeSound
  <2>9. Idle'
    <3>1. CASE r \in Async
      <4>1. mutex' = mutex /\ cached' = cached /\ c = r
        BY <2>0, <2>2, <3>1, OnType, WireAssumption DEF MutexSound, TypeOK, Maybe
      <4>2. cached # None => cached \in Requests \ {r}
        BY <2>2 DEF MutexSound, TypeOK, Maybe
      <4> QED BY <2>2, <2>5, <4>1, <4>2, SameCarries DEF PipeSound, Same
    <3>2. CASE r \notin Async
      BY <2>2, <2>3, <2>4, <3>2
    <3> QED BY <3>1, <3>2
  <2> QED BY <2>7, <2>8, <2>9 DEF PipeSound
<1>6. ASSUME NEW r \in Requests, GiveUp(r) PROVE PipeSound'
  <2> DEFINE c == On(r)
  <2>1. \A q \in Requests : phase'[q] = IF q = r THEN "done" ELSE phase[q]
    BY <1>6 DEF GiveUp, Return, TypeOK
  <2>2. /\ phase[r] \in {"cached", "fresh"} /\ c \in Requests
        /\ cached' = (IF phase[r] = "cached" THEN None ELSE cached)
        /\ mutex' = (IF mutex = r THEN None ELSE mutex)
        /\ broken' = broken \union {c}
        /\ unread' = unread /\ handling' = handling /\ replies' = replies
    BY <1>6, OnType DEF GiveUp, Return, DroppedOnFailure, daemonVars
  <2>3. \A d \in Requests : Same(d)
    BY <2>2 DEF Same
  <2>4. \A q \in Requests : phase'[q] \in {"cached", "fresh"} =>
          q # r /\ On(q)' = On(q) /\ On(q) # c /\ On(q) \in Requests
    <3> SUFFICES ASSUME NEW q \in Requests, phase'[q] \in {"cached", "fresh"}
                 PROVE  q # r /\ On(q)' = On(q) /\ On(q) # c /\ On(q) \in Requests
      OBVIOUS
    <3>1. q # r /\ phase'[q] = phase[q] /\ phase[q] \in {"cached", "fresh"}
      BY <2>1
    <3>2. On(q) # c /\ On(q) \in Requests
      BY <2>2, <3>1, Apart, OnType
    <3>3. phase[q] = "cached" => phase[r] # "cached"
      BY <2>2, <3>1, WireAssumption DEF MutexSound
    <3> QED BY <2>2, <3>1, <3>2, <3>3 DEF On
  <2>5. \A q \in Requests : phase'[q] \in {"cached", "fresh"} => Using(q)'
    BY <2>1, <2>2, <2>3, <2>4, SameCarries DEF PipeSound, Same
  <2>6. \A d \in Requests : Unused(d)'
    <3> SUFFICES ASSUME NEW d \in Requests, phase'[d] \in {"new", "cached"}
                 PROVE  Quiet(d)' /\ d \notin broken'
      OBVIOUS
    <3>1. d # c /\ phase[d] \in {"new", "cached"}
      BY <2>1, <2>2, OnType
    <3> QED BY <2>2, <2>3, <3>1, SameCarries DEF PipeSound
  <2>7. Idle'
    <3> SUFFICES ASSUME cached' # None, mutex' = None PROVE Idle'
      OBVIOUS
    <3>1. phase[r] = "fresh" /\ cached' = cached /\ c = r
      BY <2>2, OnType
    <3>2. mutex = None
      BY <2>2, <3>1, WireAssumption DEF MutexSound
    <3>3. cached \in Requests \ {r}
      BY <3>1 DEF MutexSound, TypeOK, Maybe
    <3> QED BY <2>2, <2>3, <3>1, <3>2, <3>3, SameCarries DEF PipeSound, Same
  <2> QED BY <2>5, <2>6, <2>7 DEF PipeSound
<1>7. ASSUME NEW c \in Requests, Break(c) PROVE PipeSound'
  <2>1. /\ phase' = phase /\ cached' = cached /\ mutex' = mutex /\ handling' = handling
        /\ broken' = broken \union {c} /\ replies' = [replies EXCEPT ![c] = <<>>]
        /\ unread' \in {unread, [unread EXCEPT ![c] = <<>>]}
    BY <1>7 DEF Break, shimVars, daemonVars
  <2>2. phase[c] = "fresh" \/ (cached = c /\ phase[c] = "done")
    BY <1>7, WireAssumption DEF Break, MutexSound
  <2>3. replies'[c] = <<>> /\ \A d \in Requests \ {c} : Same(d)
    BY <2>1 DEF Same, TypeOK
  <2>4. \A q \in Requests : phase[q] \in {"cached", "fresh"} => On(q)' = On(q) /\ On(q) \in Requests
    BY <2>1, OnType DEF On
  <2>5. \A q \in Requests : phase'[q] \in {"cached", "fresh"} => Using(q)'
    <3> SUFFICES ASSUME NEW q \in Requests, phase[q] \in {"cached", "fresh"} PROVE Using(q)'
      BY <2>1
    <3>1. CASE On(q) = c
      BY <2>1, <2>3, <2>4, <3>1
    <3>2. CASE On(q) # c
      BY <2>1, <2>3, <2>4, <3>2, SameCarries DEF PipeSound, Same
    <3> QED BY <3>1, <3>2
  <2>6. \A d \in Requests : Unused(d)'
    BY <2>1, <2>2, <2>3, SameCarries DEF PipeSound
  <2>7. Idle'
    BY <2>1, <2>3, SameCarries DEF PipeSound, Same, TypeOK, Maybe
  <2> QED BY <2>5, <2>6, <2>7 DEF PipeSound
<1>8. ASSUME NEW c \in Requests, ReadLine(c) PROVE PipeSound'
  <2>1. /\ handling[c] = None /\ unread[c] # <<>> /\ replies' = replies
        /\ unread'[c] = Tail(unread[c]) /\ handling'[c] = Head(unread[c])
        /\ \A d \in Requests \ {c} : Same(d)
    BY <1>8 DEF ReadLine, Same, TypeOK
  <2>2. /\ Len(unread'[c]) = Len(unread[c]) - 1 /\ Len(unread[c]) \in Nat /\ Len(unread[c]) # 0
        /\ Head(unread[c]) \in Requests /\ Len(replies[c]) \in Nat
        /\ Len(unread[c]) = 1 => unread'[c] = <<>>
    BY <2>1, Pipe DEF TypeOK
  <2>3. ASSUME NEW r \in Requests, Carries(c, r) PROVE Carries(c, r)'
    <3>1. InHand(c) = 0
      BY <2>1 DEF InHand
    <3>6. InHand(c)' = 1
      BY <2>1, <2>2, WireAssumption DEF InHand
    <3>2. Len(unread[c]) + InHand(c) + Len(replies[c]) <= 1
      BY <2>3 DEF Carries
    <3>3. Len(unread[c]) = 1 /\ Len(replies[c]) = 0
      BY <2>2, <3>1, <3>2, OneOfThree
    <3>7. unread'[c] = <<>> /\ Len(unread'[c]) = 0 /\ Len(replies'[c]) = 0
      BY <2>1, <2>2, <3>3
    <3>4. Len(unread'[c]) + InHand(c)' + Len(replies'[c]) <= 1
      BY <3>6, <3>7
    <3>5. Head(unread[c]) = r /\ replies[c] = <<>>
      BY <2>1, <2>3, <3>3, Pipe DEF Carries, TypeOK
    <3> QED BY <2>1, <3>7, <3>4, <3>5 DEF Carries
  <2>4. ~ Quiet(c) /\ (c \notin broken \/ (replies[c] = <<>> => replies'[c] = <<>>))
    BY <2>1 DEF Quiet
  <2> QED BY <1>8, <2>1, <2>3, <2>4, HandlerCarries DEF ReadLine, shimVars
<1>9. ASSUME NEW c \in Requests, TakeLock(c) PROVE PipeSound'
  <2>1. ~ Quiet(c)
    BY <1>9 DEF TakeLock, Quiet
  <2>2. \A d \in Requests : Same(d)
    BY <1>9 DEF TakeLock, Same
  <2> QED BY <1>9, <2>1, <2>2, HandlerCarries, SameCarries DEF TakeLock, shimVars, Same
<1>10. ASSUME NEW c \in Requests, NEW says \in {"ok", "busy"}, handling[c] # None,
              Reply_(c, says), UNCHANGED <<shimVars, broken, unread>>
       PROVE  PipeSound'
  <2> DEFINE e == [to |-> handling[c], says |-> says]
  <2>1. e \in Reply /\ e.to = handling[c]
    BY <1>10 DEF Reply, TypeOK, Maybe
  <2> HIDE DEF e
  <2>2. /\ handling'[c] = None /\ \A d \in Requests \ {c} : Same(d)
        /\ c \in broken => replies' = replies
        /\ c \notin broken => replies'[c] = Append(replies[c], e)
    BY <1>10 DEF Reply_, Same, TypeOK, e
  <2>3. ~ Quiet(c)
    BY <1>10 DEF Quiet
  <2>4. ASSUME NEW r \in Requests, Carries(c, r), c \notin broken PROVE Carries(c, r)'
    <3>1. InHand(c) = 1 /\ InHand(c)' = 0 /\ handling[c] = r
      BY <1>10, <2>2, <2>4 DEF InHand, Carries
    <3>2. Len(unread[c]) = 0 /\ Len(replies[c]) = 0 /\ unread'[c] = unread[c]
      BY <1>10, <2>4, <3>1, Pipe DEF Carries, TypeOK
    <3>3. unread[c] = <<>> /\ replies[c] = <<>>
      BY <3>2, Pipe DEF TypeOK
    <3>4. replies'[c] = <<e>> /\ Head(<<e>>) = e /\ Len(<<e>>) = 1
      BY <2>1, <2>2, <2>4, <3>3, Pipe DEF TypeOK
    <3> QED BY <2>1, <2>2, <3>1, <3>2, <3>3, <3>4 DEF Carries
  <2> QED BY <1>10, <2>2, <2>3, <2>4, HandlerCarries DEF shimVars
<1>11. ASSUME NEW c \in Requests, Shed(c) PROVE PipeSound'
  BY <1>10, <1>11 DEF Shed
<1>12. ASSUME NEW c \in Requests, Answer(c) PROVE PipeSound'
  BY <1>10, <1>12 DEF Answer, HandlerSound
<1>13. CASE UNCHANGED vars
  <2>1. /\ phase' = phase /\ cached' = cached /\ mutex' = mutex /\ broken' = broken
        /\ unread' = unread /\ handling' = handling /\ replies' = replies
    BY <1>13 DEF vars, shimVars, daemonVars
  <2> QED BY <2>1 DEF PipeSound, Carries, InHand, Quiet, On
<1> QED BY <1>1, <1>2, <1>3, <1>4, <1>5, <1>6, <1>7, <1>8, <1>9, <1>11, <1>12, <1>13 DEF Next
-----------------------------------------------------------------------------
(* What an answer says, and what the window remembers.                       *)

\* A reply that says a line was carried out is true of it.
True(q) == \A i \in DOMAIN q : q[i].says = "ok" => times[q[i].to] > 0

LEMMA AnsweredStep ==
  ASSUME TypeOK, MutexSound, HandlerSound, PipeSound, AnsweredSound, OwnReply, [Next]_vars
  PROVE  AnsweredSound' /\ OwnReply'
<1>1. ASSUME NEW r \in Requests, StartKept(r) \/ StartAsync(r) \/ Resend(r)
      PROVE  AnsweredSound' /\ OwnReply'
  BY <1>1 DEF StartKept, StartAsync, Resend, AnsweredSound, OwnReply, daemonVars
<1>2. ASSUME NEW r \in Requests, StartSpent(r) \/ GiveUp(r) PROVE AnsweredSound' /\ OwnReply'
  <2>1. result' = [result EXCEPT ![r] = Failure]
    BY <1>2 DEF StartSpent, GiveUp, Return
  <2>2. OwnReply'
    BY <1>2, <2>1 DEF StartSpent, GiveUp, OwnReply, Failure, TypeOK, daemonVars
  <2>3. AnsweredSound'
    BY <1>2 DEF StartSpent, GiveUp, AnsweredSound, daemonVars
  <2> QED BY <2>2, <2>3
<1>3. ASSUME NEW r \in Requests, ReadReply(r) PROVE AnsweredSound' /\ OwnReply'
  <2>1. PICK c \in Requests : c = On(r)
    BY <1>3, OnType DEF ReadReply
  <2>2. /\ replies[c] # <<>> /\ replies' = [replies EXCEPT ![c] = Tail(@)]
        /\ result' = [result EXCEPT ![r] = Head(replies[c])]
        /\ phase[r] \in {"cached", "fresh"} /\ times' = times /\ answered' = answered
    BY <1>3, <2>1 DEF ReadReply, Return, daemonVars
  <2>3. replies[c] \in Seq(Reply)
    BY DEF TypeOK
  <2>4. Carries(c, r)
    BY <2>1, <2>2 DEF PipeSound
  <2>5. Head(replies[c]) = replies[c][1] /\ 1 \in DOMAIN replies[c]
    BY <2>2, <2>3
  <2>6. \A i \in DOMAIN Tail(replies[c]) :
          i + 1 \in DOMAIN replies[c] /\ Tail(replies[c])[i] = replies[c][i + 1]
    BY <2>2, <2>3
  <2>7. Head(replies[c]).to = r
    BY <2>2, <2>4 DEF Carries
  <2>8. Head(replies[c]).says = "ok" => times[r] > 0
    BY <2>5, <2>7 DEF AnsweredSound
  <2>9. OwnReply'
    BY <2>2, <2>7, <2>8 DEF OwnReply, TypeOK
  <2>10. \A d \in Requests : True(replies[d])
    BY DEF AnsweredSound, True
  <2>11. True(Tail(replies[c]))
    BY <2>6, <2>10 DEF True
  <2>12. \A d \in Requests : \A i \in DOMAIN replies'[d] :
           replies'[d][i].says = "ok" => times[replies'[d][i].to] > 0
    <3> SUFFICES ASSUME NEW d \in Requests PROVE True(replies'[d])
      BY <2>2 DEF True
    <3>1. replies'[d] = IF d = c THEN Tail(replies[c]) ELSE replies[d]
      BY <2>2 DEF TypeOK
    <3> QED BY <2>10, <2>11, <3>1
  <2> QED BY <2>2, <2>9, <2>12 DEF AnsweredSound
<1>4. ASSUME NEW c \in Requests, Break(c) PROVE AnsweredSound' /\ OwnReply'
  <2>1. /\ replies' = [replies EXCEPT ![c] = <<>>] /\ times' = times /\ answered' = answered
        /\ result' = result
    BY <1>4 DEF Break, shimVars, daemonVars
  <2>2. \A d \in Requests : replies'[d] = IF d = c THEN <<>> ELSE replies[d]
    BY <2>1 DEF TypeOK
  <2> QED BY <2>1, <2>2 DEF AnsweredSound, OwnReply
<1>5. ASSUME NEW c \in Requests, ReadLine(c) \/ TakeLock(c) PROVE AnsweredSound' /\ OwnReply'
  BY <1>5 DEF ReadLine, TakeLock, AnsweredSound, OwnReply, shimVars
<1>6. ASSUME NEW c \in Requests, NEW says \in {"ok", "busy"}, handling[c] # None,
             Reply_(c, says), result' = result,
             \A q \in Requests : times[q] > 0 => times'[q] > 0,
             \A i \in DOMAIN answered' : times'[answered'[i]] > 0,
             says = "ok" => times'[handling[c]] > 0
      PROVE  AnsweredSound' /\ OwnReply'
  <2> DEFINE e == [to |-> handling[c], says |-> says]
  <2>1. e \in Reply /\ e.to = handling[c] /\ e.says = says
    BY <1>6 DEF Reply, TypeOK, Maybe
  <2> HIDE DEF e
  <2>2. ASSUME NEW d \in Requests, NEW i \in DOMAIN replies'[d], replies'[d][i].says = "ok"
        PROVE  times'[replies'[d][i].to] > 0
    <3>1. replies[d] \in Seq(Reply)
      BY DEF TypeOK
    <3>2. CASE i \in DOMAIN replies[d] /\ replies'[d][i] = replies[d][i]
      <4>1. replies[d][i].to \in Requests
        <5>1. replies[d][i] \in Reply
          BY <3>1, <3>2
        <5> QED BY <5>1 DEF Reply
      <4> QED BY <1>6, <2>2, <3>2, <4>1 DEF AnsweredSound
    <3>3. CASE replies'[d][i] = e
      BY <1>6, <2>1, <2>2, <3>3
    <3>4. replies'[d] = replies[d] \/ replies'[d] = Append(replies[d], e)
      BY <1>6 DEF Reply_, TypeOK, e
    <3> QED BY <2>1, <3>1, <3>2, <3>3, <3>4
  <2>3. OwnReply'
    <3> SUFFICES ASSUME NEW r \in Requests, result[r].says = "ok", times[r] > 0 PROVE times'[r] > 0
      BY <1>6 DEF OwnReply
    <3> QED BY <1>6
  <2> QED BY <1>6, <2>2, <2>3 DEF AnsweredSound
<1>7. ASSUME NEW c \in Requests, Shed(c) PROVE AnsweredSound' /\ OwnReply'
  <2>1. \A i \in DOMAIN answered : times[answered[i]] > 0
    BY DEF AnsweredSound
  <2>2. times' = times /\ answered' = answered /\ result' = result
    BY <1>7 DEF Shed, shimVars
  <2> QED BY <1>6, <1>7, <2>1, <2>2 DEF Shed
<1>8. ASSUME NEW c \in Requests, Answer(c) PROVE AnsweredSound' /\ OwnReply'
  <2>1. handling[c] # None /\ handling[c] \in Requests /\ result' = result /\ Reply_(c, "ok")
    BY <1>8 DEF Answer, HandlerSound, TypeOK, Maybe, shimVars
  <2>2. CASE handling[c] \in Range(answered)
    <3>1. times' = times /\ answered' = answered
      BY <1>8, <2>2 DEF Answer
    <3>2. times[handling[c]] > 0
      BY <2>2 DEF Range, AnsweredSound
    <3>3. \A i \in DOMAIN answered : times[answered[i]] > 0
      BY DEF AnsweredSound
    <3> QED BY <1>6, <2>1, <3>1, <3>2, <3>3
  <2>3. CASE handling[c] \notin Range(answered)
    <3> DEFINE r == handling[c]
               all == Append(answered, r)
    <3>1. CarryOut(r)
      BY <1>8, <2>3 DEF Answer
    <3>2. \A q \in Requests : times'[q] = IF q = r THEN times[q] + 1 ELSE times[q]
      BY <3>1 DEF CarryOut, TypeOK
    <3>3. times'[r] > 0 /\ \A q \in Requests : times[q] > 0 => times'[q] > 0
      <4>1. \A q \in Requests : times[q] \in Nat
        BY DEF TypeOK
      <4> QED BY <2>1, <3>2, <4>1
    <3>4. answered \in Seq(Requests) /\ all \in Seq(Requests) /\ Len(all) = Len(answered) + 1
      BY <2>1 DEF TypeOK
    <3>5. \A i \in DOMAIN all : all[i] \in Requests /\ times'[all[i]] > 0
      BY <2>1, <3>3, <3>4 DEF AnsweredSound
    <3>6. answered' = all \/ answered' = Tail(all)
      BY <3>1 DEF CarryOut, Remember
    <3>7. \A i \in DOMAIN Tail(all) : i + 1 \in DOMAIN all /\ Tail(all)[i] = all[i + 1]
      BY <3>4
    <3>8. \A i \in DOMAIN answered' : times'[answered'[i]] > 0
      <4> HIDE DEF all
      <4> QED BY <3>5, <3>6, <3>7
    <3> QED BY <1>6, <2>1, <3>3, <3>8
  <2> QED BY <2>2, <2>3
<1>9. CASE UNCHANGED vars
  BY <1>9 DEF vars, shimVars, daemonVars, AnsweredSound, OwnReply
<1> QED BY <1>1, <1>2, <1>3, <1>4, <1>5, <1>7, <1>8, <1>9 DEF Next

LEMMA WindowStep ==
  ASSUME TypeOK, HandlerSound, AnsweredSound, WindowSound, [Next]_vars
  PROVE  WindowSound'
<1>1. ASSUME times' = times, since' = since, answered' = answered PROVE WindowSound'
  BY <1>1 DEF WindowSound, DuplicateNeedsFullWindow
<1>2. ASSUME NEW c \in Requests, Answer(c) PROVE WindowSound'
  <2>1. handling[c] # None /\ handling[c] \in Requests
    BY <1>2 DEF Answer, HandlerSound, TypeOK, Maybe
  <2>2. CASE handling[c] \in Range(answered)
    BY <1>1, <1>2, <2>2 DEF Answer
  <2>3. CASE handling[c] \notin Range(answered)
    <3> DEFINE all == Append(answered, handling[c])
    <3>1. PICK r \in Requests : r = handling[c]
      BY <2>1
    <3>2. CarryOut(r) /\ r \notin Range(answered)
      BY <1>2, <2>3, <3>1 DEF Answer
    <3>3. \A q \in Requests :
            /\ times[q] \in Nat /\ since[q] \in Nat
            /\ times'[q] = IF q = r THEN times[q] + 1 ELSE times[q]
            /\ since'[q] = IF q # r /\ times[q] = 1 THEN since[q] + 1 ELSE since[q]
      BY <3>2 DEF CarryOut, TypeOK
    <3>4. /\ answered \in Seq(Requests) /\ Len(answered) \in Nat /\ Len(answered) <= Window
          /\ Window \in Nat /\ Window > 0
      BY WireAssumption DEF TypeOK
    <3>5. ASSUME NEW q \in Requests, times[q] = 1, since[q] < Window PROVE q # r
      <4>1. since[q] < Len(answered) /\ answered[Len(answered) - since[q]] = q
        BY <3>5 DEF WindowSound
      <4>2. Len(answered) - since[q] \in DOMAIN answered
        BY <3>3, <3>4, <4>1
      <4>3. q \in Range(answered)
        BY <4>1, <4>2 DEF Range
      <4> QED BY <3>2, <4>3
    <3>6. \A q \in Requests : times'[q] > 1 => since'[q] >= Window
      <4> SUFFICES ASSUME NEW q \in Requests, times'[q] > 1 PROVE since'[q] >= Window
        OBVIOUS
      <4>1. times[q] > 1 => since[q] >= Window
        BY DEF WindowSound, DuplicateNeedsFullWindow
      <4>2. CASE times[q] > 1
        BY <3>3, <3>4, <4>1, <4>2
      <4>3. CASE times[q] = 1
        <5>1. q = r
          BY <3>3, <4>3
        <5>2. since[q] >= Window
          BY <3>3, <3>4, <3>5, <4>3, <5>1
        <5> QED BY <3>3, <5>1, <5>2
      <4> QED BY <3>3, <4>2, <4>3
    <3>7. \A q \in Requests : times'[q] = 0 => since'[q] = 0
      <4> SUFFICES ASSUME NEW q \in Requests, times'[q] = 0 PROVE since'[q] = 0
        OBVIOUS
      <4>1. times[q] = 0 /\ q # r
        BY <3>3
      <4> QED BY <3>3, <4>1 DEF WindowSound
    <3>8. ASSUME NEW q \in Requests, times'[q] = 1, since'[q] < Window
          PROVE  /\ since'[q] <= Len(answered)
                 /\ Append(answered, r)[Len(answered) + 1 - since'[q]] = q
      <4>1. CASE q = r
        <5>1. times[q] = 0 /\ since'[q] = 0
          BY <3>3, <3>8, <4>1 DEF WindowSound
        <5>2. Append(answered, r)[Len(answered) + 1] = q
          BY <3>4, <4>1
        <5> QED BY <3>4, <5>1, <5>2
      <4>2. CASE q # r
        <5>1. times[q] = 1 /\ since'[q] = since[q] + 1
          BY <3>3, <3>8, <4>2
        <5>2. since[q] < Len(answered) /\ answered[Len(answered) - since[q]] = q
          BY <3>3, <3>4, <3>8, <5>1 DEF WindowSound
        <5>3. Len(answered) - since[q] \in 1..Len(answered)
          BY <3>3, <3>4, <5>2
        <5>4. Append(answered, r)[Len(answered) - since[q]] = answered[Len(answered) - since[q]]
          BY <3>4, <5>3
        <5>5. Len(answered) + 1 - since'[q] = Len(answered) - since[q]
          BY <3>3, <3>4, <5>1
        <5> QED BY <3>3, <3>4, <5>1, <5>2, <5>4, <5>5
      <4> QED BY <4>1, <4>2
    <3>9. Append(answered, r) \in Seq(Requests) /\ Len(Append(answered, r)) = Len(answered) + 1
      BY <3>4
    <3>10. ASSUME NEW q \in Requests, times'[q] = 1, since'[q] < Window
           PROVE  since'[q] < Len(answered') /\ answered'[Len(answered') - since'[q]] = q
      <4>1. /\ since'[q] <= Len(answered) /\ since'[q] \in Nat
            /\ Append(answered, r)[Len(answered) + 1 - since'[q]] = q
        <5>1. since'[q] \in Nat
          BY <3>3
        <5> QED BY <3>8, <3>10, <5>1
      <4>2. CASE Len(answered) + 1 > Window
        <5>1. answered' = Tail(Append(answered, r)) /\ Len(answered) = Window
          BY <3>2, <3>4, <3>9, <4>2 DEF CarryOut, Remember
        <5>2. Len(answered') = Len(answered)
          BY <3>4, <3>9, <5>1
        <5>3. since'[q] < Len(answered')
          BY <3>10, <5>1, <5>2
        <5>4. Len(answered) - since'[q] \in 1..Len(answered)
          BY <3>4, <4>1, <5>2, <5>3
        <5>5. answered'[Len(answered) - since'[q]]
                = Append(answered, r)[Len(answered) - since'[q] + 1]
          BY <3>4, <3>9, <5>1, <5>2, <5>4
        <5>6. Len(answered) - since'[q] + 1 = Len(answered) + 1 - since'[q]
          BY <3>4, <4>1
        <5> QED BY <4>1, <5>2, <5>3, <5>5, <5>6
      <4>3. CASE ~ (Len(answered) + 1 > Window)
        <5>1. answered' = Append(answered, r)
          BY <3>2, <3>9, <4>3 DEF CarryOut, Remember
        <5> QED BY <3>4, <3>9, <4>1, <5>1
      <4> QED BY <4>2, <4>3
    <3> QED BY <3>6, <3>7, <3>10 DEF WindowSound, DuplicateNeedsFullWindow
  <2> QED BY <2>2, <2>3
<1>3. CASE UNCHANGED vars
  BY <1>1, <1>3 DEF vars, daemonVars
<1>4. ASSUME NEW r \in Requests,
             StartKept(r) \/ StartSpent(r) \/ StartAsync(r) \/ ReadReply(r) \/ Resend(r) \/ GiveUp(r)
      PROVE  WindowSound'
  BY <1>1, <1>4 DEF StartKept, StartSpent, StartAsync, ReadReply, Resend, GiveUp, daemonVars
<1>5. ASSUME NEW c \in Requests, Break(c) \/ ReadLine(c) \/ TakeLock(c) \/ Shed(c)
      PROVE  WindowSound'
  BY <1>1, <1>5 DEF Break, ReadLine, TakeLock, Shed, daemonVars
<1> QED BY <1>2, <1>3, <1>4, <1>5 DEF Next
-----------------------------------------------------------------------------
LEMMA Initially == Init => IInv
<1> SUFFICES ASSUME Init PROVE IInv
  OBVIOUS
<1>1. TypeOK
  <2>1. <<>> \in Seq(Requests) /\ <<>> \in Seq(Reply) /\ Len(<<>>) = 0
    OBVIOUS
  <2>2. Untold \in Told
    BY DEF Untold, Told
  <2>3. /\ phase \in [Requests -> {"new", "cached", "fresh", "done"}]
        /\ result \in [Requests -> Told] /\ broken \subseteq Requests
        /\ handling \in [Requests -> Maybe]
    BY <2>2 DEF Init, Maybe
  <2>4. unread \in [Requests -> Seq(Requests)] /\ replies \in [Requests -> Seq(Reply)]
    BY <2>1 DEF Init
  <2>5. answered \in Seq(Requests) /\ Len(answered) <= Window
    BY <2>1, WireAssumption DEF Init
  <2> QED BY <2>3, <2>4, <2>5 DEF Init, TypeOK, Maybe
<1>2. MutexSound /\ HandlerSound
  BY WireAssumption DEF Init, MutexSound, HandlerSound
<1>3. PipeSound
  BY DEF Init, PipeSound, Quiet
<1>4. AnsweredSound /\ OwnReply
  BY DEF Init, AnsweredSound, OwnReply, Untold
<1>5. WindowSound
  BY DEF Init, WindowSound, DuplicateNeedsFullWindow
<1> QED BY <1>1, <1>2, <1>3, <1>4, <1>5 DEF IInv

LEMMA Inductive == IInv /\ [Next]_vars => IInv'
BY TypeStep, MutexStep, PipeStep, AnsweredStep, WindowStep DEF IInv

LEMMA Invariant == Spec => []IInv
BY Initially, Inductive, PTL DEF Spec

\* Every variable keeps its type; in particular the window of answered lines never
\* outgrows its bound.
THEOREM TypeCorrect == Spec => []TypeOK
<1>1. IInv => TypeOK
  BY DEF IInv
<1> QED BY <1>1, Invariant, PTL

\* A caller told `ok` is told about its own line, and the daemon carried that line out,
\* whatever connections broke, timed out or were reused.
THEOREM RepliesAreOwn == Spec => []OwnReply
<1>1. IInv => OwnReply
  BY DEF IInv
<1> QED BY <1>1, Invariant, PTL

\* A line carried out twice had a whole window of other lines between, for any window.
THEOREM DuplicatesAreLate == Spec => []DuplicateNeedsFullWindow
<1>1. IInv => DuplicateNeedsFullWindow
  BY DEF IInv, WindowSound
<1> QED BY <1>1, Invariant, PTL
=============================================================================
