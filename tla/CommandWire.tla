----------------------------- MODULE CommandWire -----------------------------
(***************************************************************************)
(* One request line from the world to the daemon and its reply back: the    *)
(* shim's one mutex over one cached connection with its single resend       *)
(* (extension/src/lib.rs), a handler thread per connection (transport.py),  *)
(* the daemon's one lock with its bounded wait (Daemon.handle_line), and    *)
(* the window of answered lines (dedupe.py).                                *)
(*                                                                          *)
(* A request opens at most one connection, so a connection is named by the  *)
(* request that opened it.  A connection may break at any moment; what was  *)
(* written to it may still be read by its handler thread, or not.           *)
(***************************************************************************)
EXTENDS Naturals, Sequences, Functions

CONSTANTS Requests,   \* the lines this world sends, each with an id of its own
          Async,      \* those sent by rpc or rpc_async, on a connection of their own
          None,       \* no request, no connection
          Window      \* dedupe.WINDOW

ASSUME WireAssumption ==
  /\ None \notin Requests
  /\ Async \subseteq Requests
  /\ Window \in Nat \ {0}

VARIABLES
  phase,     \* where each call is: "new", "cached", "fresh" or "done"
  result,    \* what its caller was told
  mutex,     \* whose call holds the shim's connection lock
  cached,    \* the shim's cached connection
  broken,    \* connections no line can cross any more
  unread,    \* lines written to a connection and not read by its thread
  handling,  \* the line each handler thread has in hand
  lock,      \* whose handler thread holds the daemon's lock
  replies,   \* replies written to a connection and not read by the shim
  answered,  \* the lines Answered remembers, oldest first
  times,     \* how often each line was carried out
  since      \* how many others were carried out since each one first was

shimVars   == <<phase, result, mutex, cached>>
daemonVars == <<handling, lock, answered, times, since>>
vars == <<shimVars, broken, unread, replies, daemonVars>>

Maybe == Requests \union {None}
Reply == [to : Requests, says : {"ok", "busy"}]
Told  == Reply \union {[to |-> None, says |-> "none"], [to |-> None, says |-> "error"]}
Untold  == [to |-> None, says |-> "none"]
Failure == [to |-> None, says |-> "error"]

TypeOK ==
  /\ phase \in [Requests -> {"new", "cached", "fresh", "done"}]
  /\ result \in [Requests -> Told]
  /\ mutex \in Maybe /\ cached \in Maybe /\ lock \in Maybe
  /\ broken \subseteq Requests
  /\ unread \in [Requests -> Seq(Requests)]
  /\ handling \in [Requests -> Maybe]
  /\ replies \in [Requests -> Seq(Reply)]
  /\ answered \in Seq(Requests) /\ Len(answered) <= Window
  /\ times \in [Requests -> Nat] /\ since \in [Requests -> Nat]

Init ==
  /\ phase = [r \in Requests |-> "new"]
  /\ result = [r \in Requests |-> Untold]
  /\ mutex = None /\ cached = None /\ lock = None
  /\ broken = {}
  /\ unread = [c \in Requests |-> <<>>]
  /\ handling = [c \in Requests |-> None]
  /\ replies = [c \in Requests |-> <<>>]
  /\ answered = <<>>
  /\ times = [r \in Requests |-> 0] /\ since = [r \in Requests |-> 0]
-----------------------------------------------------------------------------
(* The shim.                                                                *)

Write(r, c) == unread' = [unread EXCEPT ![c] = Append(@, r)]

\* The connection a call in progress is waiting on.
On(r) == IF phase[r] = "cached" THEN cached ELSE r

\* round_trip_persistent takes the mutex and tries the cached connection first.
StartKept(r) ==
  /\ r \notin Async /\ phase[r] = "new" /\ mutex = None
  /\ mutex' = r
  /\ IF cached # None
     THEN phase' = [phase EXCEPT ![r] = "cached"] /\ Write(r, cached)
     ELSE phase' = [phase EXCEPT ![r] = "fresh"] /\ Write(r, r)
  /\ UNCHANGED <<result, cached, broken, replies, daemonVars>>

\* The budget was spent waiting for the mutex: nothing is written, and the cached
\* connection, sound or not, is taken for a failed one.
StartSpent(r) ==
  /\ r \notin Async /\ phase[r] = "new" /\ mutex = None
  /\ phase' = [phase EXCEPT ![r] = "done"] /\ result' = [result EXCEPT ![r] = Failure]
  /\ cached' = None /\ broken' = broken \union ({cached} \ {None})
  /\ UNCHANGED <<mutex, unread, replies, daemonVars>>

\* rpc and rpc_async: a connection per call, no lock and no resend.
StartAsync(r) ==
  /\ r \in Async /\ phase[r] = "new"
  /\ phase' = [phase EXCEPT ![r] = "fresh"] /\ Write(r, r)
  /\ UNCHANGED <<result, mutex, cached, broken, replies, daemonVars>>

\* The call ends and its guard is released.
Return(r, told) ==
  /\ phase' = [phase EXCEPT ![r] = "done"]
  /\ result' = [result EXCEPT ![r] = told]
  /\ mutex' = IF mutex = r THEN None ELSE mutex

\* One line is read back, whatever it is; only a whole exchange keeps a connection.
ReadReply(r) ==
  /\ phase[r] \in {"cached", "fresh"} /\ replies[On(r)] # <<>>
  /\ Return(r, Head(replies[On(r)]))
  /\ replies' = [replies EXCEPT ![On(r)] = Tail(@)]
  /\ cached' = IF r \in Async THEN cached ELSE On(r)
  /\ UNCHANGED <<broken, unread, daemonVars>>

\* The cached connection failed with time left: it is dropped and the identical
\* line goes out once more on a fresh one.
Resend(r) ==
  /\ phase[r] = "cached" /\ cached \in broken
  /\ phase' = [phase EXCEPT ![r] = "fresh"]
  /\ cached' = None
  /\ Write(r, r)
  /\ UNCHANGED <<result, mutex, broken, replies, daemonVars>>

\* Fault: a connection is kept before its exchange is over, timed out or not.
DroppedOnFailureNever(r) ==
  cached' = (IF r \in Async THEN cached ELSE On(r)) /\ UNCHANGED broken

\* A connection whose exchange failed is closed on this side and never reused.
DroppedOnFailure(r) ==
  /\ cached' = IF phase[r] = "cached" THEN None ELSE cached
  /\ broken' = broken \union {On(r)}

\* The budget is spent on either attempt, or the fresh connection failed too: the
\* call ends in the shim's own error.  A spent budget leaves no time to resend.
GiveUp(r) ==
  /\ phase[r] \in {"cached", "fresh"}
  /\ Return(r, Failure)
  /\ DroppedOnFailure(r)
  /\ UNCHANGED <<unread, replies, daemonVars>>
-----------------------------------------------------------------------------
(* The wire and the handler threads.                                        *)

\* Idle close, reset, a dropped tunnel: what was written may or may not be read.
Break(c) ==
  /\ c \notin broken /\ (phase[c] = "fresh" \/ cached = c)
  /\ broken' = broken \union {c}
  /\ replies' = [replies EXCEPT ![c] = <<>>]
  /\ unread' \in {unread, [unread EXCEPT ![c] = <<>>]}
  /\ UNCHANGED <<shimVars, daemonVars>>

ReadLine(c) ==
  /\ handling[c] = None /\ unread[c] # <<>>
  /\ handling' = [handling EXCEPT ![c] = Head(unread[c])]
  /\ unread' = [unread EXCEPT ![c] = Tail(@)]
  /\ UNCHANGED <<shimVars, broken, replies, lock, answered, times, since>>

TakeLock(c) ==
  /\ handling[c] # None /\ lock = None
  /\ lock' = c
  /\ UNCHANGED <<shimVars, broken, unread, replies, handling, answered, times, since>>

\* A reply is written to a connection that may no longer carry it.
Reply_(c, says) ==
  /\ replies' = IF c \in broken THEN replies
                ELSE [replies EXCEPT ![c] = Append(@, [to |-> handling[c], says |-> says])]
  /\ handling' = [handling EXCEPT ![c] = None]

\* Fault: the wait is not bounded, the reading before #142.
ShedNever(c) == FALSE /\ UNCHANGED vars

\* The bounded wait for the lock ran out (Daemon._shed): nothing is remembered.
Shed(c) ==
  /\ handling[c] # None /\ lock \notin {None, c}
  /\ Reply_(c, "busy")
  /\ UNCHANGED <<shimVars, broken, unread, lock, answered, times, since>>

\* Fault: the window keeps one answer fewer than it says.
RememberShort(r) ==
  answered' = LET all == Append(answered, r)
              IN  IF Len(all) >= Window THEN Tail(all) ELSE all

\* Answered.remember: the newest answer in, the oldest out past the window.
Remember(r) ==
  answered' = LET all == Append(answered, r)
              IN  IF Len(all) > Window THEN Tail(all) ELSE all

CarryOut(r) ==
  /\ times' = [times EXCEPT ![r] = @ + 1]
  /\ since' = [q \in Requests |->
                 IF q # r /\ times[q] = 1 THEN since[q] + 1 ELSE since[q]]
  /\ Remember(r)

\* Daemon._answer under the lock: a remembered line is replayed, any other is
\* carried out and its answer recorded before the lock is released.
Answer(c) ==
  /\ lock = c
  /\ IF handling[c] \in Range(answered)
     THEN UNCHANGED <<answered, times, since>>
     ELSE CarryOut(handling[c])
  /\ Reply_(c, "ok")
  /\ lock' = None
  /\ UNCHANGED <<shimVars, broken, unread>>
-----------------------------------------------------------------------------
Finished == \A r \in Requests : phase[r] = "done" /\ unread[r] = <<>> /\ handling[r] = None

Next ==
  \/ \E r \in Requests : \/ StartKept(r) \/ StartSpent(r) \/ StartAsync(r)
                         \/ ReadReply(r) \/ Resend(r) \/ GiveUp(r)
  \/ \E c \in Requests : Break(c) \/ ReadLine(c) \/ TakeLock(c) \/ Shed(c) \/ Answer(c)
  \/ Finished /\ UNCHANGED vars

Spec == Init /\ [][Next]_vars

\* Every wait of the shim ends with its budget and every wait for the daemon's lock
\* with LOCK_WAIT_SECONDS.  Nothing is assumed of the thread that holds the lock:
\* a handler may be stuck for ever.
Fairness ==
  /\ \A r \in Requests :
       WF_vars(GiveUp(r)) /\ WF_vars(StartKept(r) \/ StartSpent(r)) /\ WF_vars(StartAsync(r))
  /\ \A c \in Requests : WF_vars(ReadLine(c)) /\ WF_vars(TakeLock(c) \/ Shed(c))

FairSpec == Spec /\ Fairness
-----------------------------------------------------------------------------
\* A caller told `ok` is told about its own line, and the daemon carried it out.
OwnReply ==
  \A r \in Requests : result[r].says \in {"ok", "busy"} =>
     /\ result[r].to = r
     /\ result[r].says = "ok" => times[r] > 0

\* A line is carried out a second time only when a whole window of other lines
\* was answered in between: the resend alone never spends twice (#69, ADR-0034).
DuplicateNeedsFullWindow == \A r \in Requests : times[r] > 1 => since[r] >= Window

\* Every call of the world comes back, stuck handler or not: no caller waits on the
\* shim's lock behind a call that never ends (#69, #99).
EveryCallReturns == <>(\A r \in Requests : phase[r] = "done")

\* Behind a stuck handler no other thread waits for the lock for ever (#142).
NoThreadIsParked ==
  \A c \in Requests : (handling[c] # None) ~> (handling[c] = None \/ lock = c)

\* Neither a caller in the world nor a thread of the daemon is held up for good by one
\* handler that never returns.
NobodyWaitsForEver == EveryCallReturns /\ NoThreadIsParked

\* What a `busy` reply says of itself: nothing was judged and nothing was spent.
BusyMeansUnspent == \A r \in Requests : result[r].says = "busy" => times[r] = 0
=============================================================================
