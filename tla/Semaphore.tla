----------------------------- MODULE Semaphore ------------------------------
(***************************************************************************)
(* jobs.ResizableSemaphore (src/internal/jobs/semaphore.go): a counting    *)
(* semaphore with a FIFO queue of waiters, cancellation through a context, *)
(* and a limit that /settings may change while permits are held.           *)
(*                                                                         *)
(* A client is a goroutine that calls Acquire and later Release.  One      *)
(* action is one critical section of s.mu, except that the loop of         *)
(* notifyWaitersLocked is unrolled: notifying is TRUE from the statement   *)
(* that changed cur or limit until the loop ends, and while it is TRUE the *)
(* mutex is held.  The select of Acquire, which holds no lock, is made of  *)
(* the actions Wake and SeeDone; between SeeDone and the critical section  *)
(* that follows it the grant may still arrive.                             *)
(***************************************************************************)
EXTENDS Integers, Sequences, FiniteSets, SequencesExt

CONSTANTS
  Clients,   \* goroutines
  Weights,   \* the values of n that Acquire is called with
  Limits     \* the values that NewResizableSemaphore and Resize are given

ASSUME ClientsAssumption == IsFiniteSet(Clients)
ASSUME WeightsAssumption == Weights \subseteq Int
ASSUME LimitsAssumption  == Limits \subseteq Int

VARIABLES
  limit,      \* s.limit
  cur,        \* s.cur
  waiters,    \* s.waiters, the client standing for its *waiter
  notifying,  \* s.mu is held by a caller inside notifyWaitersLocked
  ready,      \* clients whose w.ready is closed and not yet received from
  pc,         \* where each client is
  need,       \* the n of its Acquire, 0 once it has returned or released
  done        \* clients whose context is done

vars == <<limit, cur, waiters, notifying, ready, pc, need, done>>

PcValues == {"idle", "waiting", "cancelling", "holding"}

-----------------------------------------------------------------------------
(* Wrong versions of the code below, each of which a run must reject.      *)

FitsOffByOne(n) == cur + n <= limit + 1

\* The caller that saw ctx.Done() goes home with the permit it was granted.
CancelGrantedKeepingPermit(c) ==
  /\ ~notifying
  /\ pc[c] = "cancelling"
  /\ c \in ready
  /\ ready' = ready \ {c}
  /\ pc' = [pc EXCEPT ![c] = "idle"]
  /\ need' = [need EXCEPT ![c] = 0]
  /\ UNCHANGED <<limit, cur, waiters, notifying, done>>

ResizeWithoutNotify(m) ==
  /\ ~notifying
  /\ limit' = IF m < 1 THEN 1 ELSE m
  /\ UNCHANGED <<cur, waiters, notifying, ready, pc, need, done>>

\* The youngest waiter is served first.
NotifyYoungest ==
  /\ notifying
  /\ waiters # <<>>
  /\ cur + need[Last(waiters)] <= limit
  /\ cur' = cur + need[Last(waiters)]
  /\ ready' = ready \cup {Last(waiters)}
  /\ waiters' = Front(waiters)
  /\ UNCHANGED <<limit, notifying, pc, need, done>>

-----------------------------------------------------------------------------
AtLeastOne(n) == IF n < 1 THEN 1 ELSE n

Fits(n) == cur + n <= limit

\* The clients that count in cur: they hold a permit, or it was granted and
\* they have not looked yet.  Acquire(ctx, n) with n <= 0 takes nothing.
Granted == {c \in Clients : need[c] > 0 /\ (pc[c] = "holding" \/ c \in ready)}

Init ==
  /\ \E m \in Limits : limit = AtLeastOne(m)
  /\ cur = 0
  /\ waiters = <<>>
  /\ notifying = FALSE
  /\ ready = {}
  /\ pc = [c \in Clients |-> "idle"]
  /\ need = [c \in Clients |-> 0]
  /\ done = {}

-----------------------------------------------------------------------------
(* Acquire.  The fast path never looks at the context.  A client that is   *)
(* idle may start over with a context that is not done.                    *)

Start(c, n) ==
  /\ pc[c] = "idle"
  /\ need' = [need EXCEPT ![c] = n]
  /\ done' \in {done, done \ {c}}

AcquireNothing(c, n) ==
  /\ Start(c, n)
  /\ n <= 0
  /\ pc' = [pc EXCEPT ![c] = "holding"]
  /\ UNCHANGED <<limit, cur, waiters, notifying, ready>>

\* Also TryAcquire when it succeeds; when it fails it changes nothing.
AcquireFast(c, n) ==
  /\ ~notifying
  /\ Start(c, n)
  /\ n > 0
  /\ Fits(n) /\ waiters = <<>>
  /\ cur' = cur + n
  /\ pc' = [pc EXCEPT ![c] = "holding"]
  /\ UNCHANGED <<limit, waiters, notifying, ready>>

Enqueue(c, n) ==
  /\ ~notifying
  /\ Start(c, n)
  /\ n > 0
  /\ ~(Fits(n) /\ waiters = <<>>)
  /\ waiters' = Append(waiters, c)
  /\ pc' = [pc EXCEPT ![c] = "waiting"]
  /\ UNCHANGED <<limit, cur, notifying, ready>>

\* case <-w.ready
Wake(c) ==
  /\ pc[c] = "waiting"
  /\ c \in ready
  /\ ready' = ready \ {c}
  /\ pc' = [pc EXCEPT ![c] = "holding"]
  /\ UNCHANGED <<limit, cur, waiters, notifying, need, done>>

\* case <-ctx.Done(); when both channels are ready select may pick either.
SeeDone(c) ==
  /\ pc[c] = "waiting"
  /\ c \in done
  /\ pc' = [pc EXCEPT ![c] = "cancelling"]
  /\ UNCHANGED <<limit, cur, waiters, notifying, ready, need, done>>

\* The grant came first: it is handed back and the queue is notified.
CancelGranted(c) ==
  /\ ~notifying
  /\ pc[c] = "cancelling"
  /\ c \in ready
  /\ cur' = cur - need[c]
  /\ notifying' = TRUE
  /\ ready' = ready \ {c}
  /\ pc' = [pc EXCEPT ![c] = "idle"]
  /\ need' = [need EXCEPT ![c] = 0]
  /\ UNCHANGED <<limit, waiters, done>>

\* Still queued: the waiter is taken out and nobody is notified.
CancelQueued(c) ==
  /\ ~notifying
  /\ pc[c] = "cancelling"
  /\ c \notin ready
  /\ \E i \in DOMAIN waiters :
        /\ waiters[i] = c
        /\ waiters' = RemoveAt(waiters, i)
  /\ pc' = [pc EXCEPT ![c] = "idle"]
  /\ need' = [need EXCEPT ![c] = 0]
  /\ UNCHANGED <<limit, cur, notifying, ready, done>>

-----------------------------------------------------------------------------
ReleaseNothing(c) ==
  /\ pc[c] = "holding"
  /\ need[c] <= 0
  /\ pc' = [pc EXCEPT ![c] = "idle"]
  /\ need' = [need EXCEPT ![c] = 0]
  /\ UNCHANGED <<limit, cur, waiters, notifying, ready, done>>

Release(c) ==
  /\ ~notifying
  /\ pc[c] = "holding"
  /\ need[c] > 0
  /\ cur' = IF cur - need[c] < 0 THEN 0 ELSE cur - need[c]
  /\ notifying' = TRUE
  /\ pc' = [pc EXCEPT ![c] = "idle"]
  /\ need' = [need EXCEPT ![c] = 0]
  /\ UNCHANGED <<limit, waiters, ready, done>>

Resize(m) ==
  /\ ~notifying
  /\ limit' = AtLeastOne(m)
  /\ notifying' = TRUE
  /\ UNCHANGED <<cur, waiters, ready, pc, need, done>>

\* One iteration of notifyWaitersLocked.
NotifyHead ==
  /\ notifying
  /\ waiters # <<>>
  /\ Fits(need[Head(waiters)])
  /\ cur' = cur + need[Head(waiters)]
  /\ ready' = ready \cup {Head(waiters)}
  /\ waiters' = Tail(waiters)
  /\ UNCHANGED <<limit, notifying, pc, need, done>>

\* The loop ends and the caller unlocks s.mu.
NotifyEnd ==
  /\ notifying
  /\ waiters # <<>> => ~Fits(need[Head(waiters)])
  /\ notifying' = FALSE
  /\ UNCHANGED <<limit, cur, waiters, ready, pc, need, done>>

\* The job is cancelled, or the bot shuts down.
ContextDone(c) ==
  /\ c \notin done
  /\ done' = done \cup {c}
  /\ UNCHANGED <<limit, cur, waiters, notifying, ready, pc, need>>

-----------------------------------------------------------------------------
Next ==
  \/ \E c \in Clients, n \in Weights :
        AcquireNothing(c, n) \/ AcquireFast(c, n) \/ Enqueue(c, n)
  \/ \E c \in Clients :
        \/ Wake(c) \/ SeeDone(c) \/ CancelGranted(c) \/ CancelQueued(c)
        \/ Release(c) \/ ReleaseNothing(c) \/ ContextDone(c)
  \/ \E m \in Limits : Resize(m)
  \/ NotifyHead
  \/ NotifyEnd

Spec == Init /\ [][Next]_vars

(***************************************************************************)
(* Goroutines keep running, and the work done under a permit ends.  The    *)
(* mutex is sync.Mutex, which is starvation free: a goroutine that keeps   *)
(* asking for it gets it, hence strong fairness where ~notifying guards.   *)
(* Nothing obliges anybody to call Acquire, Resize or cancel.              *)
(***************************************************************************)
Fairness ==
  /\ WF_vars(NotifyHead) /\ WF_vars(NotifyEnd)
  /\ \A c \in Clients :
        /\ WF_vars(Wake(c) \/ SeeDone(c))
        /\ SF_vars(CancelGranted(c) \/ CancelQueued(c))
        /\ SF_vars(Release(c))

FairSpec == Spec /\ Fairness

-----------------------------------------------------------------------------
TypeOK ==
  /\ limit \in Nat \ {0}
  /\ cur \in Int
  /\ waiters \in Seq(Clients)
  /\ notifying \in BOOLEAN
  /\ ready \subseteq Clients
  /\ pc \in [Clients -> PcValues]
  /\ need \in [Clients -> Weights \cup {0}]
  /\ done \subseteq Clients

\* No call asks for more than one permit; in this repository all ask for one.
UnitWeights == \A n \in Weights : n <= 1

(***************************************************************************)
(* Safety.                                                                 *)
(***************************************************************************)

\* No permit is lost or invented: s.cur counts the admitted clients, whatever
\* races a grant with a cancelled context (lines 47-52), however often the limit
\* moves and whoever gives up in the queue.
PermitsConserved == cur = Cardinality(Granted)

\* Resize below cur keeps the permits in flight, so cur may exceed limit; but
\* whoever is let in, on the fast path or from the queue, is let in within
\* the limit of that moment.
AdmissionWithinLimit ==
  [][\A c \in Clients : c \in Granted' \ Granted => cur' <= limit']_vars

\* No lost wakeup: when the mutex is free and somebody queues, no permit is
\* free.  CancelQueued does not notify, so this rests on all waiters being
\* alike; it fails for waiters of different weight.
NoLostWakeup ==
  ~notifying /\ waiters # <<>> => cur >= limit

(***************************************************************************)
(* Liveness and refinement.                                                *)
(***************************************************************************)

\* FIFO order with release, resize and cancellation: a goroutine that waits
\* gets its permit or learns that its context is done, as long as holders
\* release what they hold.  No goroutine is overtaken for ever.
EveryWaiterServed ==
  \A c \in Clients : pc[c] = "waiting" ~> pc[c] # "waiting"

\* With one permit per call the semaphore implements a pool of permits.
Pool == INSTANCE PermitPool WITH
          Users <- Clients,
          want  <- {c \in Clients : pc[c] \in {"waiting", "cancelling"}} \ ready,
          inUse <- Granted,
          cap   <- limit

ImplementsPool == Pool!Spec
=============================================================================
