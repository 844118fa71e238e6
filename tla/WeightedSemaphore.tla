------------------------- MODULE WeightedSemaphore --------------------------
(***************************************************************************)
(* weightedSemaphore of concurrency_limiter.go: tokens, a FIFO of waiters, *)
(* and a channel per waiter that is closed when its tokens are granted.    *)
(*                                                                         *)
(* The code adds to uncappedConcurrencyCount outside the mutex, then works *)
(* under it.  A section under the mutex is one action, except for the loop *)
(* of notifyWaiters: the mutex stays with the caller, in mu, and each      *)
(* round is an action, so that what needs no mutex (a timeout, a waiter    *)
(* that sees its channel closed, the atomic additions) runs in between.    *)
(***************************************************************************)
EXTENDS Limiters, FiniteSets, SequencesExt

CONSTANTS
  Callers,          (* goroutines that acquire and release                   *)
  Factors,          (* the weights they ask for                              *)
  Size,             (* size                                                  *)
  maxWaitDuration,  (* 0: calls do not wait                                  *)
  CountWidth,       (* bound: an int64 count wraps at this                   *)
  NoOne             (* holder of a free mutex                                *)

ASSUME SemaphoreAssumption ==
  /\ IsFiniteSet(Callers)
  /\ Factors \subseteq Nat
  /\ Size \in Nat \ {0}
  /\ maxWaitDuration \in Nat
  /\ CountWidth \in Nat \ {0}
  /\ NoOne \notin Callers

VARIABLES
  cur,       (* tokens taken                                                 *)
  waiters,   (* the callers in the queue, from front to back                 *)
  ready,     (* the callers whose channel is closed                          *)
  mu,        (* who is in notifyWaiters' loop                                *)
  uncappedConcurrencyCount,
  n,         (* the weight each caller asked for                             *)
  pc,        (* where each caller is                                         *)
  failed     (* history: the weight of all calls that failed                 *)

vars == <<cur, waiters, ready, mu, uncappedConcurrencyCount, n, pc, failed>>

Wrap(count) == count % CountWidth

Goto(c, place) == pc' = [pc EXCEPT ![c] = place]

Fits(c) == Size - cur >= n[c]

FrontFits == waiters # <<>> /\ Fits(Head(waiters))

-----------------------------------------------------------------------------
(* acquire.                                                                *)

(* The atomic addition, before anything is known.                          *)
Count(c) ==
  /\ pc[c] = "idle"
  /\ \E weight \in Factors :
       /\ n' = [n EXCEPT ![c] = weight]
       /\ uncappedConcurrencyCount' = Wrap(uncappedConcurrencyCount + weight)
  /\ Goto(c, "counted")
  /\ UNCHANGED <<cur, waiters, ready, mu, failed>>

TakeOvertaking(c) ==
  /\ pc[c] = "counted" /\ mu = NoOne
  /\ Fits(c)
  /\ cur' = cur + n[c]
  /\ Goto(c, "holding")
  /\ UNCHANGED <<waiters, ready, mu, uncappedConcurrencyCount, n, failed>>

TakeOneTooMany(c) ==
  /\ pc[c] = "counted" /\ mu = NoOne
  /\ Size - cur + 1 >= n[c] /\ waiters = <<>>
  /\ cur' = cur + n[c]
  /\ Goto(c, "holding")
  /\ UNCHANGED <<waiters, ready, mu, uncappedConcurrencyCount, n, failed>>

(* 1. Resource enough.                                                     *)
Take(c) ==
  /\ pc[c] = "counted" /\ mu = NoOne
  /\ Fits(c) /\ waiters = <<>>
  /\ cur' = cur + n[c]
  /\ Goto(c, "holding")
  /\ UNCHANGED <<waiters, ready, mu, uncappedConcurrencyCount, n, failed>>

Fail(c) == failed' = Wrap(failed + n[c])

(* Doomed to fail, or 2. resource not enough and not wait.                 *)
FailAtOnce(c) ==
  /\ pc[c] = "counted" /\ mu = NoOne
  /\ ~(Fits(c) /\ waiters = <<>>)
  /\ n[c] > Size \/ maxWaitDuration <= 0
  /\ Fail(c)
  /\ Goto(c, "idle")
  /\ UNCHANGED <<cur, waiters, ready, mu, uncappedConcurrencyCount, n>>

(* 3. Resource not enough and wait.                                        *)
Enqueue(c) ==
  /\ pc[c] = "counted" /\ mu = NoOne
  /\ ~(Fits(c) /\ waiters = <<>>)
  /\ n[c] <= Size /\ maxWaitDuration > 0
  /\ waiters' = Append(waiters, c)
  /\ Goto(c, "waiting")
  /\ UNCHANGED <<cur, ready, mu, uncappedConcurrencyCount, n, failed>>

(* The select takes ready.  A closed channel is dropped with its waiter.   *)
TakeGrant(c) ==
  /\ pc[c] = "waiting"
  /\ c \in ready
  /\ ready' = ready \ {c}
  /\ Goto(c, "holding")
  /\ UNCHANGED <<cur, waiters, mu, uncappedConcurrencyCount, n, failed>>

(* The select takes ctx.Done, which it may even if ready is closed too.    *)
Expire(c) ==
  /\ pc[c] = "waiting"
  /\ Goto(c, "expired")
  /\ UNCHANGED <<cur, waiters, ready, mu, uncappedConcurrencyCount, n, failed>>

(* Acquired after all: pretend the cancellation was not noticed.           *)
TakeLateGrant(c) ==
  /\ pc[c] = "expired" /\ mu = NoOne
  /\ c \in ready
  /\ ready' = ready \ {c}
  /\ Goto(c, "holding")
  /\ UNCHANGED <<cur, waiters, mu, uncappedConcurrencyCount, n, failed>>

(* list.Remove: nothing happens when the element has left the list.        *)
LeaveQueue(c) ==
  \/ \E i \in DOMAIN waiters : waiters[i] = c /\ waiters' = RemoveAt(waiters, i)
  \/ c \notin ToSet(waiters) /\ UNCHANGED waiters

GiveUpUnlooked(c) ==
  /\ pc[c] = "expired" /\ mu = NoOne
  /\ LeaveQueue(c)
  /\ ready' = ready \ {c}
  /\ Fail(c)
  /\ Goto(c, "idle")
  /\ UNCHANGED <<cur, mu, uncappedConcurrencyCount, n>>

GiveUpQuietly(c) ==
  /\ pc[c] = "expired" /\ mu = NoOne
  /\ c \notin ready
  /\ LeaveQueue(c)
  /\ Fail(c)
  /\ Goto(c, "idle")
  /\ UNCHANGED <<cur, ready, mu, uncappedConcurrencyCount, n>>

GiveUpInQueue(c) ==
  /\ pc[c] = "expired" /\ mu = NoOne
  /\ c \notin ready
  /\ Fail(c)
  /\ Goto(c, "idle")
  /\ UNCHANGED <<cur, waiters, ready, mu, uncappedConcurrencyCount, n>>

GiveUpRefunding(c) ==
  /\ pc[c] = "expired" /\ mu = NoOne
  /\ c \notin ready
  /\ LeaveQueue(c)
  /\ cur' = cur - n[c]
  /\ Fail(c)
  /\ Goto(c, "idle")
  /\ UNCHANGED <<ready, mu, uncappedConcurrencyCount, n>>

(* Leave the queue; from its front, with tokens left, let others try.      *)
GiveUp(c) ==
  /\ pc[c] = "expired" /\ mu = NoOne
  /\ c \notin ready
  /\ LeaveQueue(c)
  /\ Fail(c)
  /\ \/ /\ Head(waiters) = c /\ Size > cur
        /\ mu' = c
        /\ Goto(c, "notifying")
     \/ /\ ~(Head(waiters) = c /\ Size > cur)
        /\ Goto(c, "idle")
        /\ UNCHANGED mu
  /\ UNCHANGED <<cur, ready, uncappedConcurrencyCount, n>>

-----------------------------------------------------------------------------
(* release, and the loop of notifyWaiters.                                 *)

UncountOne(c) ==
  /\ pc[c] = "holding"
  /\ uncappedConcurrencyCount' = Wrap(uncappedConcurrencyCount - 1)
  /\ Goto(c, "releasing")
  /\ UNCHANGED <<cur, waiters, ready, mu, n, failed>>

Uncount(c) ==
  /\ pc[c] = "holding"
  /\ uncappedConcurrencyCount' = Wrap(uncappedConcurrencyCount - n[c])
  /\ Goto(c, "releasing")
  /\ UNCHANGED <<cur, waiters, ready, mu, n, failed>>

ReleaseQuietly(c) ==
  /\ pc[c] = "releasing" /\ mu = NoOne
  /\ cur' = IF cur - n[c] < 0 THEN 0 ELSE cur - n[c]
  /\ Goto(c, "idle")
  /\ UNCHANGED <<waiters, ready, mu, uncappedConcurrencyCount, n, failed>>

release(c) ==
  /\ pc[c] = "releasing" /\ mu = NoOne
  /\ cur' = IF cur - n[c] < 0 THEN 0 ELSE cur - n[c]
  /\ mu' = c
  /\ Goto(c, "notifying")
  /\ UNCHANGED <<waiters, ready, uncappedConcurrencyCount, n, failed>>

(* The first waiter fits: charge it and close its channel.                 *)
Grant(c) ==
  /\ mu = c
  /\ FrontFits
  /\ cur' = cur + n[Head(waiters)]
  /\ ready' = ready \cup {Head(waiters)}
  /\ waiters' = Tail(waiters)
  /\ UNCHANGED <<mu, uncappedConcurrencyCount, n, pc, failed>>

(* No waiter, or not enough for the first: unlock and return.              *)
StopNotifying(c) ==
  /\ mu = c
  /\ ~FrontFits
  /\ mu' = NoOne
  /\ Goto(c, "idle")
  /\ UNCHANGED <<cur, waiters, ready, uncappedConcurrencyCount, n, failed>>

-----------------------------------------------------------------------------

Init ==
  /\ cur = 0
  /\ waiters = <<>>
  /\ ready = {}
  /\ mu = NoOne
  /\ uncappedConcurrencyCount = 0
  /\ n \in [Callers -> Factors]
  /\ \A c, d \in Callers : n[c] = n[d]
  /\ pc = [c \in Callers |-> "idle"]
  /\ failed = 0

(* What a caller does next on its own: nobody is obliged to call, and no   *)
(* deadline has to pass.                                                   *)
Progress(c) ==
  \/ Take(c)
  \/ FailAtOnce(c)
  \/ Enqueue(c)
  \/ TakeGrant(c)
  \/ TakeLateGrant(c)
  \/ GiveUp(c)
  \/ Uncount(c)
  \/ release(c)
  \/ Grant(c)
  \/ StopNotifying(c)

Next == \E c \in Callers : Count(c) \/ Expire(c) \/ Progress(c)

Spec == Init /\ [][Next]_vars

(***************************************************************************)
(* Protected functions return, goroutines run, and a sync.Mutex that is    *)
(* asked for long enough is handed over (its starvation mode): strong      *)
(* fairness, for whoever wants the mutex finds it free only now and then.  *)
(***************************************************************************)
FairSpec == Spec /\ \A c \in Callers : SF_vars(Progress(c))

-----------------------------------------------------------------------------
(* Properties.                                                             *)

Places ==
  {"idle", "counted", "waiting", "expired", "holding", "releasing", "notifying"}

(* The callers whose tokens are taken: they hold them, or were granted     *)
(* them and have not noticed.                                              *)
Charged == ready \cup {c \in Callers : pc[c] \in {"holding", "releasing"}}

TypeOK ==
  /\ cur \in Nat
  /\ waiters \in Seq(Callers)
  /\ ready \subseteq Callers
  /\ mu \in Callers \cup {NoOne}
  /\ uncappedConcurrencyCount \in 0..(CountWidth - 1)
  /\ n \in [Callers -> Factors]
  /\ pc \in [Callers -> Places]
  /\ failed \in 0..(CountWidth - 1)

(* The callers in acquire, or past it and not yet in release.              *)
Counted == {c \in Callers : pc[c] \in {"counted", "waiting", "expired", "holding"}}

(***************************************************************************)
(* The tokens taken are those of the callers that hold them or have been   *)
(* granted them, and never more than there are: no race between a timeout  *)
(* and a grant loses or doubles any.                                       *)
(***************************************************************************)
TokensConserved ==
  /\ cur = Cardinality(Units(n, Charged))
  /\ cur <= Size

(* The queue holds exactly the callers that wait and have no grant, each   *)
(* once: nobody is granted twice, and nobody is granted after giving up.   *)
QueueIsTheWaiting ==
  /\ ToSet(waiters) = {c \in Callers : pc[c] \in {"waiting", "expired"}} \ ready
  /\ IsInjective(waiters)
  /\ \A c \in ready : pc[c] \in {"waiting", "expired"}

(***************************************************************************)
(* While nobody is in the loop of notifyWaiters, the waiter at the front   *)
(* does not fit: nobody who could run is left asleep, also after the one   *)
(* in front gave up.  A waiter of weight 0 is left out: it fits even when  *)
(* no token is left, and then GiveUp does not look.                        *)
(***************************************************************************)
NoWaiterLeftAsleep ==
  mu = NoOne /\ FrontFits => n[Head(waiters)] = 0

(* Nobody gets tokens before a caller that was queued earlier and still    *)
(* is: neither another waiter, nor a caller that has just come.            *)
InFrontOf(c, d) ==
  \A i, j \in DOMAIN waiters : waiters[i] = c /\ waiters[j] = d => i < j

FirstComeFirstServed ==
  [][\A c \in Charged' \ Charged :
       \A d \in ToSet(waiters) \cap ToSet(waiters') :
         c \in ToSet(waiters) /\ InFrontOf(c, d)]_vars

(* A waiter gets out of acquire even if its deadline never passes: those   *)
(* who hold tokens release them, and every release wakes whom it should.   *)
EveryWaiterIsServed == \A c \in Callers : pc[c] = "waiting" ~> pc[c] # "waiting"

(***************************************************************************)
(* uncappedConcurrencyCount is the weight of the calls in acquire or past  *)
(* it, plus that of every call that ever failed: a failed acquire is never *)
(* taken back ("On failure, it [...] leaves the semaphore unchanged"), and *)
(* nothing else is lost between the additions outside the mutex.           *)
(***************************************************************************)
CountDriftsByFailuresOnly ==
  uncappedConcurrencyCount = Wrap(failed + Cardinality(Units(n, Counted)))

(* The semaphore is a concurrency limiter as Breaker knows it.             *)
Abstract ==
  INSTANCE ConcurrencyLimiter WITH
    limiter  <- [size |-> Size, wait |-> maxWaitDuration, cur |-> cur],
    asking   <- {c \in Callers : pc[c] \in {"counted", "waiting", "expired"}} \ ready,
    admitted <- Charged,
    weight   <- n

ImplementsConcurrencyLimiter == Abstract!Spec
=============================================================================
