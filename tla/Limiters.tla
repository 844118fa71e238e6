------------------------------ MODULE Limiters ------------------------------
(***************************************************************************)
(* A concurrencyLimiter as its callers see it: a size, how long a call may *)
(* wait, and what is in use.  Breaker's calls use these operators; the     *)
(* semaphore behind the interface is in WeightedSemaphore, which is shown  *)
(* to do nothing else.                                                     *)
(***************************************************************************)
EXTENDS Settings

newConcurrencyLimiter(s) ==
  [size |-> s.Config.MaxConcurrentCalls, wait |-> s.Config.MaxWaitDurationMillis, cur |-> 0]

Limiter == [size : Int, wait : Int, cur : Nat]

HasRoomForOneMore(l, n) == l.size <= 0 \/ l.size - l.cur + 1 >= n

HasRoom(l, n) == l.size <= 0 \/ l.size - l.cur >= n

(* A call may also give up waiting behind others, when waiting is allowed. *)
MayRefuse(l, n) == l.size > 0 /\ (l.wait > 0 \/ ~HasRoom(l, n))

Acquired(l, n) == IF l.size <= 0 THEN l ELSE [l EXCEPT !.cur = @ + n]

Released(l, n) ==
  IF l.size <= 0 THEN l
  ELSE [l EXCEPT !.cur = IF @ - n < 0 THEN 0 ELSE @ - n]
=============================================================================
