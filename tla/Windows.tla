------------------------------- MODULE Windows -------------------------------
(***************************************************************************)
(* The two windows of window.go behind iWindowMetric: a time window has a  *)
(* bucket per second, a count window one per call.  Both are a ring with   *)
(* the sum of its buckets kept beside it, under one mutex, so an operation *)
(* is one action.                                                          *)
(*                                                                         *)
(* A time window is created with time.Now and moved with the clock of      *)
(* time.go, which a background task refreshes: that clock may be behind.   *)
(***************************************************************************)
EXTENDS Counters, FiniteSets, Sequences

CONSTANTS
  Capacities,   (* SlidingWindowSize, or NumberOfCallsInSemiOpenState        *)
  Lags,         (* seconds the cached clock is behind when a window is made  *)
  LastSecond,   (* bound: the second the cached clock reaches                *)
  MaxUpdates    (* bound: outcomes a window is told                          *)

ASSUME WindowAssumption ==
  /\ Capacities \subseteq Nat \ {0}
  /\ Lags \subseteq Nat
  /\ LastSecond \in Nat
  /\ MaxUpdates \in Nat

VARIABLES
  metric,      (* "time" or "count": which window it is                     *)
  capacity,
  endIndex,    (* the bucket of the current second, or of the last call     *)
  buckets,     (* the counters of the ring                                  *)
  startTime,   (* the second of each bucket; of a count window, unused      *)
  total,
  nowInMs,     (* the cached clock, in seconds                              *)
  created,     (* history: the second the window was made in                *)
  log          (* history: the outcomes told, each with its cached second   *)

vars == <<metric, capacity, endIndex, buckets, startTime, total, nowInMs, created, log>>

Ring == 0..(capacity - 1)

(* The bucket k steps on from the one at endIndex.                         *)
Ahead(k) == (endIndex + k) % capacity

SmallerOf(a, b) == IF a < b THEN a ELSE b

(* The counters b[i] for i in S, added up.                                 *)
Sum(b, S) ==
  [total    |-> Cardinality(Units([i \in S |-> b[i].total], S)),
   errors   |-> Cardinality(Units([i \in S |-> b[i].errors], S)),
   timeouts |-> Cardinality(Units([i \in S |-> b[i].timeouts], S))]

-----------------------------------------------------------------------------
(***************************************************************************)
(* Moving the window: it goes on by "steps" buckets, whose counters leave  *)
(* the total and are reset.  Each operator gives the new value of one      *)
(* field.                                                                  *)
(***************************************************************************)
differenceInSeconds == nowInMs - startTime[endIndex]

(* The loop of moveWindowToCurrentSecond runs at least once, also when the *)
(* difference is negative.                                                 *)
secondsToMoveWindow == SmallerOf(differenceInSeconds, capacity)

StepsOneAtATime ==
  CASE metric = "count" -> 1
    [] metric = "time" /\ differenceInSeconds = 0 -> 0
    [] OTHER -> IF differenceInSeconds > 0 THEN 1 ELSE 0

Steps ==
  CASE metric = "count" -> 1
    [] metric = "time" /\ differenceInSeconds = 0 -> 0
    [] OTHER -> IF secondsToMoveWindow > 0 THEN secondsToMoveWindow ELSE 1

Passed(steps) == {Ahead(k) : k \in 1..steps}

MovedBuckets(steps) ==
  [i \in Ring |-> IF i \in Passed(steps) THEN NoCounts ELSE buckets[i]]

(* The last bucket passed gets the current second, those before it the     *)
(* seconds before.                                                         *)
MovedStartTime(steps) ==
  IF metric = "count" THEN startTime
  ELSE [i \in Ring |->
          IF i \in Passed(steps)
          THEN nowInMs - secondsToMoveWindow + (CHOOSE k \in 1..steps : Ahead(k) = i)
          ELSE startTime[i]]

MovedTotalStale(steps) == total

MovedTotalLate(steps) ==
  subtract(total, Sum(buckets, {Ahead(k - 1) : k \in 1..steps}))

MovedTotal(steps) == subtract(total, Sum(buckets, Passed(steps)))

-----------------------------------------------------------------------------

update(outcome) ==
  LET steps  == Steps
      latest == Ahead(steps)
  IN  /\ Len(log) < MaxUpdates
      /\ endIndex' = latest
      /\ buckets' = [MovedBuckets(steps) EXCEPT ![latest] = add(@, outcome)]
      /\ startTime' = MovedStartTime(steps)
      /\ total' = add(MovedTotal(steps), outcome)
      /\ log' = Append(log, [at |-> nowInMs, outcome |-> outcome])
      /\ UNCHANGED <<metric, capacity, nowInMs, created>>

(* A time window is moved before it is read; a count window is only read.  *)
getSnapshot ==
  /\ metric = "time"
  /\ endIndex' = Ahead(Steps)
  /\ buckets' = MovedBuckets(Steps)
  /\ startTime' = MovedStartTime(Steps)
  /\ total' = MovedTotal(Steps)
  /\ UNCHANGED <<metric, capacity, nowInMs, created, log>>

(* The background task, which may come late and skip seconds.              *)
RefreshClock ==
  /\ nowInMs' \in (nowInMs + 1)..LastSecond
  /\ UNCHANGED <<metric, capacity, endIndex, buckets, startTime, total, created, log>>

Init ==
  /\ metric \in {"time", "count"}
  /\ capacity \in Capacities
  /\ nowInMs = 0
  /\ created \in Lags
  /\ endIndex = IF metric = "time" THEN capacity - 1 ELSE 0
  /\ buckets = [i \in Ring |-> NoCounts]
  /\ startTime = [i \in Ring |->
                    IF metric = "time" THEN created - (capacity - 1) + i ELSE 0]
  /\ total = NoCounts
  /\ log = <<>>

Next ==
  \/ \E outcome \in Outcomes : update(outcome)
  \/ getSnapshot
  \/ RefreshClock

Spec == Init /\ [][Next]_vars

-----------------------------------------------------------------------------
(* Properties.                                                             *)

TypeOK ==
  /\ metric \in {"time", "count"}
  /\ capacity \in Capacities
  /\ endIndex \in Ring
  /\ buckets \in [Ring -> Counter]
  /\ startTime \in [Ring -> Int]
  /\ total \in Counter
  /\ nowInMs \in 0..LastSecond
  /\ created \in Lags
  /\ log \in Seq([at : Nat, outcome : Outcomes])

(* What the calls of the log with their indices in S amount to.            *)
Tally(S) ==
  [total    |-> Cardinality(S),
   errors   |-> Cardinality({j \in S : log[j].outcome \in ErrorOutcomes}),
   timeouts |-> Cardinality({j \in S : log[j].outcome \in TimeoutOutcomes})]

(* The total is kept beside the ring and never recomputed: it must not     *)
(* drift from the counters it stands for.                                  *)
TotalIsSumOfRing == total = Sum(buckets, Ring)

(***************************************************************************)
(* A snapshot counts "the calls of the last slidingWindowSize seconds", no *)
(* more and no fewer, however many seconds passed unseen between two       *)
(* updates; that of a count window counts the last capacity calls.  It is  *)
(* stated of the snapshot a call would get now, once the cached clock has  *)
(* come to the second the window was made in.                              *)
(***************************************************************************)
RecentCallsCounted ==
  /\ metric = "time" /\ nowInMs >= created =>
       MovedTotal(Steps) = Tally({j \in DOMAIN log : log[j].at > nowInMs - capacity})
  /\ metric = "count" =>
       total = Tally({j \in DOMAIN log : j > Len(log) - capacity})

(***************************************************************************)
(* A burst of calls within a second is counted in full, whatever the       *)
(* window went through before; without it a breaker that waits for         *)
(* MinimumNumberOfCalls may wait for ever.                                 *)
(***************************************************************************)
CallsOfThisSecondCounted ==
  metric = "time" /\ nowInMs > created =>
    MovedTotal(Steps).total >= Cardinality({j \in DOMAIN log : log[j].at = nowInMs})

(***************************************************************************)
(* All that Breaker assumes of a window: its total loses some part of what *)
(* it holds, a count window's nothing while there is room, and then gains  *)
(* the outcome.                                                            *)
(***************************************************************************)
Kept(k) ==
  /\ k \in Counter /\ subtract(total, k) \in Counter
  /\ metric = "count" /\ total.total < capacity => k = total

TotalsMoveAsBreakerAssumes ==
  [][\/ Kept(total')
     \/ \E outcome \in Outcomes :
          LET one == add(NoCounts, outcome)
          IN  Kept(subtract(total', one))]_vars
=============================================================================
