# j-circuit-breaker in TLA+

A model of the Go package `circuitbreaker`: TLA+ modules translated from its
source, TLC runs on small instances, and theorems TLAPS checks for all of them.

## The system

A `CircuitBreaker` guards calls to a dependency. It points at a *state object*;
every transition installs a new object. A call reads the pointer once, on entry,
and works with what it read until it returns, so at any time several generations
of objects and limiters are in use. Nothing is persisted and nothing is sent:
the hard part is what goroutines do to each other between two critical sections.

| Component | State | Operations | Interacts with | What makes it correct |
|---|---|---|---|---|
| Breaker (`cb.go`, `constant.go`) | `setting`, `state`, `concurrencyLimiter`, `listener` under `updateLock` | `UpdateConfig`/`updateSetting`, `StateTransition`, `ForceOpen`, `ForceClose`, `Reset`, `RegisterEventListener`, `enterWithFallback` | reads state, setting and limiter for a call; calls the listener and the gauges inside the lock | automatic transitions follow the table, from the state the breaker is in; the last valid configuration is in force |
| State objects (`state.go`) | a window; SEMI_OPEN: `callCount`; OPEN: a timer | `acquirePermission`, `releasePermission`, `onError`, `onSuccess`, `shouldStateTransition` | one object is shared by the breaker and any number of calls | no SEMI_OPEN permit is lost or doubled; SEMI_OPEN decides on its calls; OPEN and SEMI_OPEN end |
| Entries (`entry.go`) | what a call read on entry; `exitOnce` | `Exit`, `exitWithFallback` | releases the limiter, updates the window, may ask for a transition | a call releases what it acquired, reports to where it was admitted |
| Settings (`config.go`, `health_checker.go`) | immutable | `IsValidConfig`, `fillDefaultsAndGetSetting`, `isThresholdsExceed` | read by state objects and calls | checks a client switches off are off |
| Windows (`window.go`) | counters in a ring, one mutex | `update`, `getSnapshot` | owned by a state object | the total is the sum of the ring; what is older than the window is gone |
| Limiter (`concurrency_limiter.go`) | `cur`, FIFO of waiters, `uncappedConcurrencyCount` | `acquire`, `release`, `getCount` | shared by the calls of a configuration | never more than `size` in use; no lost wakeup; a grant that races a timeout is not lost |
| Clock (`time.go`) | cached milliseconds, timers | `timer`, `currentTime` | windows, timeouts, OPEN's timer | |
| Registry (`circuitbreaker.go`) | a `sync.Map` of breakers, `breakersMutex` | `Get`, `GetExisting`, `UpdateConfigs`, by-name operations | creates breakers | one breaker per name; an invalid batch changes nothing |
| Metrics, events, options (`metrics.go`, `event.go`, `option.go`, `types.go`) | Prometheus gauges, the listener, a `sync.Pool` | written by the breaker | clients | gauge and listener agree with the breaker |

The behaviours that are hard, in the order they are attacked: calls that act on
an object the breaker has left; SEMI_OPEN's permits, which three mutexes guard
together and which nothing but its own calls can free; OPEN's timer, whose only
tick is taken before the transition it is for; the swap of state and limiter
under calls in flight; FORCED_CLOSED, which ignores the limiter; fallbacks that
panic; the queue of the semaphore; windows on a clock that may lag; breakers
that two clients create at once. `PROJECT.json` lists each with its line.

## Modules

| Module | Models | Uses |
|---|---|---|
| `Counters` | the counters and percentages of `window.go` | |
| `Settings` | `config.go`, `health_checker.go` | `Counters` |
| `States` | the five states and the table of automatic transitions (`constant.go`, `cb.go`) | |
| `Limiters` | a concurrency limiter as its callers see it | `Settings` |
| `Breaker` | `cb.go`, `state.go`, `entry.go`, and of the limiter, the timer, the gauge and the listener what a call can see | `Limiters`, `States` |
| `StateMachine` | what a breaker promises about its state: abstract | `States` |
| `ConcurrencyLimiter` | what a limiter promises to its callers: abstract | `Limiters` |
| `WeightedSemaphore` | `concurrency_limiter.go`: mutex, queue, channels, the uncapped count | `Limiters` |
| `Windows` | the rings of `window.go` on the clock of `time.go` | `Counters` |
| `Registry` | `circuitbreaker.go` | `Settings` |
| `MCBreaker`, `MCSemaphore`, `MCWindows`, `MCRegistry` | configurations and symmetry for TLC | |
| `BreakerProofs` | the inductive invariant of `Breaker` and its proof | `Breaker` |
| `BreakerTheorems` | the properties of `Breaker` as theorems | `BreakerProofs` |
| `BreakerRefinement` | `Breaker` implements `StateMachine`, proved | `BreakerTheorems` |
| `BreakerLimits` | the limit on calls in flight and the configuration in force, proved | `BreakerTheorems` |
| `SemaphoreProofs` | the theorems about `WeightedSemaphore` | `WeightedSemaphore` |
| `RegistryProofs` | the theorems about `Registry` | `Registry` |
| `WindowsProofs` | the theorems about `Windows` and about percentages | `Windows` |
| `CommonLemmas` | settings and sums: lemmas the proofs share | `Limiters` |

The modules meet in operators and in refinements, not in one big state:

- `Breaker`'s calls change a limiter with `HasRoom`, `MayRefuse`, `Acquired` and
  `Released` of `Limiters`. `ConcurrencyLimiter` is the machine made of these
  four, and `WeightedSemaphore` is shown to implement it.
- `Breaker` keeps of a window its total and lets it move as `Kept` says;
  `Windows!TotalsMoveAsBreakerAssumes`, a theorem, says that the rings move it
  no other way.
- `Breaker` is shown to implement `StateMachine`, which has no objects, calls or
  locks.
- `Registry` treats a change of one breaker as one step; that it is one, under
  `updateLock`, is `Breaker`'s subject.

### How `Breaker` corresponds to the code

`state`, `setting` and `limiter` are the fields of `CircuitBreaker`. `heap` and
`limiters` are the objects behind pointers, by address; an address is reused
when neither the breaker nor a call refers to the object, as Go does, so the
model is finite and comparing addresses means what `fromStateRef != cb.state`
means. `entry[c]` is the `Entry` of caller `c` (and, before there is one, the
locals of `enterWithFallback`), `pc[c]` is where it is:

| `pc` before | action | code |
|---|---|---|
| `idle` | `Enter` | the read of state, setting and limiter under `RLock` |
| `entered` | `TakeTick` | OPEN's receive on its timer: `waitInOpenElapsed` |
| `promote` | `Promote` | `StateTransition` to SEMI_OPEN; the call goes on with the object it returns |
| `entered` | `acquirePermission` | granted, or refused: fallback, report, return |
| `permitted` | `acquire` | the limiter: granted, refused, or refused and ignored in FORCED_CLOSED |
| `refused` | `releasePermission`, `FallbackPanics` | fallback, permit back, return; or a panic in the fallback |
| `running` | `release` | the function returned or panicked: the limiter is released |
| `released` | `Report` | the window update and `shouldStateTransition` on its snapshot; a fallback that panics skips the verdict |
| `deciding` | `Decide` | `StateTransition` on that verdict, and the return |

Each action is one critical section, with the local work around it, which no
other goroutine sees. `TimerFires`, `AdminTransition` (`ForceOpen`, `ForceClose`,
`Reset`), `UpdateConfig` and `RegisterEventListener` run between any two of
them. An `Exit` is `release`, `Report` and `Decide`; it happens once per entry
(`sync.Once`), and a caller that forgets it is a caller that stays in `running`.

What is abstracted:

- A window is its total. A time window may drop any part of it between two
  updates, which includes whatever the passing of seconds does. A SEMI_OPEN
  count window drops nothing; `PermitsConserved` shows it never has more
  outcomes than its capacity.
- How long a call took is one of the four outcomes it may report; timeouts are
  among them only when `TimeoutThreshold` is set.
- The limiter has no queue: an `acquire` waits while there is no room and may
  give up whenever the configuration lets it wait. A request that must wait
  because others are queued before it is one that waits, or gives up, here too
  (`ImplementsConcurrencyLimiter`).
- `ForceOpen`, `ForceClose` and `Reset` read `cb.state` without the lock, but
  `StateTransition` does not look at what they read: it plays no part here.
- `SameSetting` compares the filled-in `Config` and not the checkers, as
  `isEqual` does.
- `callThreshold` is the configured number converted to `uint32` (`state.go:163`),
  modulo `CountWidth`; the decision compares with the number itself.
- `heard`, `gauge` and `requested` record what the listener was told, what the
  state gauge shows and what a client last asked for; `home` in an object is the
  limiter the breaker had when it was made. No guard reads them.

### How `WeightedSemaphore` corresponds to the code

`cur`, `waiters` and `uncappedConcurrencyCount` are the fields; `ready` holds the
callers whose channel is closed; `mu` is the caller inside `notifyWaiters`' loop,
the only section under the mutex of more than one step.

| `pc` before | action | code |
|---|---|---|
| `idle` | `Count` | the atomic addition at the start of `acquire` |
| `counted` | `Take`, `FailAtOnce`, `Enqueue` | resource enough; doomed or not waiting; pushed on the queue |
| `waiting` | `TakeGrant`, `Expire` | the `select`: `ready`, or `ctx.Done`, also when both are |
| `expired` | `TakeLateGrant`, `GiveUp` | the inner `select` under the mutex |
| `holding` | `Uncount` | the atomic subtraction at the start of `release` |
| `releasing` | `release` | `cur -= n`, and the loop begins |
| `notifying` | `Grant`, `StopNotifying` | one round of `notifyWaiters`; its two ways out |

A waiter's channel is dropped with the waiter, so `ready` forgets it. A deadline
may pass at any moment. A release of more than is held, which FORCED_CLOSED
causes, is in `Breaker` (`Released`) and not here: a caller releases what it got.
`failed` is history: the weight of the calls `acquire` turned away. A counter
wraps at `CountWidth`, where the code's wraps at 2^64.

### How `Windows` corresponds to the code

One behaviour is one window. A position of the ring is a bucket (`buckets`) with
its `startTime`; `Steps` is how far `update` or `getSnapshot` moves the window,
and `MovedBuckets`, `MovedStartTime` and `MovedTotal` are what
`moveWindowToCurrentSecond` (or `moveWindowByOne`) leaves. Durations and
milliseconds are gone: the cached clock counts seconds, goes on by any number of
them (`RefreshClock`), and may be behind `time.Now` when the window is made
(`Lags`). `log` is history, against which the totals are compared. A capacity is
what is left of the configured number after its conversion to `uint32`, and is
positive: a `SlidingWindowSize` that the conversion makes 0 is not covered.

### How `Registry` corresponds to the code

| `pc` before | action | code |
|---|---|---|
| `idle` | `GetLoad` | `Get`: the `Load`, and the return when it found a breaker |
| `missing` | `newCircuitBreaker` | the constructor, gauges included, or the error |
| `built` | `LoadOrStore` | the first to store wins, the others drop theirs |
| `idle` | `Find` | the `Load` of `ForceOpen`, `ForceClose`, `Reset`, `UpdateConfig` by name |
| `found` | `ForceState`, `UpdateConfig`, `RefuseConfig` | the operation on the breaker that was found; an update waits for `breakersMutex` |
| `idle` | `LockForBatch` | `UpdateConfigs` takes `breakersMutex` |
| `checking`, `updating` | `CheckEntry`, `UpdateEntry`, `BatchDone` | its two loops, one entry a step, in any order; a missing breaker panics |
| `idle` | `LockForReset` | `resetBreakers` takes `breakersMutex` |
| `resetting`, `deleting` | `ResetOne`, `DeleteOne`, `ResetDone` | `Range`: reset, then `Delete` |

A breaker is its setting and its state. Breakers live at addresses that are
reused when neither the map nor a running operation refers to them. `Range` ends
when it has visited all that was registered when it began (`before`); a breaker
stored meanwhile it may visit or miss, as `sync.Map` says. A breaker
with an empty name is never registered, so it is one of `Breaker`'s. `handed`
and `doubled` are history: which breakers clients got for a name, and the names
that have had more than one.

## Runs

| Run | Instance | Checks |
|---|---|---|
| `breaker_calls` | 3 callers, SEMI_OPEN of 2 calls, limiter of 2 | `TypeOK`, `PermitsConserved`, `SemiOpenNeverWedged`, `InFlightWithinLimit`, `SemiOpenDecidesOnItsCalls` |
| `breaker_config` | 2 callers; updates among a limited, an unlimited (metrics off) and an invalid configuration; panicking fallbacks | `GenerationsAgree`, `ConfigInForce`, `GaugeShowsState` |
| `breaker_forced` | 2 callers, all forced states and reset, timeouts counted, waiting allowed | `PermitsConserved`, `AutomaticStepsFollowTheTable`, `CallsHoldInstalledStates`, `ImplementsStateMachine` |
| `breaker_liveness` | 2 callers, SEMI_OPEN of 2 calls, limiter of 1 | `OpenEnds`, `SemiOpenEnds` |
| `semaphore_queue` | 3 callers of weight 0 to 3, size 2, waiting allowed | `TypeOK`, `TokensConserved`, `QueueIsTheWaiting`, `NoWaiterLeftAsleep`, `CountDriftsByFailuresOnly`, `FirstComeFirstServed`, `EveryWaiterIsServed`, `ImplementsConcurrencyLimiter` |
| `windows_recent` | both windows, 1 to 3 buckets, 5 seconds, 4 updates | `TypeOK`, `TotalIsSumOfRing`, `RecentCallsCounted`, `TotalsMoveAsBreakerAssumes` |
| `registry_names` | 2 clients, 2 names, 3 configurations (one without metrics, one invalid), forced states, batches, resets | `TypeOK`, `OneBreakerPerName`, `BatchIsAtomic`, `BatchNeverPanics`, `GaugesShowBreaker` |

Together they take about six minutes on two workers; `breaker_config` and
`registry_names`, the largest, have about a million states each.

*Why the bounds are enough.* In `Breaker`, three callers are a call that decides,
one that decides at the same time, and one that is late; two are enough where the
late call races a client instead. `StateRefs` and `LimiterRefs` have two addresses
more than there are callers: one for the breaker, one for each call and a free
one, so a transition is never blocked (`BreakerAssumption` says so, and the
conjunct `FreeRefs # {}` is always true). `MaxTotal` bounds a time window's total and
is no smaller than the minimum number of calls, so CLOSED can decide. The
defaults (100 calls) become 1 or 2; every other number is the code's default.
`CountWidth` is 1000, which all of them fit in, as all but absurd numbers of
calls fit in a `uint32`.
Callers are symmetric: nothing distinguishes them. The liveness runs use no
symmetry. No run of `Breaker` bounds the number of calls, transitions or updates.

In `WeightedSemaphore`, three callers are one that holds, one at the front and
one behind it; weights 0 to 3 for a size of 2 include the free request, the one
that fits beside another, the one that needs all, and the doomed one.
`CountWidth` is 4, small enough that the count really wraps. Nothing bounds the
number of calls. With a `maxWaitDuration` of 0 there is never a queue, and what
is left is `Breaker`'s `acquire`. In `Windows`, a ring of three distinguishes a
clock that stands, goes on by one, by several, and by more than the ring holds,
and wraps; `LastSecond` and `MaxUpdates` are the bounds, and the run stops there,
so deadlock is not checked. In `Registry`, an address for every name and every
client (`RegistryAssumption`) means a constructor is never blocked; two clients
are the two sides of every race the code has: two `Get`s, a `Get` and a batch, a
batch and a reset.

*Fairness.* `Breaker!FairSpec` has weak fairness of each caller's step and of each
running timer. Goroutines are scheduled and mutexes of Go are not starved for
ever; timers fire; and the protected function is assumed to return and callers
to keep calling, without which neither OPEN nor SEMI_OPEN, which are left only
by calls, could end. Nothing obliges anybody to force a state, update a
configuration, register a listener or panic, and weak fairness of `CallStep`
does not choose among its outcomes. The run uses a limiter that does not wait:
the abstract limiter may refuse whoever may wait, and a SEMI_OPEN whose every
call is refused does not end, in the code either. `WeightedSemaphore!FairSpec`
has strong fairness of what a caller does on its own, for it needs the mutex,
which is free only now and then; `sync.Mutex` hands itself to whoever has waited
for long (its starvation mode). `Count` and `Expire` are under no fairness: no
one has to call, and waiters are served though no deadline passes.

### What the code does otherwise than it says

Five runs expect TLC to find a violation. Each checks one property against what
a comment or a test of the repository says.

| Run | Property | What happens |
|---|---|---|
| `force_close` | `InFlightWithinLimit` | A FORCED_CLOSED call whose `acquire` failed still releases at its exit (`cb.go:121`, `entry.go:42`). It gives back tokens of others, and more calls run than `MaxConcurrentCalls`, none of them let through by FORCED_CLOSED. |
| `silent_update` | `ListenerKnowsState` | `updateSetting` installs a CLOSED object without an event (`cb.go:75`), though "StateTransitionEvent is emitted after a state transition" (`event.go:34`). |
| `check_ignored` | `ConfigInForce` | An update between an `ErrorPercentThreshold` of -1 and of 50 is dropped, for the filled-in `Config`s are equal (`cb.go:68`). From -1 to 50 error checking stays off, from 50 to -1 it stays on, though "Negative value disables ErrorPercentThreshold checking" (`config.go:22`) and otherwise the breaker "transitions from CLOSED to OPEN" at the threshold (`config.go:19`). TLC may report either. |
| `window_ahead` | `CallsOfThisSecondCounted` | A time window is made with `time.Now` (`state.go:71`) and moved with the cached clock (`window.go:222`). When that is a second behind, the loop of `moveWindowToCurrentSecond` still runs once and stores a start time ahead of the clock (`window.go:200-209`); from then on each call moves the window by a bucket, and calls of the current second are forgotten, though the window is of "the calls of the last slidingWindowSize seconds" (`config.go:60`). |
| `fallback_panic` | `PermitsConserved` | The fallback of a call over the limit runs before `releasePermission` (`cb.go:122-123`); when it panics the SEMI_OPEN permit is lost. |

The passing runs and the theorems say where each of these is confined: without
`ForceClose` the limit holds, without panicking fallbacks no permit is lost,
with configurations that differ in more than the sign of a threshold the last
one is in force, and a window made on a clock that is not behind counts exactly
the recent calls.

Three more behaviours are stated as they are, inside properties that hold:

- `CountDriftsByFailuresOnly`: an `acquire` that fails stays in
  `uncappedConcurrencyCount` for ever (`concurrency_limiter.go:58`), though
  "on failure, it [...] leaves the semaphore unchanged". Only a metric shows it.
- `GaugesShowBreaker` excepts names that have had two breakers: the loser of two
  racing `Get`s writes the gauges of the winner, and so does a client that still
  holds a breaker deleted by `resetBreakers`.
- `NoWaiterLeftAsleep` excepts a waiter of weight 0, which fits when no token is
  left and is then not looked at by the caller that gives up in front of it
  (`concurrency_limiter.go:102`). `EveryWaiterIsServed` covers it: the next
  release wakes it.

## Proofs

TLC checks small instances; TLAPS proves the same formulas for every number of
callers, clients and names, every configuration, factor, weight and size of
window, with the exceptions the hypotheses in the table name. Of the properties
the passing runs check, only the liveness properties are not theorems.

| Theorem | Property |
|---|---|
| `BreakerTheorems!TypeCorrect` | `[]TypeOK` |
| `PermitConservation` (fallbacks do not panic) | `[]PermitsConserved` |
| `NeverWedged` (fallbacks do not panic; counts fit in a `uint32`) | `[]SemiOpenNeverWedged` |
| `SemiOpenDecides` | `SemiOpenDecidesOnItsCalls` |
| `AutomaticTransitions` | `AutomaticStepsFollowTheTable` |
| `InstalledStates` | `CallsHoldInstalledStates` |
| `GenerationAgreement` | `[]GenerationsAgree` |
| `GaugeCorrect` | `[]GaugeShowsState` |
| `BreakerRefinement!Refinement` | `ImplementsStateMachine` |
| `BreakerLimits!InFlightLimit` (no `ForceClose`) | `[]InFlightWithinLimit` |
| `LastConfigInForce` (no two configurations conflated) | `[]ConfigInForce` |
| `LastNumbersInForce` | the numbers in force are those of the last valid configuration |
| `SemaphoreProofs!TypeCorrect`, `QueueCorrect` | `[]TypeOK`, `[]QueueIsTheWaiting` |
| `TokenConservation`, `CountDrift` | `[]TokensConserved`, `[]CountDriftsByFailuresOnly` |
| `NobodyLeftAsleep` | `[]NoWaiterLeftAsleep` |
| `FirstServed` | `FirstComeFirstServed` |
| `SemaphoreProofs!Refinement` | `ImplementsConcurrencyLimiter` |
| `RegistryProofs!TypeCorrect`, `OneBreaker` | `[]TypeOK`, `[]OneBreakerPerName` |
| `BatchAtomicity`, `NoPanic` | `[]BatchIsAtomic`, `[]BatchNeverPanics` |
| `GaugesCorrect` | `[]GaugesShowBreaker` |
| `WindowsProofs!TypeCorrect`, `TotalsAddUp` | `[]TypeOK`, `[]TotalIsSumOfRing` |
| `MovesAsAssumed` | `TotalsMoveAsBreakerAssumes` |
| `RecentCalls`, `BurstsCounted` (no window ahead of the clock) | `[]RecentCallsCounted`, `[]CallsOfThisSecondCounted` |
| `PercentBounds` | percentages are within 0 and 100, and 100 exactly when every call counts |

*Sums.* Tokens, calls and counters are added up over sets of callers and over
rings. A recursive sum is out of the provers' reach, so a sum is stated as the
number of units (`Counters!Units`): a member of weight 3 contributes three pairs,
and the sum is the cardinality of the set of all pairs. `CommonLemmas` and
`WindowsProofs` prove of it what is needed: adding and removing a member, disjoint
unions, monotonicity, and (`UnitsOfDisjoint`) that the number of elements of
disjoint sets is the sum of their numbers, by a bijection.

### `Breaker`

`BreakerProofs` proves `Spec => []IInv`, where

    IInv == TypeOK /\ Live /\ PermitsBacked /\ Generations

`TypeOK` alone is not inductive: `callCount` stays in `Nat` only because whoever
gives a permit back holds one. `PermitsBacked` says so: each permit is an outcome
in the object's window or a call between `acquirePermission` and its report. It
is an inequality when fallbacks may panic and an equality when they may not.
`Live` says that what the breaker and the calls refer to exists, without which
the objects `PermitsBacked` counts on could be swept away. `Generations` says
that the breaker's object and limiter, and those of each call, were made
together, and that settings have positive counts, so that SEMI_OPEN does not
decide on an empty window. A number of calls that does not fit in a `uint32` only
makes SEMI_OPEN admit fewer (`ThresholdType`), which none of this minds.

The action properties need what a step does to objects in use: `StepFrame` says
that objects keep their kind, setting and permits' threshold while anyone refers
to them, that `state` moves only by an installation, and that verdicts stand.
`NeverWedged` adds `Pending` (a SEMI_OPEN object whose window is full enough has
a call about to decide) and `SemiOpenDecides` adds `Decisive` (a verdict on a
SEMI_OPEN object is what the thresholds say of its window as it is now): these
two are invariants relative to `IInv`, which counts the outcomes still out. Only
`NeverWedged` needs the configured numbers to fit in a `uint32` (`CountsFit`):
with 2^32, which passes validation, SEMI_OPEN admits nobody and waits for calls
for ever.

`Refinement` maps the state machine to the object the breaker points at. Most
steps change other objects, or fields the machine does not see (`SeesNothing`).
A transition enters a fresh object made from the setting in force, which
`Generations` says the old one had too, so the machine's limits stay. That only
a call that has not reported gives its permit back, and only such a call
reports, is `PermitsBacked` (`HolderOutstanding`), an inequality that panicking
fallbacks do not break; that SEMI_OPEN has its results when it ends is
`Decisive`. So the state machine holds with panicking fallbacks, where permits
may be lost but never doubled.

`BreakerLimits` adds `LimitsInv`: a limiter's `cur` is the sum of the factors of
the calls that run on it, no breaker is in FORCED_CLOSED, and a call that was
permitted will ask the limiter. It is kept because a call acquires and releases
on the limiter it entered with, and because a limiter is made empty at an address
no call refers to (`Live`). For `LastConfigInForce` it proves that the setting in
force is that of the last valid configuration (`SettingFollows`): an update is
dropped only when the filled-in configurations are equal. When they may be equal
and the checks differ, the numbers still are right (`LastNumbersInForce`), so the
finding of `check_ignored` reaches no further than the checks.

### `WeightedSemaphore`

    IInv == TypeOK /\ QueueIsTheWaiting /\ MutexOfNotifier /\ QueuedMayWait
            /\ TokensFinite /\ TokensConserved /\ CountDriftsByFailuresOnly
            /\ NoWaiterLeftAsleep

The properties are almost inductive together. `TokensConserved` needs the queue:
a token is charged to a waiter by `Grant`, which takes it from the front, and a
waiter that gives up must not have been charged. `QueueIsTheWaiting` needs that
no caller stands in the queue twice; `NoWaiterLeftAsleep` needs that the mutex is
held exactly by the caller in `notifyWaiters` (`MutexOfNotifier`) and that who is
queued may wait and can be served at all (`QueuedMayWait`). The count is proved
modulo `CountWidth`, for any width. The refinement maps `cur` to the abstract
limiter's, those asking to the callers queued or about to be, those holding to
`Charged`: `Grant`, `Take`, `release` and the ways out of `acquire` are its steps.

### `Registry`

    IInv == TypeOK /\ job \in [Clients -> Job] /\ (\A c \in Clients : ClientFits(c))
            /\ Live /\ Fresh /\ MutexHeld /\ Handed /\ GaugesFollow

`ClientFits` says of each client that what it has in hand suits the place where
it is: a breaker it has found or built exists and has the name it looked for; a
name its batch has checked still has a breaker that takes the configuration; the
settings before and after its batch are those `BatchIsAtomic` speaks of. That
holds while others run because only the holder of `breakersMutex` updates or
deletes (`MutexHeld`). `Fresh` says that a breaker built and not yet stored
is nobody else's, so `LoadOrStore` gives every name one breaker. `GaugesFollow`
strengthens `GaugesShowBreaker` to the time before a breaker is registered, when
its gauges are already written: without two `Get`s at once they are its own.

### `Windows`

    IInv == TypeOK /\ TotalIsSumOfRing /\ CountHolds

`TotalIsSumOfRing` is inductive with `TypeOK`: the buckets a move passes are
different ones, for it never goes further than once around (`StepsRange`), so what
leaves the total is what is reset. It says nothing of which calls the ring holds.
That is `CountHolds` for a count window and `TimeHolds` for a time window: the
bucket a steps behind the current one holds exactly the calls of age a, where age
counts later calls, or seconds. A move makes every call older by the same number,
passes the oldest buckets (`PassedAreOldest`), and may be shorter than that number
when more seconds pass than the ring holds; then every call was to be forgotten
(`MovedHolds`). `TimeHolds` also says that the current bucket is not ahead of the
cached clock, which is true only when no window is made ahead of it: the
hypothesis `Lags \subseteq {0}`. Without it `RecentCallsCounted` is false
(`window_ahead`), so `RecentCalls` and `BurstsCounted` have it and `TypeCorrect`,
`TotalsAddUp` and `MovesAsAssumed` do not.

### Assumptions and limits

*Assumptions.* `BreakerAssumption` (nil is no address, callers are finite, there
is an address for every call, the constants have their types), `NilIsNoObject`
and `NilIsNoLimiter`; `SemaphoreAssumption`, `RegistryAssumption` (an address for
every name and client) with `NilIsNothing`, and `WindowAssumption`. TLC evaluates
them on every run. Six theorems have hypotheses more, named in the table, and
each excludes one of the findings above: `PermitConservation` and `NeverWedged`
are for fallbacks that do not panic (`NeverWedged` also for numbers of calls that
fit in a `uint32`, which no run puts in question), `InFlightLimit` is for clients that do not
call `ForceClose`, `LastConfigInForce` for configurations of which no two become
equal when filled in and yet switch on different checks (`NothingConflated`), and
the two of `Windows` for `Lags \subseteq {0}`. The passing runs meet them.

*Only model-checked.* `OpenEnds`, `SemiOpenEnds` and `EveryWaiterIsServed`:
liveness under fairness is out of the prover's reach. `ListenerKnowsState` is
refuted and holds under no hypothesis worth stating. The three values that
`Percent` rounds below the exact percentage are taken from IEEE-754 arithmetic
and not derived.

## Not modelled

- The cached clock outside windows, request totals, percentage and concurrency
  gauges, request-complete events: output that no step reads. Two of their
  weaknesses are listed as hazards in `PROJECT.json` and only argued: calls that
  end together may write the concurrency gauge in the wrong order
  (`entry.go:60-63`), and a fallback that panics skips the event of its call.
- A listener that calls back into the breaker. It is called with `updateLock`
  held (`cb.go:292`) and would wait for itself; nothing says what it may do.
- `option.go`'s pool: an option has one user at a time.
- How an error is classified when the protected function returns an error of an
  inner breaker (`cb.go:216`): only metrics and events carry the result.
- Contexts of clients that are cancelled: a waiter's deadline covers them.
- `String` methods, wording of errors, logging, the mock clock of the tests.

## Plan

Done: the breaker, the limiter, the windows and the registry, modelled and
checked; every safety property and both refinements proved. Left, in order:

1. What a call that panics in its exit may cost: the conditions under which
   SEMI_OPEN still ends when fallbacks panic, as an invariant weaker than
   `SemiOpenNeverWedged`.
2. That `Breaker`'s calls and `WeightedSemaphore`'s callers stay in step: the
   assumption `Breaker` makes of its limiter is proved, the assumption the
   semaphore makes of its callers (no release without an acquire) is `Breaker`'s
   only without `ForceClose`.
3. A listener that calls back into the breaker, against the locks, if the
   repository comes to say what a listener may do.
