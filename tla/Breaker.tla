------------------------------- MODULE Breaker -------------------------------
(***************************************************************************)
(* One CircuitBreaker (cb.go, state.go, entry.go) used by concurrent       *)
(* callers.  The breaker points at a state object; every transition        *)
(* installs a new object, and a call keeps the object it read on entry     *)
(* until it returns.  Most of what can go wrong comes from calls that act  *)
(* on an object the breaker has already left.                              *)
(*                                                                         *)
(* Each critical section of the code (updateLock, callCountLock, a         *)
(* window's or the semaphore's mutex, one channel receive) is one action,  *)
(* and a call is interleaved with everything else between two of them.     *)
(***************************************************************************)
EXTENDS Limiters, States, FiniteSets

CONSTANTS
  Callers,           (* goroutines that call Protect or Enter/Exit           *)
  StateRefs,         (* addresses of state objects, reused once unreachable  *)
  LimiterRefs,       (* addresses of concurrency limiters, reused likewise   *)
  None,              (* the nil pointer                                      *)
  Configs,           (* the configurations clients create and update with    *)
  Factors,           (* amplifying factors of calls                          *)
  AdminTargets,      (* states the clients force: see AdminTransition        *)
  ListenersRegister, (* whether clients register an event listener           *)
  FallbackMayPanic,  (* whether a client's fallback function may panic       *)
  CountWidth,        (* bound: where a uint32 wraps                          *)
  MaxTotal           (* bound: outcomes a time window may hold at once       *)

ASSUME BreakerAssumption ==
  /\ None \notin StateRefs /\ None \notin LimiterRefs /\ None \notin Kinds
  /\ IsFiniteSet(Callers)
  /\ Configs \subseteq Config
  /\ Factors \subseteq Nat
  /\ AdminTargets \subseteq {"ForcedOpen", "ForcedClosed", "Closed"}
  /\ ListenersRegister \in BOOLEAN
  /\ FallbackMayPanic \in BOOLEAN
  /\ CountWidth \in Nat \ {0}
  /\ MaxTotal \in Nat \ {0}
  /\ \A S \in {StateRefs, LimiterRefs} :
       IsFiniteSet(S) /\ Cardinality(S) >= Cardinality(Callers) + 2

VARIABLES
  state,      (* cb.state: the address of the current state object           *)
  setting,    (* cb.setting                                                  *)
  limiter,    (* cb.concurrencyLimiter: an address                           *)
  heap,       (* state objects by address; None where nothing lives          *)
  limiters,   (* limiters by address                                         *)
  pc,         (* where each caller is                                        *)
  entry,      (* what a call holds: the fields of its Entry                  *)
  verdict,    (* the state a finished call wants the breaker to move to      *)
  heard,      (* what the registered listener last heard the state to be     *)
  gauge,      (* the state the metric circuitbreaker_state_count shows       *)
  requested   (* history: the last valid Config a client passed              *)

vars == <<state, setting, limiter, heap, limiters, pc, entry, verdict, heard,
          gauge, requested>>

breakerVars == <<state, setting, limiter, heard, gauge, requested>>

-----------------------------------------------------------------------------
(* State objects.                                                          *)

(***************************************************************************)
(* newStateInstance.  An object keeps the setting it was made from (an     *)
(* openState drops it, and never reads it), its window's total, the        *)
(* permits it handed out and its timer.  "home" is history: the limiter    *)
(* the breaker had when the object was made.                               *)
(***************************************************************************)
newStateInstance(to, s, lim) ==
  [kind      |-> to,
   setting   |-> s,
   home      |-> lim,
   total     |-> NoCounts,
   callCount |-> 0,
   waitTimer |-> IF to = "Open" THEN "running" ELSE "drained"]

StateObject ==
  [kind      : Kinds,
   setting   : Setting,
   home      : LimiterRefs,
   total     : Counter,
   callCount : Nat,
   waitTimer : {"running", "fired", "drained"}]

ASSUME NilIsNoObject == None \notin StateObject

ASSUME NilIsNoLimiter == None \notin Limiter

Kind(ref) == heap[ref].kind

(***************************************************************************)
(* newSemiOpenState converts the configured number to uint32; the decision *)
(* compares with the number itself.  callCount needs no width: it is never *)
(* above callThreshold nor, by TypeOK, below zero.                         *)
(***************************************************************************)
callThreshold(ref) ==
  heap[ref].setting.Config.NumberOfCallsInSemiOpenState % CountWidth

(* The calls a SEMI_OPEN state waits for before it decides.                *)
ProbesNeeded(obj) ==
  LET c == obj.setting.Config
  IN  IF c.MinimumNumberOfCalls < c.NumberOfCallsInSemiOpenState
      THEN c.MinimumNumberOfCalls ELSE c.NumberOfCallsInSemiOpenState

(***************************************************************************)
(* What a window may still hold when the next outcome arrives: a time      *)
(* window drops the seconds that have passed, here any part of what it     *)
(* holds; a SEMI_OPEN count window drops nothing, for PermitsConserved     *)
(* shows it never holds more outcomes than it has room for.                *)
(***************************************************************************)
Kept(obj) ==
  IF obj.kind = "SemiOpen" THEN {obj.total}
  ELSE {k \in [total : 0..(MaxTotal - 1), errors : 0..MaxTotal, timeouts : 0..MaxTotal] :
          k \in Counter /\ subtract(obj.total, k) \in Counter}

(* onError and onSuccess: the open states only read their window.          *)
WindowsAfter(obj, outcome) ==
  IF obj.kind \in {"Open", "ForcedOpen"} THEN {obj.total}
  ELSE {add(k, outcome) : k \in Kept(obj)}

OneCallTooMany(obj, snapshot) ==
  \/ obj.kind = "Closed" /\ snapshot.total >= obj.setting.Config.MinimumNumberOfCalls
  \/ obj.kind = "SemiOpen" /\ snapshot.total > ProbesNeeded(obj)

AnyCall(obj, snapshot) ==
  \/ obj.kind = "Closed" /\ snapshot.total >= obj.setting.Config.MinimumNumberOfCalls
  \/ obj.kind = "SemiOpen"

(* Whether a state decides on a window with that many calls.               *)
EnoughCalls(obj, snapshot) ==
  \/ obj.kind = "Closed" /\ snapshot.total >= obj.setting.Config.MinimumNumberOfCalls
  \/ obj.kind = "SemiOpen" /\ snapshot.total >= ProbesNeeded(obj)

(* shouldStateTransition(snapshot, onRequestEnd); None: stay.              *)
VerdictOn(obj, snapshot) ==
  CASE ~EnoughCalls(obj, snapshot) -> None
    [] EnoughCalls(obj, snapshot) /\ isThresholdsExceed(obj.setting, snapshot) -> "Open"
    [] OTHER -> IF obj.kind = "SemiOpen" THEN "Closed" ELSE None

(* acquirePermission of the five states.                                   *)
Permits(ref) ==
  \/ Kind(ref) \in {"Closed", "ForcedClosed"}
  \/ Kind(ref) = "SemiOpen" /\ heap[ref].callCount < callThreshold(ref)

(* callCount of the object that gave, or got back, a permit.               *)
GrantUncounted(obj) == obj

Granted(obj) ==
  IF obj.kind = "SemiOpen" THEN [obj EXCEPT !.callCount = @ + 1] ELSE obj

RefundForgotten(obj) == obj

Refunded(obj) ==
  IF obj.kind = "SemiOpen" THEN [obj EXCEPT !.callCount = @ - 1] ELSE obj

shouldCheckForMaxConcurrency(ref) == Kind(ref) \notin {"ForcedOpen", "ForcedClosed"}

-----------------------------------------------------------------------------
(* Addresses.  Go reuses an address only when nothing refers to it.        *)

NoEntry == [state |-> None, setting |-> None, limiter |-> None, factor |-> 0]

Swept(h, st, e) ==
  [r \in StateRefs |-> IF r = st \/ \E c \in Callers : e[c].state = r THEN h[r] ELSE None]

SweptLimiters(l, lim, e) ==
  [r \in LimiterRefs |-> IF r = lim \/ \E c \in Callers : e[c].limiter = r THEN l[r] ELSE None]

FreeRefs        == {r \in StateRefs : heap[r] = None}
FreeLimiterRefs == {r \in LimiterRefs : limiters[r] = None}

(* The call of caller c returns.                                           *)
Return(c) ==
  /\ pc' = [pc EXCEPT ![c] = "idle"]
  /\ entry' = [entry EXCEPT ![c] = NoEntry]
  /\ verdict' = [verdict EXCEPT ![c] = None]

-----------------------------------------------------------------------------
(* Transitions.                                                            *)

KindMayTransition(fromStateRef, to) ==
  <<Kind(fromStateRef), to>> \in validAutomaticStateTransitions

(* An automatic transition is refused when the breaker has moved on.       *)
MayTransition(fromStateRef, to) ==
  /\ fromStateRef = state
  /\ <<Kind(fromStateRef), to>> \in validAutomaticStateTransitions

InstallUngauged(to, ref, e) ==
  /\ heap' = Swept([heap EXCEPT ![ref] = newStateInstance(to, setting, limiter)], ref, e)
  /\ state' = ref
  /\ heard' = IF heard = "nobody" THEN heard ELSE to
  /\ UNCHANGED <<setting, limiter, gauge, requested>>

(***************************************************************************)
(* The rest of StateTransition: a new object, the state gauge, the event.  *)
(* e is the value of entry after the step, which decides what survives.    *)
(***************************************************************************)
Install(to, ref, e) ==
  /\ heap' = Swept([heap EXCEPT ![ref] = newStateInstance(to, setting, limiter)], ref, e)
  /\ state' = ref
  /\ gauge' = IF setting.Config.MetricsDisabled THEN gauge ELSE to
  /\ heard' = IF heard = "nobody" THEN heard ELSE to
  /\ UNCHANGED <<setting, limiter, requested>>

(* ForceOpen, ForceClose and Reset.                                        *)
AdminTransition(to) ==
  /\ FreeRefs # {}
  /\ Install(to, CHOOSE r \in FreeRefs : TRUE, entry)
  /\ UNCHANGED <<limiters, pc, entry, verdict>>

RegisterEventListener ==
  /\ ListenersRegister
  /\ heard' = "nothing"
  /\ UNCHANGED <<state, setting, limiter, heap, limiters, pc, entry, verdict, gauge, requested>>

SameThreshold(newSetting) ==
  newSetting.Config.ErrorPercentThreshold = setting.Config.ErrorPercentThreshold

(* updateSetting's early return: nothing to do for an equal Config.        *)
SameSetting(newSetting) == newSetting.Config = setting.Config

(* UpdateConfig: updateSetting emits no event.                             *)
UpdateConfig(config) ==
  LET newSetting == fillDefaultsAndGetSetting(config)
      ref        == CHOOSE r \in FreeRefs : TRUE
      lim        == CHOOSE r \in FreeLimiterRefs : TRUE
  IN  /\ IsValidConfig(config)
      /\ requested' = config
      /\ \/ /\ SameSetting(newSetting)
            /\ UNCHANGED <<state, setting, limiter, heap, limiters, heard, gauge>>
         \/ /\ ~SameSetting(newSetting)
            /\ FreeRefs # {} /\ FreeLimiterRefs # {}
            /\ setting' = newSetting
            /\ limiter' = lim
            /\ limiters' = SweptLimiters(
                 [limiters EXCEPT ![lim] = newConcurrencyLimiter(newSetting)], lim, entry)
            /\ state' = ref
            /\ heap' = Swept(
                 [heap EXCEPT ![ref] = newStateInstance("Closed", newSetting, lim)], ref, entry)
            /\ gauge' = IF newSetting.Config.MetricsDisabled THEN gauge ELSE "Closed"
            /\ UNCHANGED heard
      /\ UNCHANGED <<pc, entry, verdict>>

(* The timer of an open state sends its one tick.                          *)
TimerFires(ref) ==
  /\ heap[ref] # None
  /\ heap[ref].waitTimer = "running"
  /\ heap' = [heap EXCEPT ![ref].waitTimer = "fired"]
  /\ UNCHANGED <<breakerVars, limiters, pc, entry, verdict>>

-----------------------------------------------------------------------------
(* A call: enterWithFallback, the protected function, exitWithFallback.    *)

(* The read of state, setting and limiter under one RLock.                 *)
Enter(c) ==
  /\ pc[c] = "idle"
  /\ \E f \in Factors :
       entry' = [entry EXCEPT ![c] =
         [state |-> state, setting |-> setting, limiter |-> limiter, factor |-> f]]
  /\ pc' = [pc EXCEPT ![c] = "entered"]
  /\ UNCHANGED <<breakerVars, heap, limiters, verdict>>

TickLost(c) ==
  LET ref == entry[c].state
  IN  /\ pc[c] = "entered"
      /\ heap[ref].waitTimer = "fired"
      /\ heap' = [heap EXCEPT ![ref].waitTimer = "drained"]
      /\ UNCHANGED <<breakerVars, limiters, entry, verdict, pc>>

(* The receive in openState.shouldStateTransition takes the only tick.     *)
TakeTick(c) ==
  LET ref == entry[c].state
  IN  /\ pc[c] = "entered"
      /\ heap[ref].waitTimer = "fired"
      /\ heap' = [heap EXCEPT ![ref].waitTimer = "drained"]
      /\ pc' = [pc EXCEPT ![c] = "promote"]
      /\ UNCHANGED <<breakerVars, limiters, entry, verdict>>

PromoteRegardless(c) ==
  /\ pc[c] = "promote"
  /\ FreeRefs # {}
  /\ pc' = [pc EXCEPT ![c] = "entered"]
  /\ LET ref == CHOOSE r \in FreeRefs : TRUE
     IN  /\ entry' = [entry EXCEPT ![c].state = ref]
         /\ \/ /\ MayTransition(entry[c].state, "SemiOpen")
               /\ Install("SemiOpen", ref, entry')
            \/ /\ ~MayTransition(entry[c].state, "SemiOpen")
               /\ heap' = [heap EXCEPT ![ref] = newStateInstance("SemiOpen", setting, limiter)]
               /\ UNCHANGED breakerVars
  /\ UNCHANGED <<limiters, verdict>>

(* StateTransition to SEMI_OPEN: the call goes on with what it returns.    *)
Promote(c) ==
  /\ pc[c] = "promote"
  /\ pc' = [pc EXCEPT ![c] = "entered"]
  /\ \/ /\ MayTransition(entry[c].state, "SemiOpen")
        /\ FreeRefs # {}
        /\ LET ref == CHOOSE r \in FreeRefs : TRUE
           IN  /\ entry' = [entry EXCEPT ![c].state = ref]
               /\ Install("SemiOpen", ref, entry')
     \/ /\ ~MayTransition(entry[c].state, "SemiOpen")
        /\ UNCHANGED <<breakerVars, heap, entry>>
  /\ UNCHANGED <<limiters, verdict>>

(***************************************************************************)
(* acquirePermission.  A refused call runs its fallback, reports and       *)
(* returns, whether or not the fallback panics: neither touches the        *)
(* breaker.                                                                *)
(***************************************************************************)
acquirePermission(c) ==
  LET ref == entry[c].state
  IN  /\ pc[c] = "entered"
      /\ heap[ref].waitTimer # "fired"
      /\ \/ /\ Permits(ref)
            /\ heap' = [heap EXCEPT ![ref] = Granted(@)]
            /\ pc' = [pc EXCEPT ![c] = "permitted"]
            /\ UNCHANGED <<limiters, entry, verdict>>
         \/ /\ ~Permits(ref)
            /\ Return(c)
            /\ heap' = Swept(heap, state, entry')
            /\ limiters' = SweptLimiters(limiters, limiter, entry')
      /\ UNCHANGED breakerVars

(***************************************************************************)
(* currLimiter.acquire.  FORCED_CLOSED runs the call whether or not it got *)
(* its share of the limiter.                                               *)
(***************************************************************************)
acquire(c) ==
  LET lim == entry[c].limiter
      n   == entry[c].factor
  IN  /\ pc[c] = "permitted"
      /\ \/ /\ HasRoom(limiters[lim], n)
            /\ limiters' = [limiters EXCEPT ![lim] = Acquired(@, n)]
            /\ pc' = [pc EXCEPT ![c] = "running"]
         \/ /\ MayRefuse(limiters[lim], n)
            /\ pc' = [pc EXCEPT ![c] =
                 IF shouldCheckForMaxConcurrency(entry[c].state) THEN "refused" ELSE "running"]
            /\ UNCHANGED limiters
      /\ UNCHANGED <<breakerVars, heap, entry, verdict>>

(* A call over the limit: fallback, then releasePermission, then return.   *)
releasePermission(c) ==
  LET ref == entry[c].state
  IN  /\ pc[c] = "refused"
      /\ Return(c)
      /\ heap' = Swept([heap EXCEPT ![ref] = Refunded(@)], state, entry')
      /\ limiters' = SweptLimiters(limiters, limiter, entry')
      /\ UNCHANGED breakerVars

(* The fallback of a call over the limit panics before releasePermission.  *)
FallbackPanics(c) ==
  /\ FallbackMayPanic
  /\ pc[c] = "refused"
  /\ Return(c)
  /\ heap' = Swept(heap, state, entry')
  /\ limiters' = SweptLimiters(limiters, limiter, entry')
  /\ UNCHANGED breakerVars

(* The protected function has returned or panicked: exitWithFallback.      *)
release(c) ==
  LET lim == entry[c].limiter
  IN  /\ pc[c] = "running"
      /\ limiters' = [limiters EXCEPT ![lim] = Released(@, entry[c].factor)]
      /\ pc' = [pc EXCEPT ![c] = "released"]
      /\ UNCHANGED <<breakerVars, heap, entry, verdict>>

(* What a finished call reports; a panic of the function is no error.      *)
OutcomesOf(s) ==
  IF s.Config.TimeoutThreshold > 0 THEN Outcomes ELSE Outcomes \ TimeoutOutcomes

(***************************************************************************)
(* onError or onSuccess, the fallback, and shouldStateTransition on the    *)
(* snapshot just taken.  A call with no verdict returns; so does one whose *)
(* fallback panics.                                                        *)
(***************************************************************************)
Report(c) ==
  LET ref == entry[c].state
  IN  /\ pc[c] = "released"
      /\ \E outcome \in OutcomesOf(entry[c].setting) :
           \E k \in WindowsAfter(heap[ref], outcome) :
             LET updated == [heap EXCEPT ![ref].total = k]
                 to      == VerdictOn(heap[ref], k)
             IN  \/ /\ to # None
                    /\ heap' = updated
                    /\ verdict' = [verdict EXCEPT ![c] = to]
                    /\ pc' = [pc EXCEPT ![c] = "deciding"]
                    /\ UNCHANGED <<entry, limiters>>
                 \/ /\ \/ to = None
                       \/ FallbackMayPanic /\ outcome \in ErrorOutcomes
                    /\ Return(c)
                    /\ heap' = Swept(updated, state, entry')
                    /\ limiters' = SweptLimiters(limiters, limiter, entry')
      /\ UNCHANGED breakerVars

(* StateTransition on the verdict, and the return of the call.             *)
Decide(c) ==
  /\ pc[c] = "deciding"
  /\ Return(c)
  /\ \/ /\ MayTransition(entry[c].state, verdict[c])
        /\ FreeRefs # {}
        /\ Install(verdict[c], CHOOSE r \in FreeRefs : TRUE, entry')
     \/ /\ ~MayTransition(entry[c].state, verdict[c])
        /\ heap' = Swept(heap, state, entry')
        /\ UNCHANGED breakerVars
  /\ limiters' = SweptLimiters(limiters, limiter, entry')

-----------------------------------------------------------------------------

(* newCircuitBreaker, with any valid configuration.                        *)
Init ==
  \E config \in Configs :
    LET s == fillDefaultsAndGetSetting(config)
    IN  /\ IsValidConfig(config)
        /\ requested = config
        /\ setting = s
        /\ state \in StateRefs
        /\ limiter \in LimiterRefs
        /\ state = CHOOSE r \in StateRefs : TRUE
        /\ limiter = CHOOSE r \in LimiterRefs : TRUE
        /\ heap = [r \in StateRefs |->
                     IF r = state THEN newStateInstance("Closed", s, limiter) ELSE None]
        /\ limiters = [r \in LimiterRefs |->
                     IF r = limiter THEN newConcurrencyLimiter(s) ELSE None]
        /\ pc = [c \in Callers |-> "idle"]
        /\ entry = [c \in Callers |-> NoEntry]
        /\ verdict = [c \in Callers |-> None]
        /\ heard = "nobody"
        /\ gauge = IF s.Config.MetricsDisabled THEN "unset" ELSE "Closed"

CallStep(c) ==
  \/ Enter(c)
  \/ TakeTick(c)
  \/ Promote(c)
  \/ acquirePermission(c)
  \/ acquire(c)
  \/ releasePermission(c)
  \/ FallbackPanics(c)
  \/ release(c)
  \/ Report(c)
  \/ Decide(c)

Next ==
  \/ \E c \in Callers : CallStep(c)
  \/ \E ref \in StateRefs : TimerFires(ref)
  \/ \E to \in AdminTargets : AdminTransition(to)
  \/ \E config \in Configs : UpdateConfig(config)
  \/ RegisterEventListener

Spec == Init /\ [][Next]_vars

(***************************************************************************)
(* Clients keep calling, protected functions return, goroutines run and    *)
(* timers fire.  Nothing obliges a client to force a state, to update the  *)
(* configuration or to panic.                                              *)
(***************************************************************************)
Fairness ==
  /\ \A c \in Callers : WF_vars(CallStep(c))
  /\ \A ref \in StateRefs : WF_vars(TimerFires(ref))

FairSpec == Spec /\ Fairness

-----------------------------------------------------------------------------
(* Properties.                                                             *)

PCs == {"idle", "entered", "promote", "permitted", "refused", "running",
        "released", "deciding"}

Entry ==
  [state : StateRefs, setting : Setting, limiter : LimiterRefs, factor : Factors]

TypeOK ==
  /\ state \in StateRefs
  /\ setting \in Setting
  /\ limiter \in LimiterRefs
  /\ heap \in [StateRefs -> StateObject \cup {None}]
  /\ limiters \in [LimiterRefs -> Limiter \cup {None}]
  /\ pc \in [Callers -> PCs]
  /\ entry \in [Callers -> Entry \cup {NoEntry}]
  /\ verdict \in [Callers -> {"Open", "Closed", None}]
  /\ heard \in Kinds \cup {"nobody", "nothing"}
  /\ gauge \in Kinds \cup {"unset"}
  /\ requested \in Configs

(* The calls that hold one of a SEMI_OPEN object's permits and have not    *)
(* reported yet.                                                           *)
PermitHolders(ref) ==
  {c \in Callers : /\ entry[c].state = ref
                   /\ pc[c] \in {"permitted", "refused", "running", "released"}}

IsSemiOpen(ref) == heap[ref] # None /\ Kind(ref) = "SemiOpen"

(***************************************************************************)
(* Every permit of a SEMI_OPEN object is either held by one call that will *)
(* report or give it back, or stands for one outcome in the object's       *)
(* window; and no more permits are out than the configuration allows.      *)
(* acquirePermission, releasePermission and the window update lock three   *)
(* different mutexes, and late calls of other objects run in between.      *)
(***************************************************************************)
PermitsConserved ==
  \A ref \in StateRefs : IsSemiOpen(ref) =>
    /\ heap[ref].callCount = heap[ref].total.total + Cardinality(PermitHolders(ref))
    /\ heap[ref].callCount <= callThreshold(ref)

(***************************************************************************)
(* A breaker in SEMI_OPEN that has no permit left has a call in flight     *)
(* that can still end SEMI_OPEN.  SEMI_OPEN has no timer: without such a   *)
(* call every later call would be refused for ever.                        *)
(***************************************************************************)
SemiOpenNeverWedged ==
  IsSemiOpen(state) /\ heap[state].callCount >= callThreshold(state) =>
    \E c \in Callers :
      entry[c].state = state /\ pc[c] \notin {"idle", "entered", "promote"}

(***************************************************************************)
(* A step of a call moves the breaker only along the table of automatic    *)
(* transitions, taken from the state the breaker is really in, not from    *)
(* the one the call remembers: so a forced state is never left by a call   *)
(* that started before it was forced.                                      *)
(***************************************************************************)
AutomaticStep == state' # state /\ pc' # pc

AutomaticStepsFollowTheTable ==
  [][AutomaticStep =>
       <<Kind(state), heap'[state'].kind>> \in validAutomaticStateTransitions]_vars

(***************************************************************************)
(* The breaker leaves SEMI_OPEN on its own only after enough of its calls  *)
(* have reported.  When MinimumNumberOfCalls is no smaller than the number *)
(* of calls SEMI_OPEN admits, it is all of them, and the new state is what *)
(* the thresholds say of all of them, however late the deciding call comes *)
(* to take the lock.                                                       *)
(***************************************************************************)
SemiOpenDecidesOnItsCalls ==
  [][AutomaticStep /\ Kind(state) = "SemiOpen" =>
       LET c     == heap[state].setting.Config
           calls == c.NumberOfCallsInSemiOpenState
           total == heap[state].total
       IN  /\ total.total >= calls \/ total.total >= c.MinimumNumberOfCalls
           /\ c.MinimumNumberOfCalls >= calls =>
                (heap'[state'].kind = "Open" <=>
                   isThresholdsExceed(heap[state].setting, total))]_vars

(***************************************************************************)
(* A call only ever works on state objects that were the breaker's own     *)
(* when it obtained them: none is handed a SEMI_OPEN object, with a fresh  *)
(* set of permits, that the breaker did not install.                       *)
(***************************************************************************)
CallsHoldInstalledStates ==
  [][\A c \in Callers :
       entry'[c].state # entry[c].state => entry'[c].state \in {state', None}]_vars

(***************************************************************************)
(* The calls in flight on a limiter weigh no more than MaxConcurrentCalls, *)
(* not counting those FORCED_CLOSED let through.                           *)
(***************************************************************************)
Limited(c, lim) ==
  /\ pc[c] = "running"
  /\ entry[c].limiter = lim
  /\ Kind(entry[c].state) # "ForcedClosed"

InFlightWithinLimit ==
  \A lim \in LimiterRefs :
    limiters[lim] # None /\ limiters[lim].size > 0 =>
      Cardinality(Units([c \in Callers |-> entry[c].factor],
                         {c \in Callers : Limited(c, lim)}))
        <= limiters[lim].size

(***************************************************************************)
(* A call counts against the limiter of the configuration its state object *)
(* belongs to, even when the object was installed by the call itself, long *)
(* after it read the limiter.                                              *)
(***************************************************************************)
GenerationsAgree ==
  \A c \in Callers :
    pc[c] # "idle" => /\ heap[entry[c].state].home = entry[c].limiter
                      /\ heap[entry[c].state].setting = entry[c].setting

(***************************************************************************)
(* The breaker, its state object and its limiter work by the last valid    *)
(* configuration a client gave.                                            *)
(***************************************************************************)
ConfigInForce ==
  LET wanted == fillDefaultsAndGetSetting(requested)
  IN  /\ setting = wanted
      /\ heap[state].setting = wanted
      /\ limiters[limiter].size = wanted.Config.MaxConcurrentCalls

(* With metrics on, the state gauge shows the breaker's state, also after  *)
(* an update that turns metrics back on.                                   *)
GaugeShowsState == ~setting.Config.MetricsDisabled => gauge = Kind(state)

(* What a listener was last told is the breaker's state.                   *)
ListenerKnowsState == heard \in {"nobody", "nothing", Kind(state)}

(* OPEN ends: callers keep coming, and the timer's only tick is not lost.  *)
OpenEnds == Kind(state) = "Open" ~> Kind(state) # "Open"

(* SEMI_OPEN ends: calls that hold its permits finish, and one decides.    *)
SemiOpenEnds == Kind(state) = "SemiOpen" ~> Kind(state) # "SemiOpen"

(***************************************************************************)
(* Whatever objects the calls in flight hold, the breaker's state behaves  *)
(* as StateMachine says, seen from the object it points at.                *)
(***************************************************************************)
Probes(n) == IF Kind(state) = "SemiOpen" THEN n ELSE 0

Machine ==
  INSTANCE StateMachine WITH
    mode    <- Kind(state),
    limits  <- [calls |-> callThreshold(state), needed |-> ProbesNeeded(heap[state])],
    permits <- Probes(heap[state].callCount),
    results <- Probes(heap[state].total.total)

ImplementsStateMachine == Machine!Spec
=============================================================================
