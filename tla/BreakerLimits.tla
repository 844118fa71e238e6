---------------------------- MODULE BreakerLimits ----------------------------
(***************************************************************************)
(* What two bugs of the code break, and what holds without them: the limit *)
(* on calls in flight when no client calls ForceClose, and the last valid  *)
(* configuration when no two configurations differ only in the checks they *)
(* switch on.  The runs force_close and check_ignored show the bugs.       *)
(***************************************************************************)
EXTENDS BreakerTheorems

-----------------------------------------------------------------------------
(* The limit on calls in flight.                                           *)

Weights == [c \in Callers |-> entry[c].factor]

Running(lim) == {c \in Callers : pc[c] = "running" /\ entry[c].limiter = lim}

(* The tokens taken are those of the running calls, within the size.       *)
LimiterFits(lim) ==
  limiters[lim] # None =>
    /\ IsFiniteSet(Units(Weights, Running(lim)))
    /\ limiters[lim].size > 0 =>
         /\ limiters[lim].cur = Cardinality(Units(Weights, Running(lim)))
         /\ limiters[lim].cur <= limiters[lim].size

NeverForcedClosed ==
  \A r \in StateRefs : heap[r] # None => Kind(r) # "ForcedClosed"

(* Without FORCED_CLOSED, a call that was permitted respects the limiter.  *)
PermittedFits ==
  \A c \in Callers : pc[c] = "permitted" => shouldCheckForMaxConcurrency(entry[c].state)

LimitsInv ==
  /\ \A lim \in LimiterRefs : LimiterFits(lim)
  /\ NeverForcedClosed
  /\ PermittedFits

(* A step in which no call starts or stops running, and no limiter is made. *)
LimiterQuiet ==
  /\ \A lim \in LimiterRefs : limiters'[lim] \in {limiters[lim], None}
  /\ \A c \in Callers :
       /\ pc'[c] = "running" <=> pc[c] = "running"
       /\ pc[c] = "running" => entry'[c] = entry[c]

LEMMA QuietLimits ==
  ASSUME \A lim \in LimiterRefs : LimiterFits(lim), LimiterQuiet
  PROVE  \A lim \in LimiterRefs : LimiterFits(lim)'
<1> SUFFICES ASSUME NEW lim \in LimiterRefs PROVE LimiterFits(lim)'
  OBVIOUS
<1>1. Running(lim)' = Running(lim)
  BY DEF Running, LimiterQuiet
<1>2. PICK v, w, S : v = Weights /\ w = Weights' /\ S = Running(lim)
  OBVIOUS
<1>3. \A c \in S : v[c] = w[c]
  BY <1>2 DEF Weights, Running, LimiterQuiet
<1>4. Units(v, S) = Units(w, S)
  BY <1>3, UnitsSame
<1>5. Units(Weights, Running(lim))' = Units(Weights, Running(lim))
  BY <1>1, <1>2, <1>4 DEF Units
<1>6. limiters'[lim] \in {limiters[lim], None} /\ LimiterFits(lim)
  BY DEF LimiterQuiet
<1> QED
  BY <1>5, <1>6 DEF LimiterFits

LEMMA ReturnQuiet ==
  ASSUME IInv, NEW c \in Callers, pc[c] # "running", Return(c),
         limiters' = SweptLimiters(limiters, limiter, entry')
  PROVE  LimiterQuiet
BY DEF IInv, TypeOK, LimiterQuiet, Return, SweptLimiters

(* A call takes its tokens.                                                *)
LEMMA acquireLimits ==
  ASSUME IInv, LimitsInv, NEW c \in Callers, acquire(c)
  PROVE  \A lim \in LimiterRefs : LimiterFits(lim)'
<1>0. /\ pc[c] = "permitted" /\ entry[c] \in Entry
      /\ entry' = entry
      /\ limiters \in [LimiterRefs -> Limiter \cup {None}]
      /\ pc \in [Callers -> PCs]
  BY DEF acquire, IInv, TypeOK, Live
<1>1. PICK l \in LimiterRefs, k \in Factors : l = entry[c].limiter /\ k = entry[c].factor
  BY <1>0 DEF Entry
<1>2. CASE pc' = [pc EXCEPT ![c] = "refused"] /\ limiters' = limiters
  BY <1>0, <1>2, QuietLimits DEF LimitsInv, LimiterQuiet
<1>3. CASE /\ HasRoom(limiters[l], k)
           /\ limiters' = [limiters EXCEPT ![l] = Acquired(limiters[l], k)]
           /\ pc' = [pc EXCEPT ![c] = "running"]
  <2> SUFFICES ASSUME NEW lim \in LimiterRefs PROVE LimiterFits(lim)'
    OBVIOUS
  <2>1. Weights' = Weights
    BY <1>0 DEF Weights
  <2>2. CASE lim # l
    <3>1. Running(lim)' = Running(lim) /\ limiters'[lim] = limiters[lim]
      BY <1>0, <1>1, <1>3, <2>2 DEF Running
    <3> QED
      BY <2>1, <3>1 DEF LimiterFits, LimitsInv, Units
  <2>3. CASE lim = l
    <3>1. limiters[l] # None /\ limiters[l] \in Limiter
      BY <1>0, <1>1 DEF IInv, Live
    <3>2. PICK w, S : w = Weights /\ S = Running(l)
      OBVIOUS
    <3>3. c \notin S /\ Running(l)' = S \cup {c} /\ w[c] = k /\ k \in Nat
      BY <1>0, <1>1, <1>3, <3>2, BreakerAssumption DEF Running, Weights
    <3>4. /\ IsFiniteSet(Units(w, S))
          /\ limiters[l].size > 0 => limiters[l].cur = Cardinality(Units(w, S))
      BY <3>1, <3>2 DEF LimitsInv, LimiterFits
    <3>5. /\ IsFiniteSet(Units(w, S \cup {c}))
          /\ Cardinality(Units(w, S \cup {c})) = Cardinality(Units(w, S)) + k
      BY <3>3, <3>4, UnitsAdd
    <3>6. Units(Weights, Running(l))' = Units(w, S \cup {c})
      BY <2>1, <3>2, <3>3 DEF Units
    <3>7. limiters'[l] = Acquired(limiters[l], k)
      BY <1>0, <1>3
    <3>8. CASE limiters[l].size > 0
      <4>1. /\ limiters'[l].size = limiters[l].size
            /\ limiters'[l].cur = limiters[l].cur + k
            /\ limiters[l].cur + k <= limiters[l].size
        BY <1>3, <3>1, <3>3, <3>7, <3>8 DEF Acquired, HasRoom, Limiter
      <4> QED
        BY <2>3, <3>4, <3>5, <3>6, <3>8, <4>1 DEF LimiterFits
    <3>9. CASE ~(limiters[l].size > 0)
      <4>1. limiters'[l] = limiters[l]
        BY <3>1, <3>7, <3>9 DEF Acquired, Limiter
      <4> QED
        BY <2>3, <3>5, <3>6, <3>9, <4>1 DEF LimiterFits
    <3> QED
      BY <3>8, <3>9
  <2> QED
    BY <2>2, <2>3
<1>4. shouldCheckForMaxConcurrency(entry[c].state)
  BY <1>0 DEF LimitsInv, PermittedFits
<1> QED
  BY <1>1, <1>2, <1>3, <1>4 DEF acquire

(* A call gives back exactly the tokens it took.                           *)
LEMMA releaseLimits ==
  ASSUME IInv, LimitsInv, NEW c \in Callers, release(c)
  PROVE  \A lim \in LimiterRefs : LimiterFits(lim)'
<1>0. /\ pc[c] = "running" /\ entry[c] \in Entry
      /\ entry' = entry
      /\ limiters \in [LimiterRefs -> Limiter \cup {None}]
      /\ pc \in [Callers -> PCs]
  BY DEF release, IInv, TypeOK, Live
<1>1. PICK l \in LimiterRefs, k \in Factors : l = entry[c].limiter /\ k = entry[c].factor
  BY <1>0 DEF Entry
<1>2. /\ limiters' = [limiters EXCEPT ![l] = Released(limiters[l], k)]
      /\ pc' = [pc EXCEPT ![c] = "released"]
  BY <1>1 DEF release
<1> SUFFICES ASSUME NEW lim \in LimiterRefs PROVE LimiterFits(lim)'
  OBVIOUS
<1>3. Weights' = Weights
  BY <1>0 DEF Weights
<1>4. CASE lim # l
  <2>1. Running(lim)' = Running(lim) /\ limiters'[lim] = limiters[lim]
    BY <1>0, <1>1, <1>2, <1>4 DEF Running
  <2> QED
    BY <1>3, <2>1 DEF LimiterFits, LimitsInv, Units
<1>5. CASE lim = l
  <2>1. limiters[l] # None /\ limiters[l] \in Limiter
    BY <1>0, <1>1 DEF IInv, Live
  <2>2. PICK w, S : w = Weights /\ S = Running(l)
    OBVIOUS
  <2>3. c \in S /\ Running(l)' = S \ {c} /\ w[c] = k /\ k \in Nat
    BY <1>0, <1>1, <1>2, <2>2, BreakerAssumption DEF Running, Weights
  <2>4. /\ IsFiniteSet(Units(w, S))
        /\ limiters[l].size > 0 =>
             /\ limiters[l].cur = Cardinality(Units(w, S))
             /\ limiters[l].cur <= limiters[l].size
    BY <2>1, <2>2 DEF LimitsInv, LimiterFits
  <2>5. /\ IsFiniteSet(Units(w, S \ {c}))
        /\ Cardinality(Units(w, S \ {c})) = Cardinality(Units(w, S)) - k
        /\ Cardinality(Units(w, S \ {c})) \in Nat
    BY <2>3, <2>4, UnitsRemove
  <2>6. Units(Weights, Running(l))' = Units(w, S \ {c})
    BY <1>3, <2>2, <2>3 DEF Units
  <2>7. limiters'[l] = Released(limiters[l], k)
    BY <1>0, <1>2
  <2>8. CASE limiters[l].size > 0
    <3>1. limiters[l].cur - k = Cardinality(Units(w, S \ {c}))
      BY <2>4, <2>5, <2>8
    <3>2. /\ limiters'[l].size = limiters[l].size
          /\ limiters'[l].cur = limiters[l].cur - k
          /\ limiters[l].cur - k <= limiters[l].size
      BY <2>1, <2>3, <2>4, <2>5, <2>7, <2>8, <3>1 DEF Released, Limiter
    <3> QED
      BY <1>5, <2>5, <2>6, <2>8, <3>1, <3>2 DEF LimiterFits
  <2>9. CASE ~(limiters[l].size > 0)
    <3>1. limiters'[l] = limiters[l]
      BY <2>1, <2>7, <2>9 DEF Released, Limiter
    <3> QED
      BY <1>5, <2>5, <2>6, <2>9, <3>1 DEF LimiterFits
  <2> QED
    BY <2>8, <2>9
<1> QED
  BY <1>4, <1>5

LEMMA FreeLimiterIsFresh ==
  ASSUME IInv, FreeLimiterRefs # {}
  PROVE  LET lim == CHOOSE r \in FreeLimiterRefs : TRUE
         IN  /\ lim \in LimiterRefs /\ limiters[lim] = None /\ lim # limiter
             /\ \A c \in Callers : entry[c].limiter # lim
<1> DEFINE lim == CHOOSE r \in FreeLimiterRefs : TRUE
<1>1. lim \in FreeLimiterRefs
  OBVIOUS
<1>2. lim \in LimiterRefs /\ limiters[lim] = None
  BY <1>1 DEF FreeLimiterRefs
<1> HIDE DEF lim
<1>3. \A c \in Callers : entry[c].limiter # lim
  BY <1>2, BreakerAssumption DEF IInv, Live, NoEntry
<1> QED
  BY <1>2, <1>3 DEF IInv, Live, lim

(* What an update of the configuration does to the limiters.               *)
LEMMA UpdateEffect ==
  ASSUME IInv, NEW config \in Configs, UpdateConfig(config),
         NEW new, new = fillDefaultsAndGetSetting(config), ~SameSetting(new)
  PROVE  /\ new \in Setting
         /\ setting' = new
         /\ limiter' \in LimiterRefs
         /\ \A c \in Callers : entry[c].limiter # limiter'
         /\ limiters'[limiter'] = newConcurrencyLimiter(new)
         /\ \A l \in LimiterRefs : l # limiter' => limiters'[l] \in {limiters[l], None}
<1>1. PICK lim : lim = CHOOSE r \in FreeLimiterRefs : TRUE
  OBVIOUS
<1>2. /\ FreeLimiterRefs # {} /\ setting' = new /\ limiter' = lim
      /\ limiters' = SweptLimiters([limiters EXCEPT ![lim] = newConcurrencyLimiter(new)],
                                   lim, entry)
  BY <1>1 DEF UpdateConfig
<1>3. lim \in LimiterRefs /\ \A c \in Callers : entry[c].limiter # lim
  BY <1>1, <1>2, FreeLimiterIsFresh
<1>4. new \in Setting
  BY SettingType, BreakerAssumption DEF UpdateConfig
<1> QED
  BY <1>2, <1>3, <1>4 DEF SweptLimiters, IInv, TypeOK

LEMMA UpdateConfigLimits ==
  ASSUME IInv, LimitsInv, NEW config \in Configs, UpdateConfig(config)
  PROVE  \A lim \in LimiterRefs : LimiterFits(lim)'
<1>1. PICK new : new = fillDefaultsAndGetSetting(config)
  OBVIOUS
<1>2. UNCHANGED <<pc, entry>>
  BY DEF UpdateConfig
<1>3. CASE SameSetting(new)
  <2>1. limiters' = limiters
    BY <1>1, <1>3 DEF UpdateConfig
  <2> QED
    BY <1>2, <2>1, QuietLimits DEF LimitsInv, LimiterQuiet
<1>4. CASE ~SameSetting(new)
  <2>1. /\ new \in Setting /\ limiter' \in LimiterRefs
        /\ \A c \in Callers : entry[c].limiter # limiter'
        /\ limiters'[limiter'] = newConcurrencyLimiter(new)
        /\ \A l \in LimiterRefs : l # limiter' => limiters'[l] \in {limiters[l], None}
    BY <1>1, <1>4, UpdateEffect
  <2> SUFFICES ASSUME NEW lim \in LimiterRefs PROVE LimiterFits(lim)'
    OBVIOUS
  <2>2. Running(lim)' = Running(lim) /\ Weights' = Weights
    BY <1>2 DEF Running, Weights
  <2>3. Units(Weights, Running(lim))' = Units(Weights, Running(lim))
    BY <2>2 DEF Units
  <2>4. CASE lim = limiter'
    <3>1. Units(Weights, Running(lim)) = {}
      BY <2>1, <2>4 DEF Running, Units
    <3>2. IsFiniteSet({}) /\ Cardinality({}) = 0
      BY FS_EmptySet
    <3>3. limiters'[lim].cur = 0 /\ limiters'[lim].size \in Int
      BY <2>1, <2>4 DEF newConcurrencyLimiter, Setting, Config
    <3> QED
      BY <2>3, <3>1, <3>2, <3>3 DEF LimiterFits
  <2>5. CASE lim # limiter'
    <3>1. limiters'[lim] \in {limiters[lim], None} /\ LimiterFits(lim)
      BY <2>1, <2>5 DEF LimitsInv
    <3> QED
      BY <2>3, <3>1 DEF LimiterFits
  <2> QED
    BY <2>4, <2>5
<1> QED
  BY <1>3, <1>4

-----------------------------------------------------------------------------
(* No FORCED_CLOSED object is ever made.                                   *)

LEMMA NewObjects ==
  ASSUME IInv, [Next]_vars, "ForcedClosed" \notin AdminTargets
  PROVE  \A r \in StateRefs : heap[r] = None /\ heap'[r] # None =>
           heap'[r].kind # "ForcedClosed"
<1> DEFINE Fine == \A r \in StateRefs : heap[r] = None /\ heap'[r] # None =>
                     heap'[r].kind # "ForcedClosed"
<1>a. heap \in [StateRefs -> StateObject \cup {None}]
  BY DEF IInv, TypeOK
<1>b. ASSUME NEW to \in Kinds \ {"ForcedClosed"}, NEW e, NEW s, NEW lim,
             NEW ref \in StateRefs,
             heap' = Swept([heap EXCEPT ![ref] = newStateInstance(to, s, lim)], ref, e)
      PROVE  Fine
  BY <1>a, <1>b DEF Swept, newStateInstance
<1>c. ASSUME NEW ref \in StateRefs, heap[ref] # None, NEW obj, NEW st, NEW e,
             \/ heap' = [heap EXCEPT ![ref] = obj]
             \/ heap' = Swept([heap EXCEPT ![ref] = obj], st, e)
             \/ heap' = Swept(heap, st, e)
      PROVE  Fine
  BY <1>a, <1>c DEF Swept
<1>d. FreeRefs # {} => (CHOOSE r \in FreeRefs : TRUE) \in StateRefs
  BY FreeRefIsFresh DEF IInv
<1>e. {"Closed", "SemiOpen", "Open"} \subseteq Kinds \ {"ForcedClosed"}
  BY DEF Kinds
<1>f. \A c \in Callers : pc[c] # "idle" =>
        entry[c].state \in StateRefs /\ heap[entry[c].state] # None
  BY DEF IInv, Live, Entry
<1> HIDE DEF Fine
<1>1. ASSUME NEW c \in Callers, Enter(c) \/ acquire(c) \/ release(c)
      PROVE  Fine
  BY <1>1 DEF Enter, acquire, release, Fine
<1>2. ASSUME NEW c \in Callers, TakeTick(c) PROVE Fine
  BY <1>2, <1>c, <1>f DEF TakeTick
<1>3. ASSUME NEW c \in Callers, Promote(c) PROVE Fine
  <2>1. CASE heap' = heap
    BY <2>1 DEF Fine
  <2>2. CASE heap' # heap
    <3>1. PICK ref \in StateRefs : Install("SemiOpen", ref, entry')
      BY <1>3, <1>d, <2>2 DEF Promote
    <3> QED
      BY <1>b, <1>e, <3>1 DEF Install
  <2> QED
    BY <2>1, <2>2
<1>4. ASSUME NEW c \in Callers, acquirePermission(c) PROVE Fine
  BY <1>4, <1>c, <1>f DEF acquirePermission
<1>5. ASSUME NEW c \in Callers, releasePermission(c) \/ FallbackPanics(c) PROVE Fine
  BY <1>5, <1>c, <1>f DEF releasePermission, FallbackPanics
<1>6. ASSUME NEW c \in Callers, Report(c) PROVE Fine
  <2>1. PICK ref \in StateRefs : ref = entry[c].state /\ heap[ref] # None
    BY <1>6, <1>f DEF Report
  <2>2. \E obj : \/ heap' = [heap EXCEPT ![ref] = obj]
                 \/ heap' = Swept([heap EXCEPT ![ref] = obj], state, entry')
    BY <1>6, <2>1 DEF Report
  <2> QED
    BY <1>c, <2>1, <2>2
<1>7. ASSUME NEW c \in Callers, Decide(c) PROVE Fine
  <2>1. CASE MayTransition(entry[c].state, verdict[c])
    <3>1. PICK ref \in StateRefs : Install(verdict[c], ref, entry')
      BY <1>7, <1>d, <2>1 DEF Decide
    <3>2. verdict[c] \in {"Open", "Closed"}
      BY <1>7 DEF Decide, IInv, Live
    <3> QED
      BY <1>b, <1>e, <3>1, <3>2 DEF Install
  <2>2. CASE ~MayTransition(entry[c].state, verdict[c])
    BY <1>7, <1>c, <1>f, <2>2 DEF Decide
  <2> QED
    BY <2>1, <2>2
<1>8. ASSUME NEW ref \in StateRefs, TimerFires(ref) PROVE Fine
  BY <1>8, <1>c DEF TimerFires
<1>9. ASSUME NEW to \in AdminTargets, AdminTransition(to) PROVE Fine
  <2>1. PICK ref \in StateRefs : Install(to, ref, entry)
    BY <1>9, <1>d DEF AdminTransition
  <2>2. to \in Kinds \ {"ForcedClosed"}
    BY BreakerAssumption DEF Kinds
  <2> QED
    BY <1>b, <2>1, <2>2 DEF Install
<1>10. ASSUME NEW config \in Configs, UpdateConfig(config) PROVE Fine
  <2>1. PICK new, lim : /\ new = fillDefaultsAndGetSetting(config)
                        /\ lim = CHOOSE r \in FreeLimiterRefs : TRUE
    OBVIOUS
  <2>2. CASE SameSetting(new)
    BY <1>10, <2>1, <2>2 DEF UpdateConfig, Fine
  <2>3. CASE ~SameSetting(new)
    <3>1. PICK ref \in StateRefs :
            heap' = Swept([heap EXCEPT ![ref] = newStateInstance("Closed", new, lim)], ref, entry)
      BY <1>10, <1>d, <2>1, <2>3 DEF UpdateConfig
    <3> QED
      BY <1>b, <1>e, <3>1
  <2> QED
    BY <2>2, <2>3
<1>11. ASSUME RegisterEventListener \/ UNCHANGED vars PROVE Fine
  BY <1>11 DEF RegisterEventListener, vars, Fine
<1>12. Fine
  BY <1>1, <1>2, <1>3, <1>4, <1>5, <1>6, <1>7, <1>8, <1>9, <1>10, <1>11 DEF Next, CallStep
<1> QED
  BY <1>12 DEF Fine

(* What is at an address that stays in use keeps its kind.                 *)
LEMMA KindsStep ==
  ASSUME IInv, IInv', NeverForcedClosed, [Next]_vars, "ForcedClosed" \notin AdminTargets
  PROVE  NeverForcedClosed'
BY StepFrame, NewObjects DEF Frame, ObjectsKept, NeverForcedClosed, Kind

(* acquirePermission gives no permit in FORCED_OPEN.                       *)
LEMMA PermittedStep ==
  ASSUME IInv, IInv', NeverForcedClosed, PermittedFits, [Next]_vars
  PROVE  PermittedFits'
<1> SUFFICES ASSUME NEW c \in Callers, pc'[c] = "permitted"
             PROVE  heap'[entry'[c].state].kind \notin {"ForcedOpen", "ForcedClosed"}
  BY DEF PermittedFits, shouldCheckForMaxConcurrency, Kind
<1>1. /\ pc[c] # "idle" /\ entry'[c] = entry[c]
      /\ \/ pc[c] = "permitted"
         \/ Permits(entry[c].state)
  <2>1. ASSUME NEW d \in Callers, CallStep(d)
        PROVE  /\ pc[c] # "idle" /\ entry'[c] = entry[c]
               /\ pc[c] = "permitted" \/ Permits(entry[c].state)
    BY <2>1
       DEF CallStep, Enter, TakeTick, Promote, acquirePermission, acquire, releasePermission,
           FallbackPanics, release, Report, Decide, Return, IInv, TypeOK
  <2>2. CASE UNCHANGED <<pc, entry>>
    BY <2>2
  <2> QED
    BY <2>1, <2>2
       DEF Next, vars, TimerFires, AdminTransition, UpdateConfig, RegisterEventListener
<1>2. /\ entry[c].state \in StateRefs
      /\ heap[entry[c].state] # None /\ heap'[entry[c].state] # None
  BY <1>1 DEF IInv, Live, Entry
<1>3. heap'[entry[c].state].kind = Kind(entry[c].state)
  BY <1>2, StepFrame DEF Frame, ObjectsKept, Kind
<1>4. Kind(entry[c].state) \notin {"ForcedOpen", "ForcedClosed"}
  BY <1>1, <1>2 DEF PermittedFits, shouldCheckForMaxConcurrency, Permits, NeverForcedClosed
<1> QED
  BY <1>1, <1>3, <1>4

LEMMA InitLimits == Init => LimitsInv
<1> SUFFICES ASSUME Init PROVE LimitsInv
  OBVIOUS
<1>1. PICK config \in Configs :
        /\ IsValidConfig(config)
        /\ \A lim \in LimiterRefs : limiters[lim] # None =>
             limiters[lim] = newConcurrencyLimiter(fillDefaultsAndGetSetting(config))
  BY DEF Init
<1>2. fillDefaultsAndGetSetting(config) \in Setting
  BY <1>1, SettingType, BreakerAssumption
<1>3. ASSUME NEW lim \in LimiterRefs PROVE LimiterFits(lim)
  <2>1. Units(Weights, Running(lim)) = {}
    BY DEF Init, Running, Units
  <2>2. IsFiniteSet({}) /\ Cardinality({}) = 0
    BY FS_EmptySet
  <2>3. limiters[lim] # None => limiters[lim].cur = 0 /\ limiters[lim].size \in Int
    BY <1>1, <1>2 DEF newConcurrencyLimiter, Setting, Config
  <2> QED
    BY <2>1, <2>2, <2>3 DEF LimiterFits
<1>4. NeverForcedClosed
  BY DEF Init, NeverForcedClosed, Kind, newStateInstance
<1>5. PermittedFits
  BY DEF Init, PermittedFits
<1> QED
  BY <1>3, <1>4, <1>5 DEF LimitsInv

LEMMA LimitsStep ==
  ASSUME IInv, IInv', LimitsInv, [Next]_vars, "ForcedClosed" \notin AdminTargets
  PROVE  LimitsInv'
<1>1. NeverForcedClosed' /\ PermittedFits'
  BY KindsStep, PermittedStep DEF LimitsInv
<1>2. \A lim \in LimiterRefs : LimiterFits(lim)'
  <2>1. ASSUME NEW c \in Callers, CallStep(c)
        PROVE  \A lim \in LimiterRefs : LimiterFits(lim)'
    <3>1. CASE Enter(c) \/ TakeTick(c) \/ Promote(c)
      <4>1. LimiterQuiet
        BY <3>1 DEF Enter, TakeTick, Promote, LimiterQuiet, IInv, TypeOK
      <4> QED
        BY <4>1, QuietLimits DEF LimitsInv
    <3>2. CASE acquirePermission(c)
      <4>1. LimiterQuiet
        BY <3>2, ReturnQuiet DEF acquirePermission, LimiterQuiet, IInv, TypeOK
      <4> QED
        BY <4>1, QuietLimits DEF LimitsInv
    <3>3. CASE releasePermission(c) \/ FallbackPanics(c) \/ Decide(c)
      <4>1. LimiterQuiet
        BY <3>3, ReturnQuiet DEF releasePermission, FallbackPanics, Decide
      <4> QED
        BY <4>1, QuietLimits DEF LimitsInv
    <3>4. CASE Report(c)
      <4>1. \/ pc' = [pc EXCEPT ![c] = "deciding"] /\ UNCHANGED <<entry, limiters>>
            \/ Return(c) /\ limiters' = SweptLimiters(limiters, limiter, entry')
        BY <3>4 DEF Report
      <4>2. pc[c] = "released"
        BY <3>4 DEF Report
      <4>3. LimiterQuiet
        BY <4>1, <4>2, ReturnQuiet DEF LimiterQuiet, IInv, TypeOK
      <4> QED
        BY <4>3, QuietLimits DEF LimitsInv
    <3> QED
      BY <2>1, <3>1, <3>2, <3>3, <3>4, acquireLimits, releaseLimits DEF CallStep
  <2>2. CASE UNCHANGED <<pc, entry, limiters>>
    <3>1. LimiterQuiet
      BY <2>2 DEF LimiterQuiet
    <3> QED
      BY <3>1, QuietLimits DEF LimitsInv
  <2> QED
    BY <2>1, <2>2, UpdateConfigLimits
       DEF Next, vars, TimerFires, AdminTransition, RegisterEventListener
<1> QED
  BY <1>1, <1>2 DEF LimitsInv

(***************************************************************************)
(* As long as no client calls ForceClose, the calls in flight on a limiter *)
(* weigh no more than its MaxConcurrentCalls, whatever they hold of old    *)
(* states and however configurations change: acquire and release always    *)
(* meet on the limiter the call has entered with.                          *)
(***************************************************************************)
THEOREM InFlightLimit ==
  ASSUME "ForcedClosed" \notin AdminTargets
  PROVE  Spec => []InFlightWithinLimit
<1>1. LimitsInv /\ IInv => InFlightWithinLimit
  <2> SUFFICES ASSUME LimitsInv, IInv, NEW lim \in LimiterRefs,
                      limiters[lim] # None, limiters[lim].size > 0
               PROVE  Cardinality(Units([c \in Callers |-> entry[c].factor],
                                         {c \in Callers : Limited(c, lim)}))
                        <= limiters[lim].size
    BY DEF InFlightWithinLimit
  <2>1. {c \in Callers : Limited(c, lim)} = Running(lim)
    BY DEF Limited, Running, LimitsInv, NeverForcedClosed, IInv, Live, Entry
  <2> QED
    BY <2>1 DEF LimitsInv, LimiterFits, Weights
<1>2. IInv /\ IInv' /\ LimitsInv /\ [Next]_vars => LimitsInv'
  BY LimitsStep
<1> QED
  BY <1>1, <1>2, InitLimits, Invariance, PTL DEF Spec

-----------------------------------------------------------------------------
(* The configuration in force.                                             *)

(* updateSetting compares filled-in Configs: what they say is in force,    *)
(* and the checks are too if Configs that say the same check the same.     *)
NothingConflated ==
  \A c, d \in Configs :
    /\ IsValidConfig(c) /\ IsValidConfig(d)
    /\ fillDefaultsAndGetSetting(c).Config = fillDefaultsAndGetSetting(d).Config
    => fillDefaultsAndGetSetting(c) = fillDefaultsAndGetSetting(d)

SettingFollows ==
  /\ IsValidConfig(requested)
  /\ setting.Config = fillDefaultsAndGetSetting(requested).Config
  /\ NothingConflated => setting = fillDefaultsAndGetSetting(requested)
  /\ limiters[limiter].size = setting.Config.MaxConcurrentCalls

LEMMA InitSetting == Init => SettingFollows
BY DEF Init, SettingFollows, newConcurrencyLimiter

(* A limiter that stays in use keeps its size.                             *)
LEMMA SizeKept ==
  ASSUME IInv, IInv', [Next]_vars, ~\E config \in Configs : UpdateConfig(config)
  PROVE  /\ UNCHANGED <<setting, limiter, requested>>
         /\ limiters'[limiter].size = limiters[limiter].size
<1>0. /\ limiter \in LimiterRefs /\ limiters[limiter] \in Limiter
      /\ limiters \in [LimiterRefs -> Limiter \cup {None}]
  BY DEF IInv, TypeOK, Live
<1>1. ASSUME NEW c \in Callers, CallStep(c)
      PROVE  /\ UNCHANGED <<setting, limiter, requested>>
             /\ \/ limiters' = limiters
                \/ limiters' = SweptLimiters(limiters, limiter, entry')
                \/ \E lim \in LimiterRefs : \E k \in Nat :
                     /\ limiters[lim] \in Limiter
                     /\ \/ limiters' = [limiters EXCEPT ![lim] = Acquired(limiters[lim], k)]
                        \/ limiters' = [limiters EXCEPT ![lim] = Released(limiters[lim], k)]
  <2>1. UNCHANGED <<setting, limiter, requested>>
    BY <1>1
       DEF CallStep, Enter, TakeTick, Promote, acquirePermission, acquire, releasePermission,
           FallbackPanics, release, Report, Decide, Install, breakerVars
  <2>2. CASE acquire(c) \/ release(c)
    <3>1. /\ entry[c].limiter \in LimiterRefs /\ entry[c].factor \in Nat
          /\ limiters[entry[c].limiter] \in Limiter
      BY <1>0, <2>2, BreakerAssumption DEF acquire, release, IInv, Live, Entry
    <3> QED
      BY <2>1, <2>2, <3>1 DEF acquire, release
  <2>3. CASE ~(acquire(c) \/ release(c))
    BY <1>1, <2>1, <2>3
       DEF CallStep, Enter, TakeTick, Promote, acquirePermission, releasePermission,
           FallbackPanics, Report, Decide
  <2> QED
    BY <2>2, <2>3
<1>2. CASE UNCHANGED <<setting, limiter, requested, limiters>>
  BY <1>2
<1>3. ASSUME NEW c \in Callers, CallStep(c)
      PROVE  limiters'[limiter].size = limiters[limiter].size
  <2>1. CASE limiters' = limiters \/ limiters' = SweptLimiters(limiters, limiter, entry')
    BY <1>0, <2>1 DEF SweptLimiters
  <2>2. ASSUME NEW lim \in LimiterRefs, NEW k \in Nat, limiters[lim] \in Limiter,
               \/ limiters' = [limiters EXCEPT ![lim] = Acquired(limiters[lim], k)]
               \/ limiters' = [limiters EXCEPT ![lim] = Released(limiters[lim], k)]
        PROVE  limiters'[limiter].size = limiters[limiter].size
    <3>1. /\ Acquired(limiters[lim], k).size = limiters[lim].size
          /\ Released(limiters[lim], k).size = limiters[lim].size
      BY <2>2 DEF Acquired, Released, Limiter
    <3> QED
      BY <1>0, <2>2, <3>1
  <2> QED
    BY <1>1, <1>3, <2>1, <2>2
<1> QED
  BY <1>1, <1>2, <1>3
     DEF Next, vars, TimerFires, AdminTransition, Install, RegisterEventListener, breakerVars

LEMMA SettingStep ==
  ASSUME IInv, IInv', SettingFollows, [Next]_vars
  PROVE  SettingFollows'
<1>1. ASSUME NEW config \in Configs, UpdateConfig(config) PROVE SettingFollows'
  <2>1. PICK new : new = fillDefaultsAndGetSetting(config)
    OBVIOUS
  <2>2. IsValidConfig(config) /\ requested' = config /\ requested \in Configs
    BY <1>1 DEF UpdateConfig, IInv, TypeOK
  <2>3. CASE SameSetting(new)
    <3>1. /\ new.Config = setting.Config
          /\ UNCHANGED <<setting, limiter, limiters>>
      BY <1>1, <2>1, <2>3 DEF UpdateConfig, SameSetting
    <3>2. NothingConflated => setting = new
      BY <2>1, <2>2, <3>1 DEF NothingConflated, SettingFollows
    <3> QED
      BY <2>1, <2>2, <3>1, <3>2 DEF SettingFollows, NothingConflated
  <2>4. CASE ~SameSetting(new)
    <3>1. setting' = new /\ limiters'[limiter'] = newConcurrencyLimiter(new)
      BY <1>1, <2>1, <2>4, UpdateEffect
    <3> QED
      BY <2>1, <2>2, <3>1 DEF SettingFollows, newConcurrencyLimiter
  <2> QED
    BY <2>3, <2>4
<1>2. CASE ~\E config \in Configs : UpdateConfig(config)
  BY <1>2, SizeKept DEF SettingFollows, NothingConflated
<1> QED
  BY <1>1, <1>2

(***************************************************************************)
(* After any sequence of UpdateConfig, forced states and transitions, the  *)
(* breaker, its state object and its limiter work by the last valid        *)
(* configuration a client gave, unless two of the configurations clients   *)
(* use become equal once their defaults are filled in and yet switch on    *)
(* different checks.                                                       *)
(***************************************************************************)
THEOREM LastConfigInForce ==
  ASSUME NothingConflated
  PROVE  Spec => []ConfigInForce
<1>1. IInv /\ SettingFollows => ConfigInForce
  BY DEF IInv, Generations, SettingFollows, ConfigInForce
<1>2. IInv /\ IInv' /\ SettingFollows /\ [Next]_vars => SettingFollows'
  BY SettingStep
<1> QED
  BY <1>1, <1>2, InitSetting, Invariance, PTL DEF Spec

(***************************************************************************)
(* Whatever the configurations, the numbers in force are those of the last *)
(* valid one: an update can be lost only as far as the checks go.          *)
(***************************************************************************)
NumbersInForce ==
  LET wanted == fillDefaultsAndGetSetting(requested).Config
  IN  /\ setting.Config = wanted
      /\ heap[state].setting.Config = wanted
      /\ limiters[limiter].size = wanted.MaxConcurrentCalls

THEOREM LastNumbersInForce == Spec => []NumbersInForce
<1>1. IInv /\ SettingFollows => NumbersInForce
  BY DEF IInv, Generations, SettingFollows, NumbersInForce
<1>2. IInv /\ IInv' /\ SettingFollows /\ [Next]_vars => SettingFollows'
  BY SettingStep
<1> QED
  BY <1>1, <1>2, InitSetting, Invariance, PTL DEF Spec
=============================================================================
