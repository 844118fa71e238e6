--------------------------- MODULE BreakerTheorems ---------------------------
(***************************************************************************)
(* What BreakerProofs' invariant implies: the safety properties of Breaker *)
(* for every value of the constants.                                       *)
(***************************************************************************)
EXTENDS BreakerProofs

(* Every variable keeps its type; no permit count falls below zero.        *)
THEOREM TypeCorrect == Spec => []TypeOK
BY Invariance, PTL DEF IInv

(* No permit of a SEMI_OPEN object is lost or handed out twice, as long as *)
(* no fallback panics.                                                     *)
THEOREM PermitConservation ==
  ASSUME ~FallbackMayPanic
  PROVE  Spec => []PermitsConserved
<1>1. IInv => PermitsConserved
  BY DEF IInv, PermitsBacked, PermitBacked, PermitsConserved
<1> QED
  BY <1>1, Invariance, PTL

(* A call counts against the limiter of its state object's configuration.  *)
THEOREM GenerationAgreement == Spec => []GenerationsAgree
<1>1. IInv => GenerationsAgree
  BY DEF IInv, Generations
<1> QED
  BY <1>1, Invariance, PTL

-----------------------------------------------------------------------------
(* What one step does, whichever it is.                                    *)

(* A state object keeps its kind and its setting, and only a report on it  *)
(* changes its window.                                                     *)
ObjectsKept ==
  \A r \in StateRefs : heap[r] # None /\ heap'[r] # None =>
    /\ heap'[r].kind = heap[r].kind
    /\ heap'[r].setting = heap[r].setting
    /\ \/ heap'[r].total = heap[r].total
       \/ \E c \in Callers : Report(c) /\ entry[c].state = r

(* The breaker moves only to a fresh object; a call moves it only through  *)
(* a transition from the object the breaker was in.                        *)
MovesAreTransitions ==
  IF state' = state THEN setting' = setting /\ gauge' = gauge
  ELSE /\ heap[state'] = None
       /\ heap'[state'].total = NoCounts
       /\ ~setting'.Config.MetricsDisabled => gauge' = heap'[state'].kind
       /\ pc' # pc => \E c \in Callers :
            \/ /\ MayTransition(entry[c].state, "SemiOpen")
               /\ heap'[state'].kind = "SemiOpen"
            \/ /\ Decide(c)
               /\ MayTransition(entry[c].state, verdict[c])
               /\ heap'[state'].kind = verdict[c]

(* A verdict comes from a report, stays, and is acted upon.                *)
VerdictsKept ==
  \A c \in Callers :
    /\ pc'[c] = "deciding" =>
         \/ Report(c)
         \/ pc[c] = "deciding" /\ entry'[c] = entry[c] /\ verdict'[c] = verdict[c]
    /\ pc[c] = "deciding" /\ pc'[c] # "deciding" => Decide(c)

Frame ==
  /\ ObjectsKept
  /\ MovesAreTransitions
  /\ VerdictsKept
  /\ \A c \in Callers :
       entry'[c].state # entry[c].state => entry'[c].state \in {state', None}

LEMMA FrameEnter ==
  ASSUME IInv, NEW c \in Callers, Enter(c) PROVE Frame
BY DEF IInv, TypeOK, Live, Frame, ObjectsKept, MovesAreTransitions, VerdictsKept, Enter, breakerVars

LEMMA FrameTakeTick ==
  ASSUME IInv, NEW c \in Callers, TakeTick(c) PROVE Frame
BY DEF IInv, TypeOK, Live, Frame, ObjectsKept, MovesAreTransitions, VerdictsKept, TakeTick,
       breakerVars, StateObject, Entry

LEMMA FrameAcquire ==
  ASSUME IInv, NEW c \in Callers, acquire(c) \/ release(c) PROVE Frame
BY DEF IInv, TypeOK, Live, Frame, ObjectsKept, MovesAreTransitions, VerdictsKept, acquire, release,
       breakerVars

LEMMA FrameTimerFires ==
  ASSUME IInv, NEW ref \in StateRefs, TimerFires(ref) PROVE Frame
BY DEF IInv, TypeOK, Live, Frame, ObjectsKept, MovesAreTransitions, VerdictsKept, TimerFires,
       breakerVars, StateObject

LEMMA FrameRegister ==
  ASSUME IInv, RegisterEventListener \/ UNCHANGED vars PROVE Frame
BY DEF IInv, TypeOK, Live, Frame, ObjectsKept, MovesAreTransitions, VerdictsKept,
       RegisterEventListener, vars

(* A call that returns takes no verdict with it but its own.               *)
LEMMA FrameReturn ==
  ASSUME IInv, NEW c \in Callers, pc[c] # "deciding", Return(c)
  PROVE  /\ VerdictsKept
         /\ \A d \in Callers :
              entry'[d].state # entry[d].state => entry'[d].state \in {state', None}
BY DEF IInv, TypeOK, VerdictsKept, Return, NoEntry

LEMMA FramePermission ==
  ASSUME IInv, NEW c \in Callers,
         acquirePermission(c) \/ releasePermission(c) \/ FallbackPanics(c)
  PROVE  Frame
<1> DEFINE ref0 == entry[c].state
<1>1. /\ ref0 \in StateRefs
      /\ heap[ref0] \in StateObject
      /\ heap \in [StateRefs -> StateObject \cup {None}]
  BY DEF IInv, TypeOK, Live, Entry, acquirePermission, releasePermission, FallbackPanics
<1>2. UNCHANGED breakerVars
  BY DEF acquirePermission, releasePermission, FallbackPanics
<1>3. \E obj \in {heap[ref0], Granted(heap[ref0]), Refunded(heap[ref0])} :
        LET h == [heap EXCEPT ![ref0] = obj]
        IN  heap' = h \/ heap' = Swept(h, state, entry')
  <2>1. heap = [heap EXCEPT ![ref0] = heap[ref0]]
    BY <1>1
  <2> QED
    BY <2>1 DEF acquirePermission, releasePermission, FallbackPanics
<1>4. \A obj \in {heap[ref0], Granted(heap[ref0]), Refunded(heap[ref0])} :
        /\ obj.kind = heap[ref0].kind
        /\ obj.setting = heap[ref0].setting
        /\ obj.total = heap[ref0].total
  BY <1>1 DEF Granted, Refunded, StateObject
<1>5. ObjectsKept
  BY <1>1, <1>3, <1>4 DEF ObjectsKept, Swept
<1>6. MovesAreTransitions
  BY <1>2 DEF MovesAreTransitions, breakerVars
<1>7. /\ VerdictsKept
      /\ \A d \in Callers :
           entry'[d].state # entry[d].state => entry'[d].state \in {state', None}
  <2>1. CASE pc' = [pc EXCEPT ![c] = "permitted"] /\ UNCHANGED <<entry, verdict>>
             /\ pc[c] = "entered"
    BY <2>1 DEF VerdictsKept, IInv, TypeOK
  <2>2. CASE Return(c) /\ pc[c] # "deciding"
    BY <2>2, FrameReturn
  <2> QED
    BY <2>1, <2>2 DEF acquirePermission, releasePermission, FallbackPanics
<1> QED
  BY <1>5, <1>6, <1>7 DEF Frame

(* A report changes the window of the call's object, and leaves a verdict  *)
(* exactly when the new window calls for one and no fallback panics.       *)
LEMMA ReportEffect ==
  ASSUME IInv, NEW c \in Callers, Report(c)
  PROVE  LET obj == heap[entry[c].state]
         IN  \E outcome \in Outcomes : \E k \in WindowsAfter(obj, outcome) :
               /\ heap'[entry[c].state] # None => heap'[entry[c].state] = [obj EXCEPT !.total = k]
               /\ \A r \in StateRefs : r # entry[c].state => heap'[r] \in {heap[r], None}
               /\ \/ /\ VerdictOn(obj, k) # None
                     /\ verdict' = [verdict EXCEPT ![c] = VerdictOn(obj, k)]
                     /\ pc' = [pc EXCEPT ![c] = "deciding"]
                     /\ UNCHANGED entry
                  \/ VerdictOn(obj, k) = None /\ Return(c)
                  \/ FallbackMayPanic /\ Return(c)
<1> DEFINE ref0 == entry[c].state
<1>1. ref0 \in StateRefs /\ heap \in [StateRefs -> StateObject \cup {None}]
  BY DEF IInv, TypeOK, Live, Entry, Report
<1>2. PICK outcome \in OutcomesOf(entry[c].setting) :
        \E k \in WindowsAfter(heap[ref0], outcome) :
          LET updated == [heap EXCEPT ![ref0].total = k]
              to      == VerdictOn(heap[ref0], k)
          IN  \/ /\ to # None
                 /\ heap' = updated
                 /\ verdict' = [verdict EXCEPT ![c] = to]
                 /\ pc' = [pc EXCEPT ![c] = "deciding"]
                 /\ UNCHANGED <<entry, limiters>>
              \/ /\ \/ to = None
                    \/ FallbackMayPanic /\ outcome \in ErrorOutcomes
                 /\ Return(c)
                 /\ heap' = Swept(updated, state, entry')
                 /\ limiters' = SweptLimiters(limiters, limiter, entry')
  BY DEF Report
<1>3. outcome \in Outcomes
  BY DEF OutcomesOf
<1>4. PICK k \in WindowsAfter(heap[ref0], outcome) :
          LET updated == [heap EXCEPT ![ref0].total = k]
              to      == VerdictOn(heap[ref0], k)
          IN  \/ /\ to # None
                 /\ heap' = updated
                 /\ verdict' = [verdict EXCEPT ![c] = to]
                 /\ pc' = [pc EXCEPT ![c] = "deciding"]
                 /\ UNCHANGED <<entry, limiters>>
              \/ /\ \/ to = None
                    \/ FallbackMayPanic /\ outcome \in ErrorOutcomes
                 /\ Return(c)
                 /\ heap' = Swept(updated, state, entry')
                 /\ limiters' = SweptLimiters(limiters, limiter, entry')
  BY <1>2
<1> DEFINE updated == [heap EXCEPT ![ref0].total = k]
<1>5. /\ updated[ref0] = [heap[ref0] EXCEPT !.total = k]
      /\ \A r \in StateRefs : r # ref0 => updated[r] = heap[r]
  BY <1>1
<1>6. \A r \in StateRefs : heap'[r] \in {updated[r], None}
  BY <1>4 DEF Swept
<1> QED
  BY <1>1, <1>3, <1>4, <1>5, <1>6

LEMMA FrameReport ==
  ASSUME IInv, NEW c \in Callers, Report(c) PROVE Frame
<1> DEFINE ref0 == entry[c].state
<1>1. /\ ref0 \in StateRefs /\ heap[ref0] \in StateObject /\ pc[c] = "released"
      /\ UNCHANGED breakerVars
  BY DEF IInv, TypeOK, Live, Entry, Report
<1>2. ObjectsKept
  <2>1. ASSUME NEW r \in StateRefs, heap'[r] # None
        PROVE  /\ heap'[r].kind = heap[r].kind
               /\ heap'[r].setting = heap[r].setting
               /\ heap'[r].total = heap[r].total \/ r = ref0
    <3>1. CASE r = ref0
      <4>1. \E k : heap'[ref0] = [heap[ref0] EXCEPT !.total = k]
        BY <2>1, <3>1, ReportEffect
      <4> QED
        BY <1>1, <3>1, <4>1 DEF StateObject
    <3>2. CASE r # ref0
      <4>1. heap'[r] = heap[r]
        BY <2>1, <3>2, ReportEffect
      <4> QED
        BY <4>1
    <3> QED
      BY <3>1, <3>2
  <2> QED
    BY <2>1 DEF ObjectsKept
<1>3. MovesAreTransitions
  BY <1>1 DEF MovesAreTransitions, breakerVars
<1>4. /\ VerdictsKept
      /\ \A d \in Callers :
           entry'[d].state # entry[d].state => entry'[d].state \in {state', None}
  <2>1. CASE pc' = [pc EXCEPT ![c] = "deciding"] /\ UNCHANGED entry
             /\ \E to : verdict' = [verdict EXCEPT ![c] = to]
    BY <1>1, <2>1 DEF VerdictsKept, IInv, TypeOK
  <2>2. CASE Return(c)
    BY <1>1, <2>2, FrameReturn
  <2> QED
    BY <2>1, <2>2, ReportEffect
<1> QED
  BY <1>2, <1>3, <1>4 DEF Frame

(* A transition: what the step leaves of the other objects.                *)
LEMMA FrameTransition ==
  ASSUME IInv, NEW to \in Kinds, NEW ref \in StateRefs, heap[ref] = None, ref # state,
         state' = ref, NEW s, NEW lim, NEW e,
         heap' = Swept([heap EXCEPT ![ref] = newStateInstance(to, s, lim)], ref, e)
  PROVE  /\ ObjectsKept
         /\ heap[state'] = None
         /\ heap'[state'].total = NoCounts
         /\ heap'[state'].kind = to
<1>1. heap' = [r \in StateRefs |->
                IF r = ref \/ \E c \in Callers : e[c].state = r
                THEN IF r = ref THEN newStateInstance(to, s, lim) ELSE heap[r]
                ELSE None]
  BY DEF IInv, TypeOK, Swept
<1>2. heap'[ref] = newStateInstance(to, s, lim)
  BY <1>1
<1>3. \A r \in StateRefs : r # ref => heap'[r] \in {heap[r], None}
  BY <1>1
<1>4. ObjectsKept
  BY <1>3 DEF ObjectsKept
<1>5. heap'[ref].total = NoCounts /\ heap'[ref].kind = to
  BY <1>2 DEF newStateInstance
<1> QED
  BY <1>4, <1>5

LEMMA FrameAdmin ==
  ASSUME IInv, NEW to \in AdminTargets, AdminTransition(to) PROVE Frame
<1> DEFINE ref == CHOOSE r \in FreeRefs : TRUE
<1>1. ref \in StateRefs /\ heap[ref] = None /\ ref # state
  BY FreeRefIsFresh DEF IInv, AdminTransition
<1>2. to \in Kinds
  BY BreakerAssumption DEF Kinds
<1>3. Install(to, ref, entry) /\ UNCHANGED <<pc, entry, verdict>>
  BY DEF AdminTransition
<1> HIDE DEF ref
<1>4. /\ ObjectsKept
      /\ heap[state'] = None
      /\ heap'[state'].total = NoCounts
      /\ heap'[state'].kind = to
  BY <1>1, <1>2, <1>3, FrameTransition DEF Install
<1>5. MovesAreTransitions
  BY <1>1, <1>3, <1>4 DEF MovesAreTransitions, Install
<1>6. VerdictsKept
  BY <1>3 DEF VerdictsKept
<1> QED
  BY <1>3, <1>4, <1>5, <1>6 DEF Frame

LEMMA FrameUpdateConfig ==
  ASSUME IInv, NEW config \in Configs, UpdateConfig(config) PROVE Frame
<1> DEFINE new == fillDefaultsAndGetSetting(config)
           ref == CHOOSE r \in FreeRefs : TRUE
           lim == CHOOSE r \in FreeLimiterRefs : TRUE
<1>1. UNCHANGED <<pc, entry, verdict>>
  BY DEF UpdateConfig
<1>2. VerdictsKept
  BY <1>1 DEF VerdictsKept
<1>3. CASE SameSetting(new)
  <2>1. UNCHANGED <<state, setting, heap, gauge>>
    BY <1>3 DEF UpdateConfig
  <2> QED
    BY <1>1, <1>2, <2>1 DEF Frame, ObjectsKept, MovesAreTransitions
<1>4. CASE ~SameSetting(new)
  <2>1. /\ FreeRefs # {}
        /\ setting' = new
        /\ state' = ref
        /\ heap' = Swept([heap EXCEPT ![ref] = newStateInstance("Closed", new, lim)], ref, entry)
        /\ gauge' = IF new.Config.MetricsDisabled THEN gauge ELSE "Closed"
    BY <1>4 DEF UpdateConfig
  <2>2. ref \in StateRefs /\ heap[ref] = None /\ ref # state
    BY <2>1, FreeRefIsFresh DEF IInv
  <2> HIDE DEF ref, new, lim
  <2>3. "Closed" \in Kinds
    BY DEF Kinds
  <2>4. /\ ObjectsKept
        /\ heap[state'] = None
        /\ heap'[state'].total = NoCounts
        /\ heap'[state'].kind = "Closed"
    BY <2>1, <2>2, <2>3, FrameTransition
  <2>5. MovesAreTransitions
    BY <1>1, <2>1, <2>2, <2>4 DEF MovesAreTransitions
  <2> QED
    BY <1>1, <1>2, <2>4, <2>5 DEF Frame
<1> QED
  BY <1>3, <1>4

LEMMA FramePromote ==
  ASSUME IInv, NEW c \in Callers, Promote(c) PROVE Frame
<1> DEFINE ref == CHOOSE r \in FreeRefs : TRUE
<1>1. VerdictsKept
  BY DEF IInv, TypeOK, VerdictsKept, Promote
<1>2. CASE MayTransition(entry[c].state, "SemiOpen")
  <2>1. /\ FreeRefs # {}
        /\ entry' = [entry EXCEPT ![c].state = ref]
        /\ Install("SemiOpen", ref, entry')
    BY <1>2 DEF Promote
  <2>2. ref \in StateRefs /\ heap[ref] = None /\ ref # state
    BY <2>1, FreeRefIsFresh DEF IInv
  <2> HIDE DEF ref
  <2>3. /\ heap' = Swept([heap EXCEPT ![ref] = newStateInstance("SemiOpen", setting, limiter)],
                         ref, entry')
        /\ state' = ref
        /\ gauge' = IF setting.Config.MetricsDisabled THEN gauge ELSE "SemiOpen"
        /\ setting' = setting
    BY <2>1 DEF Install
  <2>4. "SemiOpen" \in Kinds
    BY DEF Kinds
  <2>5. /\ ObjectsKept
        /\ heap[state'] = None
        /\ heap'[state'].total = NoCounts
        /\ heap'[state'].kind = "SemiOpen"
    BY <2>2, <2>3, <2>4, FrameTransition
  <2>6. MovesAreTransitions
    BY <1>2, <2>2, <2>3, <2>5 DEF MovesAreTransitions
  <2>7. \A d \in Callers : entry'[d].state # entry[d].state => entry'[d].state = state'
    <3>1. entry[c] \in Entry
      BY DEF IInv, Live, Promote
    <3>2. entry'[c].state = ref
      BY <2>1, <3>1 DEF IInv, TypeOK, Entry
    <3>3. \A d \in Callers : d # c => entry'[d] = entry[d]
      BY <2>1 DEF IInv, TypeOK
    <3> QED
      BY <2>3, <3>2, <3>3
  <2> QED
    BY <1>1, <2>5, <2>6, <2>7 DEF Frame
<1>3. CASE ~MayTransition(entry[c].state, "SemiOpen")
  BY <1>1, <1>3 DEF Promote, Frame, ObjectsKept, MovesAreTransitions, breakerVars
<1> QED
  BY <1>2, <1>3

LEMMA FrameDecide ==
  ASSUME IInv, NEW c \in Callers, Decide(c) PROVE Frame
<1> DEFINE ref == CHOOSE r \in FreeRefs : TRUE
           to  == verdict[c]
<1>1. /\ VerdictsKept
      /\ \A d \in Callers :
           entry'[d].state # entry[d].state => entry'[d].state \in {state', None}
  <2>1. Return(c)
    BY DEF Decide
  <2> QED
    BY <2>1 DEF IInv, TypeOK, VerdictsKept, Return, NoEntry
<1>2. CASE MayTransition(entry[c].state, to)
  <2>1. FreeRefs # {} /\ Install(to, ref, entry')
    BY <1>2 DEF Decide
  <2>2. ref \in StateRefs /\ heap[ref] = None /\ ref # state
    BY <2>1, FreeRefIsFresh DEF IInv
  <2>3. to \in Kinds
    BY DEF IInv, Live, Decide, Kinds
  <2> HIDE DEF ref, to
  <2>4. /\ heap' = Swept([heap EXCEPT ![ref] = newStateInstance(to, setting, limiter)],
                         ref, entry')
        /\ state' = ref
        /\ gauge' = IF setting.Config.MetricsDisabled THEN gauge ELSE to
        /\ setting' = setting
    BY <2>1 DEF Install
  <2>5. /\ ObjectsKept
        /\ heap[state'] = None
        /\ heap'[state'].total = NoCounts
        /\ heap'[state'].kind = to
    BY <2>2, <2>3, <2>4, FrameTransition
  <2>6. MovesAreTransitions
    BY <1>2, <2>2, <2>4, <2>5 DEF MovesAreTransitions, to
  <2> QED
    BY <1>1, <2>5, <2>6 DEF Frame
<1>3. CASE ~MayTransition(entry[c].state, to)
  <2>1. heap' = Swept(heap, state, entry') /\ UNCHANGED breakerVars
    BY <1>3 DEF Decide
  <2>2. \A r \in StateRefs : heap'[r] \in {heap[r], None}
    BY <2>1 DEF Swept
  <2> QED
    BY <1>1, <2>1, <2>2 DEF Frame, ObjectsKept, MovesAreTransitions, breakerVars
<1> QED
  BY <1>2, <1>3

LEMMA StepFrame ==
  ASSUME IInv, [Next]_vars PROVE Frame
<1>1. ASSUME NEW c \in Callers, CallStep(c) PROVE Frame
  BY <1>1, FrameEnter, FrameTakeTick, FramePromote, FramePermission, FrameAcquire,
     FrameReport, FrameDecide DEF CallStep
<1> QED
  BY <1>1, FrameTimerFires, FrameAdmin, FrameUpdateConfig, FrameRegister DEF Next

-----------------------------------------------------------------------------
(* Action properties.                                                      *)

(* A call moves the breaker along the table of automatic transitions, from *)
(* the state the breaker is in.                                            *)
THEOREM AutomaticTransitions == Spec => AutomaticStepsFollowTheTable
<1>1. ASSUME IInv, [Next]_vars, AutomaticStep
      PROVE  <<Kind(state), heap'[state'].kind>> \in validAutomaticStateTransitions
  <2>1. MovesAreTransitions
    BY <1>1, StepFrame DEF Frame
  <2> QED
    BY <1>1, <2>1 DEF MovesAreTransitions, AutomaticStep, MayTransition
<1>2. IInv /\ [Next]_vars =>
        [AutomaticStep =>
           <<Kind(state), heap'[state'].kind>> \in validAutomaticStateTransitions]_vars
  BY <1>1
<1> QED
  BY <1>2, Invariance, PTL DEF Spec, AutomaticStepsFollowTheTable

(* A call only obtains state objects that the breaker has installed.       *)
THEOREM InstalledStates == Spec => CallsHoldInstalledStates
<1>1. IInv /\ [Next]_vars =>
        [\A c \in Callers :
           entry'[c].state # entry[c].state => entry'[c].state \in {state', None}]_vars
  BY StepFrame DEF Frame
<1> QED
  BY <1>1, Invariance, PTL DEF Spec, CallsHoldInstalledStates

(* With metrics on, the state gauge shows the breaker's state.             *)
THEOREM GaugeCorrect == Spec => []GaugeShowsState
<1>1. Init => GaugeShowsState
  BY DEF Init, GaugeShowsState, Kind, newStateInstance
<1>2. ASSUME IInv, GaugeShowsState, [Next]_vars, IInv' PROVE GaugeShowsState'
  <2>1. ObjectsKept /\ MovesAreTransitions
    BY <1>2, StepFrame DEF Frame
  <2>2. CASE state' = state
    <3>1. heap'[state].kind = heap[state].kind
      BY <1>2, <2>1, <2>2 DEF ObjectsKept, IInv, TypeOK, Live
    <3> QED
      BY <1>2, <2>1, <2>2, <3>1 DEF MovesAreTransitions, GaugeShowsState, Kind
  <2>3. CASE state' # state
    BY <2>1, <2>3 DEF MovesAreTransitions, GaugeShowsState, Kind
  <2> QED
    BY <2>2, <2>3
<1> QED
  BY <1>1, <1>2, Invariance, PTL DEF Spec

-----------------------------------------------------------------------------
(* SEMI_OPEN decides, and on all of its calls.                             *)

(* A SEMI_OPEN object whose window has the calls it waits for has a call   *)
(* on its way to decide.                                                   *)
Pending ==
  IsSemiOpen(state) /\ heap[state].total.total >= ProbesNeeded(heap[state]) =>
    \E c \in Callers : entry[c].state = state /\ pc[c] = "deciding"

(* A verdict on a SEMI_OPEN object rests on enough calls; when it has to   *)
(* rest on all of them, it is the verdict on the window as it is.          *)
Decisive ==
  \A c \in Callers : pc[c] = "deciding" /\ IsSemiOpen(entry[c].state) =>
    LET obj   == heap[entry[c].state]
        calls == obj.setting.Config.NumberOfCallsInSemiOpenState
    IN  /\ obj.total.total >= ProbesNeeded(obj)
        /\ obj.setting.Config.MinimumNumberOfCalls >= calls =>
             /\ obj.total.total = calls
             /\ verdict[c] = "Open" <=> isThresholdsExceed(obj.setting, obj.total)

(* The window of a SEMI_OPEN object holds no more outcomes than calls it   *)
(* admits, and fewer while one of them is still out.                       *)
LEMMA WindowWithinThreshold ==
  ASSUME IInv, NEW ref \in StateRefs, IsSemiOpen(ref)
  PROVE  /\ heap[ref] \in StateObject
         /\ heap[ref].total.total \in Nat
         /\ callThreshold(ref) \in Nat
         /\ heap[ref].setting.Config.MinimumNumberOfCalls \in Int
         /\ heap[ref].setting.Config.NumberOfCallsInSemiOpenState \in Nat
         /\ callThreshold(ref) <= heap[ref].setting.Config.NumberOfCallsInSemiOpenState
         /\ heap[ref].total.total <= callThreshold(ref)
         /\ PermitHolders(ref) # {} => heap[ref].total.total < callThreshold(ref)
<1>1. heap[ref] \in StateObject
  BY DEF IInv, TypeOK, IsSemiOpen
<1>2. /\ heap[ref].total.total \in Nat /\ heap[ref].callCount \in Nat
      /\ heap[ref].setting.Config.NumberOfCallsInSemiOpenState \in Int
      /\ heap[ref].setting.Config.MinimumNumberOfCalls \in Int
  BY <1>1 DEF StateObject, Counter, Setting, Config
<1>3. PermitHolders(ref) # {} => Cardinality(PermitHolders(ref)) >= 1
  BY HoldersFinite, FS_EmptySet
<1>4. /\ heap[ref].setting.Config.NumberOfCallsInSemiOpenState >= 1
      /\ heap[ref].callCount >= heap[ref].total.total + Cardinality(PermitHolders(ref))
      /\ heap[ref].callCount <= callThreshold(ref)
  BY DEF IInv, PermitsBacked, PermitBacked
<1>5. /\ callThreshold(ref) \in Nat
      /\ callThreshold(ref) <= heap[ref].setting.Config.NumberOfCallsInSemiOpenState
  BY <1>2, <1>4, ThresholdType DEF callThreshold
<1> QED
  BY <1>1, <1>2, <1>3, <1>4, <1>5, HoldersFinite

LEMMA VerdictMeaning ==
  ASSUME NEW obj, NEW k, obj.kind = "SemiOpen"
  PROVE  /\ k.total >= ProbesNeeded(obj) <=> VerdictOn(obj, k) # None
         /\ VerdictOn(obj, k) # None =>
              (VerdictOn(obj, k) = "Open" <=> isThresholdsExceed(obj.setting, k))
BY BreakerAssumption DEF VerdictOn, EnoughCalls, Kinds

LEMMA PendingStep ==
  ASSUME ~FallbackMayPanic, IInv, IInv', Pending, [Next]_vars
  PROVE  Pending'
<1> SUFFICES ASSUME IsSemiOpen(state)', ProbesNeeded(heap'[state'])
                      <= heap'[state'].total.total
             PROVE  \E c \in Callers : entry'[c].state = state' /\ pc'[c] = "deciding"
  BY DEF Pending, IInv, TypeOK, Live, StateObject, Counter, ProbesNeeded, Setting, Config
<1>0. ObjectsKept /\ MovesAreTransitions /\ VerdictsKept
  BY StepFrame DEF Frame
<1>1. state \in StateRefs /\ heap[state] # None /\ heap'[state'] # None
  BY DEF IInv, TypeOK, Live
<1>2. CASE state' # state
  <2>1. heap'[state'].total.total = 0
    BY <1>0, <1>2 DEF MovesAreTransitions, NoCounts
  <2>2. ProbesNeeded(heap'[state']) >= 1
    BY DEF IInv, TypeOK, Generations, Setting, Config, ProbesNeeded
  <2>3. ProbesNeeded(heap'[state']) \in Int
    BY DEF IInv, TypeOK, Generations, Setting, Config, ProbesNeeded
  <2> QED
    BY <2>1, <2>2, <2>3
<1>3. CASE state' = state
  <2>1. /\ heap'[state].kind = heap[state].kind
        /\ heap'[state].setting = heap[state].setting
        /\ \/ heap'[state].total = heap[state].total
           \/ \E c \in Callers : Report(c) /\ entry[c].state = state
    BY <1>0, <1>1, <1>3 DEF ObjectsKept
  <2>2. heap[state].kind = "SemiOpen" /\ IsSemiOpen(state)
    BY <1>1, <1>3, <2>1 DEF IsSemiOpen, Kind
  <2>3. ASSUME NEW c \in Callers, Report(c), entry[c].state = state
        PROVE  \E d \in Callers : entry'[d].state = state' /\ pc'[d] = "deciding"
    <3>1. PICK outcome \in Outcomes : \E k \in WindowsAfter(heap[state], outcome) :
            /\ heap'[state] = [heap[state] EXCEPT !.total = k]
            /\ \/ pc' = [pc EXCEPT ![c] = "deciding"] /\ UNCHANGED entry
               \/ VerdictOn(heap[state], k) = None
      BY <1>1, <1>3, <2>3, ReportEffect
    <3>2. PICK k \in WindowsAfter(heap[state], outcome) :
            /\ heap'[state] = [heap[state] EXCEPT !.total = k]
            /\ \/ pc' = [pc EXCEPT ![c] = "deciding"] /\ UNCHANGED entry
               \/ VerdictOn(heap[state], k) = None
      BY <3>1
    <3>3. heap'[state].total = k
      BY <1>1, <3>2 DEF IInv, TypeOK, StateObject
    <3>4. ProbesNeeded(heap'[state]) = ProbesNeeded(heap[state])
      BY <2>1 DEF ProbesNeeded
    <3>5. k.total >= ProbesNeeded(heap[state])
      <4>1. /\ k.total \in Int /\ ProbesNeeded(heap[state]) \in Int
        BY <1>1, <1>3, <3>3 DEF IInv, TypeOK, StateObject, Counter, ProbesNeeded, Setting, Config
      <4> QED
        BY <1>3, <3>3, <3>4, <4>1
    <3>6. VerdictOn(heap[state], k) # None
      BY <2>2, <3>5, VerdictMeaning
    <3> QED
      BY <1>3, <2>3, <3>2, <3>6 DEF IInv, TypeOK
  <2>4. CASE heap'[state].total = heap[state].total
    <3>1. heap[state].total.total >= ProbesNeeded(heap[state])
      <4>1. /\ heap[state].total.total \in Int /\ ProbesNeeded(heap[state]) \in Int
        BY <1>1 DEF IInv, TypeOK, StateObject, Counter, ProbesNeeded, Setting, Config
      <4>2. ProbesNeeded(heap'[state]) = ProbesNeeded(heap[state])
        BY <2>1 DEF ProbesNeeded
      <4> QED
        BY <1>3, <2>4, <4>1, <4>2
    <3>2. PICK c \in Callers : entry[c].state = state /\ pc[c] = "deciding"
      BY <2>2, <3>1 DEF Pending
    <3>3. CASE pc'[c] = "deciding"
      <4>1. ~Report(c)
        BY <3>2 DEF Report
      <4>2. entry'[c] = entry[c]
        BY <1>0, <3>3, <4>1 DEF VerdictsKept
      <4> QED
        BY <1>3, <3>2, <3>3, <4>2
    <3>4. CASE pc'[c] # "deciding"
      <4>1. Decide(c)
        BY <1>0, <3>2, <3>4 DEF VerdictsKept
      <4>2. MayTransition(entry[c].state, verdict[c])
        BY <2>2, <3>2 DEF MayTransition, Kind, IInv, Live, validAutomaticStateTransitions
      <4>3. FreeRefs # {} /\ state' = CHOOSE r \in FreeRefs : TRUE
        BY <4>1, <4>2 DEF Decide, Install
      <4>4. state' # state
        BY <4>3, FreeRefIsFresh DEF IInv
      <4> QED
        BY <1>3, <4>4
    <3> QED
      BY <3>3, <3>4
  <2> QED
    BY <2>1, <2>3, <2>4
<1> QED
  BY <1>2, <1>3

(* The number of calls SEMI_OPEN is configured to admit fits in a uint32.  *)
CountFits(s) == s.Config.NumberOfCallsInSemiOpenState < CountWidth

CountsFit == \A config \in Configs : CountFits(fillDefaultsAndGetSetting(config))

(* So it does in the setting in force.                                     *)
LEMMA SettingFits ==
  ASSUME CountsFit
  PROVE  Spec => []CountFits(setting)
<1>1. Init => CountFits(setting)
  BY DEF Init, CountsFit
<1>2. CountFits(setting) /\ [Next]_vars => CountFits(setting)'
  <2> SUFFICES ASSUME CountFits(setting), [Next]_vars
               PROVE  CountFits(setting)'
    OBVIOUS
  <2>1. setting' = setting \/ \E config \in Configs : UpdateConfig(config)
    BY DEF Next, CallStep, vars, breakerVars, Enter, TakeTick, Promote, acquirePermission,
           acquire, releasePermission, FallbackPanics, release, Report, Decide, TimerFires,
           AdminTransition, RegisterEventListener, Install
  <2>2. ASSUME NEW config \in Configs, UpdateConfig(config)
        PROVE  setting' = setting \/ setting' = fillDefaultsAndGetSetting(config)
    BY <2>2 DEF UpdateConfig
  <2> QED
    BY <2>1, <2>2 DEF CountsFit, CountFits
<1> QED
  BY <1>1, <1>2, PTL DEF Spec

(* SEMI_OPEN with no permit left always has a call that can still end it,  *)
(* unless the number of calls it should admit is too large for a uint32.   *)
THEOREM NeverWedged ==
  ASSUME ~FallbackMayPanic, CountsFit
  PROVE  Spec => []SemiOpenNeverWedged
<1>1. Init => Pending
  BY DEF Init, Pending, IsSemiOpen, Kind, newStateInstance
<1>2. Spec => []Pending
  BY <1>1, PendingStep, Invariance, PTL DEF Spec
<1>3. IInv /\ Pending /\ CountFits(setting) => SemiOpenNeverWedged
  <2> SUFFICES ASSUME IInv, Pending, CountFits(setting), IsSemiOpen(state),
                      heap[state].callCount >= callThreshold(state)
               PROVE  \E c \in Callers :
                        entry[c].state = state /\ pc[c] \notin {"idle", "entered", "promote"}
    BY DEF SemiOpenNeverWedged
  <2>1. CASE PermitHolders(state) # {}
    BY <2>1 DEF PermitHolders
  <2>2. CASE PermitHolders(state) = {}
    <3>1. state \in StateRefs
      BY DEF IInv, TypeOK
    <3>2. heap[state].total.total = heap[state].callCount
      <4>1. Cardinality(PermitHolders(state)) = 0
        BY <2>2, FS_EmptySet
      <4>2. heap[state].total.total \in Nat
        BY <3>1, WindowWithinThreshold
      <4> QED
        BY <3>1, <4>1, <4>2 DEF IInv, PermitsBacked, PermitBacked
    <3>3. heap[state].total.total >= ProbesNeeded(heap[state])
      <4>1. callThreshold(state) = heap[state].setting.Config.NumberOfCallsInSemiOpenState
        BY <3>1, ThresholdFits DEF IInv, TypeOK, Generations, Setting, Config, CountFits,
           callThreshold
      <4> QED
        BY <3>1, <3>2, <4>1, WindowWithinThreshold DEF ProbesNeeded
    <3> QED
      BY <3>3 DEF Pending
  <2> QED
    BY <2>1, <2>2
<1> QED
  BY <1>2, <1>3, SettingFits, Invariance, PTL

LEMMA DecisiveStep ==
  ASSUME IInv, IInv', Decisive, [Next]_vars
  PROVE  Decisive'
<1> SUFFICES ASSUME NEW c \in Callers, pc'[c] = "deciding",
                    heap'[entry'[c].state] # None, heap'[entry'[c].state].kind = "SemiOpen"
             PROVE  LET obj   == heap'[entry'[c].state]
                        calls == obj.setting.Config.NumberOfCallsInSemiOpenState
                    IN  /\ obj.total.total >= ProbesNeeded(obj)
                        /\ obj.setting.Config.MinimumNumberOfCalls >= calls =>
                             /\ obj.total.total = calls
                             /\ verdict'[c] = "Open" <=>
                                  isThresholdsExceed(obj.setting, obj.total)
  BY DEF Decisive, IsSemiOpen, Kind
<1> DEFINE ref == entry'[c].state
<1>0. ObjectsKept /\ VerdictsKept
  BY StepFrame DEF Frame
<1>1. ref \in StateRefs /\ heap'[ref] # None /\ heap'[ref].kind = "SemiOpen"
  BY DEF IInv, Live, Entry
<1>2. CASE /\ pc[c] = "deciding"
           /\ entry'[c] = entry[c] /\ verdict'[c] = verdict[c]
  <2>1. heap[ref] # None
    BY <1>2 DEF IInv, Live
  <2>2. /\ heap'[ref].kind = heap[ref].kind
        /\ heap'[ref].setting = heap[ref].setting
        /\ \/ heap'[ref].total = heap[ref].total
           \/ \E d \in Callers : Report(d) /\ entry[d].state = ref
    BY <1>0, <1>1, <2>1 DEF ObjectsKept
  <2>3. IsSemiOpen(ref)
    BY <1>1, <2>1, <2>2 DEF IsSemiOpen, Kind
  <2>4. LET obj   == heap[ref]
            calls == obj.setting.Config.NumberOfCallsInSemiOpenState
        IN  /\ obj.total.total >= ProbesNeeded(obj)
            /\ obj.setting.Config.MinimumNumberOfCalls >= calls =>
                 /\ obj.total.total = calls
                 /\ verdict[c] = "Open" <=> isThresholdsExceed(obj.setting, obj.total)
    BY <1>2, <2>3 DEF Decisive
  <2>5. CASE heap'[ref].total = heap[ref].total
    BY <1>2, <2>2, <2>4, <2>5 DEF ProbesNeeded
  <2>6. ASSUME NEW d \in Callers, Report(d), entry[d].state = ref
        PROVE  /\ heap'[ref].total.total = heap[ref].total.total + 1
               /\ heap[ref].total.total < callThreshold(ref)
    <3>1. d \in PermitHolders(ref)
      BY <2>6 DEF PermitHolders, Report
    <3>2. heap[ref] \in StateObject /\ heap[ref].total.total < callThreshold(ref)
      BY <1>1, <2>3, <3>1, WindowWithinThreshold
    <3>3. PICK outcome \in Outcomes : \E k \in WindowsAfter(heap[ref], outcome) :
            heap'[ref] = [heap[ref] EXCEPT !.total = k]
      <4>1. heap'[entry[d].state] # None
        BY <1>1, <2>6
      <4>2. \E outcome \in Outcomes : \E k \in WindowsAfter(heap[entry[d].state], outcome) :
              heap'[entry[d].state] = [heap[entry[d].state] EXCEPT !.total = k]
        BY <2>6, <4>1, ReportEffect
      <4> QED
        BY <2>6, <4>2
    <3>4. PICK k \in WindowsAfter(heap[ref], outcome) :
            heap'[ref] = [heap[ref] EXCEPT !.total = k]
      BY <3>3
    <3>5. heap'[ref].total = k
      BY <3>2, <3>4 DEF StateObject
    <3>6. k.total = heap[ref].total.total + 1
      BY <1>1, <2>2, <3>2, SemiOpenWindowGrows
    <3> QED
      BY <3>2, <3>5, <3>6
  <2>7. CASE \E d \in Callers : Report(d) /\ entry[d].state = ref
    <3>1. /\ heap'[ref].total.total = heap[ref].total.total + 1
          /\ heap[ref].total.total < callThreshold(ref)
      BY <2>6, <2>7
    <3>2. /\ heap[ref].total.total \in Nat /\ callThreshold(ref) \in Nat
          /\ heap[ref].setting.Config.MinimumNumberOfCalls \in Int
          /\ heap[ref].setting.Config.NumberOfCallsInSemiOpenState \in Nat
          /\ callThreshold(ref) <= heap[ref].setting.Config.NumberOfCallsInSemiOpenState
      BY <1>1, <2>3, WindowWithinThreshold
    <3> QED
      BY <2>2, <2>4, <3>1, <3>2 DEF ProbesNeeded
  <2> QED
    BY <2>2, <2>5, <2>7
<1>3. CASE Report(c)
  <2>1. pc[c] = "released" /\ entry[c] \in Entry
    BY <1>3 DEF Report, IInv, Live
  <2>2. PICK outcome \in Outcomes : \E k \in WindowsAfter(heap[entry[c].state], outcome) :
          /\ heap'[entry[c].state] # None =>
               heap'[entry[c].state] = [heap[entry[c].state] EXCEPT !.total = k]
          /\ \/ /\ VerdictOn(heap[entry[c].state], k) # None
                /\ verdict' = [verdict EXCEPT ![c] = VerdictOn(heap[entry[c].state], k)]
                /\ UNCHANGED entry
             \/ Return(c)
    BY <1>3, ReportEffect
  <2>3. PICK k \in WindowsAfter(heap[entry[c].state], outcome) :
          /\ heap'[entry[c].state] # None =>
               heap'[entry[c].state] = [heap[entry[c].state] EXCEPT !.total = k]
          /\ \/ /\ VerdictOn(heap[entry[c].state], k) # None
                /\ verdict' = [verdict EXCEPT ![c] = VerdictOn(heap[entry[c].state], k)]
                /\ UNCHANGED entry
             \/ Return(c)
    BY <2>2
  <2>4. ~Return(c)
    BY DEF Return, IInv, TypeOK
  <2>5. /\ VerdictOn(heap[ref], k) # None
        /\ verdict'[c] = VerdictOn(heap[ref], k)
        /\ entry[c].state = ref
        /\ heap'[ref] = [heap[ref] EXCEPT !.total = k]
    BY <1>1, <2>3, <2>4 DEF IInv, TypeOK
  <2>6. /\ heap[ref] \in StateObject
        /\ heap'[ref].total = k
        /\ heap'[ref].setting = heap[ref].setting
        /\ heap[ref].kind = "SemiOpen"
    <3>1. heap[ref] \in StateObject
      BY <1>1, <2>1, <2>5 DEF IInv, TypeOK, Live
    <3> QED
      BY <1>1, <2>5, <3>1 DEF StateObject
  <2>7. /\ k.total >= ProbesNeeded(heap[ref])
        /\ verdict'[c] = "Open" <=> isThresholdsExceed(heap[ref].setting, k)
    BY <2>5, <2>6, VerdictMeaning
  <2>8. /\ k.total \in Int
        /\ k.total <= heap[ref].setting.Config.NumberOfCallsInSemiOpenState
        /\ heap[ref].setting.Config.NumberOfCallsInSemiOpenState \in Int
        /\ heap[ref].setting.Config.MinimumNumberOfCalls \in Int
    <3>1. /\ IsSemiOpen(ref)
          /\ c \in PermitHolders(ref)
      BY <1>1, <2>1, <2>5, <2>6, NilIsNoObject DEF IsSemiOpen, Kind, PermitHolders
    <3>2. /\ heap[ref].total.total \in Nat
          /\ heap[ref].total.total < callThreshold(ref)
          /\ callThreshold(ref) \in Nat
          /\ heap[ref].setting.Config.MinimumNumberOfCalls \in Int
          /\ heap[ref].setting.Config.NumberOfCallsInSemiOpenState \in Nat
          /\ callThreshold(ref) <= heap[ref].setting.Config.NumberOfCallsInSemiOpenState
      BY <1>1, <3>1, WindowWithinThreshold
    <3>3. k.total = heap[ref].total.total + 1
      BY <2>5, <2>6, SemiOpenWindowGrows
    <3> QED
      BY <3>2, <3>3
  <2>9. ProbesNeeded(heap'[ref]) = ProbesNeeded(heap[ref])
    BY <2>6 DEF ProbesNeeded
  <2>10. heap[ref].setting.Config.MinimumNumberOfCalls
           >= heap[ref].setting.Config.NumberOfCallsInSemiOpenState =>
             k.total = heap[ref].setting.Config.NumberOfCallsInSemiOpenState
    BY <2>7, <2>8 DEF ProbesNeeded
  <2> QED
    BY <2>6, <2>7, <2>9, <2>10
<1> QED
  BY <1>0, <1>2, <1>3 DEF VerdictsKept

(* The breaker leaves SEMI_OPEN on its own only on enough of its calls,    *)
(* and on all of them when MinimumNumberOfCalls asks for as many.          *)
THEOREM SemiOpenDecides == Spec => SemiOpenDecidesOnItsCalls
<1>1. Init => Decisive
  BY DEF Init, Decisive
<1>2. Spec => []Decisive
  BY <1>1, DecisiveStep, Invariance, PTL DEF Spec
<1>3. ASSUME IInv, Decisive, [Next]_vars, AutomaticStep, Kind(state) = "SemiOpen"
      PROVE  LET c     == heap[state].setting.Config
                 calls == c.NumberOfCallsInSemiOpenState
                 total == heap[state].total
             IN  /\ total.total >= calls \/ total.total >= c.MinimumNumberOfCalls
                 /\ c.MinimumNumberOfCalls >= calls =>
                      (heap'[state'].kind = "Open" <=>
                         isThresholdsExceed(heap[state].setting, total))
  <2>1. PICK c \in Callers :
          /\ Decide(c)
          /\ MayTransition(entry[c].state, verdict[c])
          /\ heap'[state'].kind = verdict[c]
    <3>1. MovesAreTransitions
      BY <1>3, StepFrame DEF Frame
    <3> QED
      BY <1>3, <3>1 DEF MovesAreTransitions, AutomaticStep, MayTransition,
                        validAutomaticStateTransitions
  <2>2. entry[c].state = state /\ pc[c] = "deciding" /\ IsSemiOpen(state)
    BY <1>3, <2>1 DEF MayTransition, Decide, IsSemiOpen, IInv, Live
  <2> QED
    BY <1>3, <2>1, <2>2 DEF Decisive, ProbesNeeded
<1>4. IInv /\ Decisive /\ [Next]_vars =>
        [AutomaticStep /\ Kind(state) = "SemiOpen" =>
           LET c     == heap[state].setting.Config
               calls == c.NumberOfCallsInSemiOpenState
               total == heap[state].total
           IN  /\ total.total >= calls \/ total.total >= c.MinimumNumberOfCalls
               /\ c.MinimumNumberOfCalls >= calls =>
                    (heap'[state'].kind = "Open" <=>
                       isThresholdsExceed(heap[state].setting, total))]_vars
  BY <1>3
<1> QED
  BY <1>2, <1>4, Invariance, PTL DEF Spec, SemiOpenDecidesOnItsCalls
=============================================================================
