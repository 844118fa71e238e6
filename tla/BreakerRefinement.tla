-------------------------- MODULE BreakerRefinement --------------------------
(***************************************************************************)
(* Breaker implements StateMachine, for every value of the constants: each *)
(* step of a breaker, its callers and its clients is a step of the state   *)
(* machine, or one it does not see.                                        *)
(***************************************************************************)
EXTENDS BreakerTheorems

(* What the state machine sees of the breaker's object.                    *)
Seen(obj) == <<obj.kind, obj.setting, obj.callCount, obj.total>>

LEMMA SeesNothing ==
  ASSUME state' = state, Seen(heap'[state]) = Seen(heap[state])
  PROVE  UNCHANGED Machine!machineVars
BY DEF Seen, Machine!machineVars, Kind, Probes, callThreshold, ProbesNeeded

(* The start, and a step into another state.                               *)
LEMMA Begins == ASSUME Init PROVE Machine!Init
<1>1. PICK config \in Configs :
        /\ IsValidConfig(config)
        /\ setting = fillDefaultsAndGetSetting(config)
        /\ state \in StateRefs
        /\ heap = [r \in StateRefs |->
                     IF r = state THEN newStateInstance("Closed", setting, limiter) ELSE None]
  BY DEF Init
<1>2. setting \in Setting
  BY <1>1, SettingType, BreakerAssumption
<1>3. heap[state] = newStateInstance("Closed", setting, limiter)
  BY <1>1
<1>4. /\ heap[state].kind = "Closed"
      /\ heap[state].setting = setting
  BY <1>3 DEF newStateInstance
<1>5. callThreshold(state) \in Int
  BY <1>2, <1>4, ThresholdType DEF callThreshold, Setting, Config
<1> QED
  BY <1>2, <1>4, <1>5 DEF Machine!Init, Kind, Probes, ProbesNeeded, Setting, Config

LEMMA Enters ==
  ASSUME IInv, IInv', NEW to, heap'[state'].kind = to,
         heap'[state'].callCount = 0, heap'[state'].total = NoCounts
  PROVE  /\ Machine!Enter(to)
         /\ setting' = setting =>
              UNCHANGED [calls |-> callThreshold(state), needed |-> ProbesNeeded(heap[state])]
         /\ [calls |-> callThreshold(state), needed |-> ProbesNeeded(heap[state])]'
              \in [calls : Int, needed : Int]
<1>1. Machine!Enter(to)
  BY DEF Machine!Enter, Kind, Probes, NoCounts
<1>2. heap[state].setting = setting /\ heap'[state'].setting = setting'
  BY DEF IInv, Generations
<1>3. setting' = setting =>
        UNCHANGED [calls |-> callThreshold(state), needed |-> ProbesNeeded(heap[state])]
  BY <1>2 DEF callThreshold, ProbesNeeded
<1>4. setting' \in Setting
  BY DEF IInv, TypeOK
<1>5. [calls |-> callThreshold(state), needed |-> ProbesNeeded(heap[state])]'
        \in [calls : Int, needed : Int]
  <2>1. callThreshold(state)' \in Int
    BY <1>2, <1>4, ThresholdType DEF callThreshold, Setting, Config
  <2> QED
    BY <1>2, <1>4, <2>1 DEF ProbesNeeded, Setting, Config
<1> QED
  BY <1>1, <1>3, <1>5

(* An installation on behalf of entries e makes a fresh object.            *)
LEMMA Installs ==
  ASSUME IInv, IInv', NEW to \in Kinds, FreeRefs # {}, NEW e,
         Install(to, CHOOSE r \in FreeRefs : TRUE, e)
  PROVE  /\ Machine!Enter(to)
         /\ UNCHANGED [calls |-> callThreshold(state), needed |-> ProbesNeeded(heap[state])]
<1> DEFINE ref == CHOOSE r \in FreeRefs : TRUE
<1>1. ref \in StateRefs
  BY FreeRefIsFresh DEF IInv
<1>2. /\ heap' = Swept([heap EXCEPT ![ref] = newStateInstance(to, setting, limiter)], ref, e)
      /\ state' = ref
      /\ setting' = setting
  BY DEF Install
<1> HIDE DEF ref
<1>3. heap'[state'] = newStateInstance(to, setting, limiter)
  BY <1>1, <1>2, InstallFacts DEF IInv
<1>4. /\ heap'[state'].kind = to
      /\ heap'[state'].callCount = 0
      /\ heap'[state'].total = NoCounts
  BY <1>3 DEF newStateInstance
<1> QED
  BY <1>2, <1>4, Enters

-----------------------------------------------------------------------------
(* One step of each kind.                                                  *)

LEMMA HiddenSteps ==
  ASSUME IInv, NEW c \in Callers,
         Enter(c) \/ TakeTick(c) \/ acquire(c) \/ release(c) \/ FallbackPanics(c)
  PROVE  UNCHANGED Machine!machineVars
<1>1. state \in StateRefs /\ state' = state
  BY DEF IInv, TypeOK, Enter, TakeTick, acquire, release, FallbackPanics, breakerVars
<1>2. CASE UNCHANGED heap
  BY <1>1, <1>2, SeesNothing
<1>3. CASE TakeTick(c)
  <2>1. /\ heap \in [StateRefs -> StateObject \cup {None}]
        /\ entry[c].state \in StateRefs
        /\ heap[state] \in StateObject /\ heap[entry[c].state] \in StateObject
        /\ heap' = [heap EXCEPT ![entry[c].state].waitTimer = "drained"]
    BY <1>3 DEF IInv, TypeOK, Live, Entry, TakeTick
  <2>2. Seen(heap'[state]) = Seen(heap[state])
    BY <1>1, <2>1 DEF Seen, StateObject
  <2> QED
    BY <1>1, <2>2, SeesNothing
<1>4. CASE FallbackPanics(c)
  <2>1. heap'[state] = heap[state]
    BY <1>1, <1>4, SweptFacts DEF FallbackPanics
  <2> QED
    BY <1>1, <2>1, SeesNothing
<1> QED
  BY <1>2, <1>3, <1>4 DEF Enter, acquire, release

LEMMA TimerHidden ==
  ASSUME IInv, NEW ref \in StateRefs, TimerFires(ref)
  PROVE  UNCHANGED Machine!machineVars
<1>1. /\ state \in StateRefs /\ state' = state
      /\ heap \in [StateRefs -> StateObject \cup {None}]
      /\ heap[state] \in StateObject /\ heap[ref] \in StateObject
      /\ heap' = [heap EXCEPT ![ref].waitTimer = "fired"]
  BY DEF IInv, TypeOK, Live, TimerFires, breakerVars
<1>2. Seen(heap'[state]) = Seen(heap[state])
  BY <1>1 DEF Seen, StateObject
<1> QED
  BY <1>1, <1>2, SeesNothing

LEMMA PermissionStep ==
  ASSUME IInv, NEW c \in Callers, acquirePermission(c)
  PROVE  Machine!Permit \/ UNCHANGED Machine!machineVars
<1> DEFINE ref0 == entry[c].state
<1>1. /\ state \in StateRefs /\ state' = state
      /\ ref0 \in StateRefs
      /\ heap \in [StateRefs -> StateObject \cup {None}]
      /\ heap[state] \in StateObject /\ heap[ref0] \in StateObject
  BY DEF IInv, TypeOK, Live, Entry, acquirePermission, breakerVars
<1>2. CASE heap' = Swept(heap, state, entry')
  <2>1. heap'[state] = heap[state]
    BY <1>1, <1>2, SweptFacts
  <2> QED
    BY <1>1, <2>1, SeesNothing
<1>3. CASE Permits(ref0) /\ heap' = [heap EXCEPT ![ref0] = Granted(@)]
  <2>1. CASE ref0 = state /\ heap[state].kind = "SemiOpen"
    <3>1. heap'[state] = [heap[state] EXCEPT !.callCount = @ + 1]
      BY <1>1, <1>3, <2>1 DEF Granted
    <3>2. /\ heap'[state].kind = heap[state].kind
          /\ heap'[state].setting = heap[state].setting
          /\ heap'[state].total = heap[state].total
          /\ heap'[state].callCount = heap[state].callCount + 1
      BY <1>1, <3>1 DEF StateObject
    <3>3. heap[state].callCount < callThreshold(state)
      BY <1>3, <2>1 DEF Permits, Kind
    <3> QED
      BY <1>1, <2>1, <3>2, <3>3
         DEF Machine!Permit, Kind, Probes, callThreshold, ProbesNeeded
  <2>2. CASE ~(ref0 = state /\ heap[state].kind = "SemiOpen")
    <3>1. heap'[state] = heap[state]
      BY <1>1, <1>3, <2>2 DEF Granted
    <3> QED
      BY <1>1, <3>1, SeesNothing
  <2> QED
    BY <2>1, <2>2
<1> QED
  BY <1>2, <1>3 DEF acquirePermission

(* A caller that holds a permit has not reported.                          *)
LEMMA HolderOutstanding ==
  ASSUME IInv, NEW c \in Callers, NEW ref \in StateRefs, IsSemiOpen(ref),
         c \in PermitHolders(ref)
  PROVE  heap[ref].total.total < heap[ref].callCount
<1>1. heap[ref].total.total \in Nat /\ heap[ref].callCount \in Nat
  BY DEF IInv, TypeOK, IsSemiOpen, StateObject, Counter
<1>2. Cardinality(PermitHolders(ref)) >= 1
  BY HoldersFinite, FS_EmptySet
<1> QED
  BY <1>1, <1>2, HoldersFinite DEF IInv, PermitsBacked, PermitBacked

LEMMA GiveBackStep ==
  ASSUME IInv, NEW c \in Callers, releasePermission(c)
  PROVE  Machine!GiveBack \/ UNCHANGED Machine!machineVars
<1> DEFINE ref0 == entry[c].state
<1>1. /\ state \in StateRefs /\ state' = state
      /\ ref0 \in StateRefs
      /\ heap \in [StateRefs -> StateObject \cup {None}]
      /\ heap[state] \in StateObject /\ heap[ref0] \in StateObject
      /\ heap[state] # None
      /\ pc[c] = "refused"
  BY DEF IInv, TypeOK, Live, Entry, releasePermission, breakerVars
<1>2. heap'[state] = [heap EXCEPT ![ref0] = Refunded(@)][state]
  BY <1>1, SweptFacts DEF releasePermission
<1>3. CASE ref0 = state /\ heap[state].kind = "SemiOpen"
  <2>1. heap'[state] = [heap[state] EXCEPT !.callCount = @ - 1]
    BY <1>1, <1>2, <1>3 DEF Refunded
  <2>2. /\ heap'[state].kind = heap[state].kind
        /\ heap'[state].setting = heap[state].setting
        /\ heap'[state].total = heap[state].total
        /\ heap'[state].callCount = heap[state].callCount - 1
    BY <1>1, <2>1 DEF StateObject
  <2>3. IsSemiOpen(state) /\ c \in PermitHolders(state)
    BY <1>1, <1>3 DEF IsSemiOpen, Kind, PermitHolders
  <2>4. heap[state].total.total < heap[state].callCount
    BY <1>1, <2>3, HolderOutstanding
  <2> QED
    BY <1>1, <1>3, <2>2, <2>4
       DEF Machine!GiveBack, Kind, Probes, callThreshold, ProbesNeeded
<1>4. CASE ~(ref0 = state /\ heap[state].kind = "SemiOpen")
  <2>1. heap'[state] = heap[state]
    BY <1>1, <1>2, <1>4 DEF Refunded
  <2> QED
    BY <1>1, <2>1, SeesNothing
<1> QED
  BY <1>3, <1>4

LEMMA ResultStep ==
  ASSUME IInv, IInv', NEW c \in Callers, Report(c)
  PROVE  Machine!Result \/ UNCHANGED Machine!machineVars
<1> DEFINE ref0 == entry[c].state
<1>1. /\ state \in StateRefs /\ state' = state
      /\ ref0 \in StateRefs
      /\ heap[state] \in StateObject /\ heap[ref0] \in StateObject
      /\ heap[state] # None
      /\ heap'[state] # None
      /\ pc[c] = "released"
  BY DEF IInv, TypeOK, Live, Entry, Report, breakerVars
<1>2. CASE ref0 # state
  <2>1. heap'[state] = heap[state]
    BY <1>1, <1>2, ReportEffect
  <2> QED
    BY <1>1, <2>1, SeesNothing
<1>3. CASE ref0 = state
  <2>1. PICK outcome \in Outcomes : \E k \in WindowsAfter(heap[state], outcome) :
          heap'[state] = [heap[state] EXCEPT !.total = k]
    BY <1>1, <1>3, ReportEffect
  <2>2. PICK k \in WindowsAfter(heap[state], outcome) :
          heap'[state] = [heap[state] EXCEPT !.total = k]
    BY <2>1
  <2>3. /\ heap'[state].kind = heap[state].kind
        /\ heap'[state].setting = heap[state].setting
        /\ heap'[state].callCount = heap[state].callCount
        /\ heap'[state].total = k
    BY <1>1, <2>2 DEF StateObject
  <2>4. CASE heap[state].kind = "SemiOpen"
    <3>1. k.total = heap[state].total.total + 1
      BY <1>1, <2>2, <2>4, SemiOpenWindowGrows
    <3>2. IsSemiOpen(state) /\ c \in PermitHolders(state)
      BY <1>1, <1>3, <2>4 DEF IsSemiOpen, Kind, PermitHolders
    <3>3. heap[state].total.total < heap[state].callCount
      BY <1>1, <3>2, HolderOutstanding
    <3> QED
      BY <1>1, <2>3, <2>4, <3>1, <3>3
         DEF Machine!Result, Kind, Probes, callThreshold, ProbesNeeded
  <2>5. CASE heap[state].kind # "SemiOpen"
    BY <1>1, <2>3, <2>5 DEF Machine!machineVars, Kind, Probes, callThreshold, ProbesNeeded
  <2> QED
    BY <2>4, <2>5
<1> QED
  BY <1>2, <1>3

LEMMA PromoteMoves ==
  ASSUME IInv, IInv', NEW c \in Callers, Promote(c)
  PROVE  (\E to \in Machine!Kinds : Machine!Automatic(to)) \/ UNCHANGED Machine!machineVars
<1>1. CASE MayTransition(entry[c].state, "SemiOpen")
  <2>1. FreeRefs # {} /\ Install("SemiOpen", CHOOSE r \in FreeRefs : TRUE, entry')
    BY <1>1 DEF Promote
  <2>2. "SemiOpen" \in Kinds
    BY DEF Kinds
  <2>3. /\ Machine!Enter("SemiOpen")
        /\ UNCHANGED [calls |-> callThreshold(state), needed |-> ProbesNeeded(heap[state])]
    BY <2>1, <2>2, Installs
  <2>4. <<Kind(state), "SemiOpen">> \in validAutomaticStateTransitions
    BY <1>1 DEF MayTransition
  <2>5. Kind(state) # "SemiOpen"
    BY <2>4 DEF validAutomaticStateTransitions
  <2>6. Machine!Automatic("SemiOpen")
    BY <2>3, <2>4, <2>5
       DEF Machine!Automatic, validAutomaticStateTransitions,
           Machine!validAutomaticStateTransitions
  <2> QED
    BY <2>6 DEF Machine!Kinds
<1>2. CASE ~MayTransition(entry[c].state, "SemiOpen")
  <2>1. UNCHANGED <<state, heap>>
    BY <1>2 DEF Promote, breakerVars
  <2> QED
    BY <2>1, SeesNothing
<1> QED
  BY <1>1, <1>2

LEMMA DecideMoves ==
  ASSUME IInv, IInv', Decisive, NEW c \in Callers, Decide(c)
  PROVE  (\E to \in Machine!Kinds : Machine!Automatic(to)) \/ UNCHANGED Machine!machineVars
<1> DEFINE to == verdict[c]
<1>1. /\ state \in StateRefs /\ heap[state] \in StateObject /\ heap[state] # None
      /\ pc[c] = "deciding" /\ to \in {"Open", "Closed"}
  BY DEF IInv, TypeOK, Live, Decide
<1>2. CASE MayTransition(entry[c].state, to)
  <2>1. FreeRefs # {} /\ Install(to, CHOOSE r \in FreeRefs : TRUE, entry')
    BY <1>2 DEF Decide
  <2>2. to \in Kinds
    BY <1>1 DEF Kinds
  <2>3. /\ Machine!Enter(to)
        /\ UNCHANGED [calls |-> callThreshold(state), needed |-> ProbesNeeded(heap[state])]
    BY <2>1, <2>2, Installs
  <2>4. entry[c].state = state /\ <<Kind(state), to>> \in validAutomaticStateTransitions
    BY <1>2 DEF MayTransition
  <2>5. ASSUME Kind(state) = "SemiOpen"
        PROVE  heap[state].total.total >= ProbesNeeded(heap[state])
    BY <1>1, <2>4, <2>5 DEF Decisive, IsSemiOpen
  <2>6. Machine!Automatic(to)
    BY <2>3, <2>4, <2>5
       DEF Machine!Automatic, Probes, validAutomaticStateTransitions,
           Machine!validAutomaticStateTransitions
  <2> QED
    BY <1>1, <2>6 DEF Machine!Kinds
<1>3. CASE ~MayTransition(entry[c].state, to)
  <2>1. heap'[state] = heap[state] /\ state' = state
    BY <1>1, <1>3, SweptFacts DEF Decide, breakerVars
  <2> QED
    BY <2>1, SeesNothing
<1> QED
  BY <1>2, <1>3

LEMMA AdminMoves ==
  ASSUME IInv, IInv', NEW to \in AdminTargets, AdminTransition(to)
  PROVE  to \in {"ForcedOpen", "ForcedClosed", "Closed"} /\ Machine!Force(to)
<1>1. to \in {"ForcedOpen", "ForcedClosed", "Closed"} /\ to \in Kinds
  BY BreakerAssumption DEF Kinds
<1> QED
  BY <1>1, Installs DEF AdminTransition, Machine!Force

LEMMA UpdateMoves ==
  ASSUME IInv, IInv', NEW config \in Configs, UpdateConfig(config)
  PROVE  Machine!Reconfigure \/ UNCHANGED Machine!machineVars
<1> DEFINE new == fillDefaultsAndGetSetting(config)
           ref == CHOOSE r \in FreeRefs : TRUE
           lim == CHOOSE r \in FreeLimiterRefs : TRUE
<1>1. CASE SameSetting(new)
  <2>1. UNCHANGED <<state, heap>>
    BY <1>1 DEF UpdateConfig
  <2> QED
    BY <2>1, SeesNothing
<1>2. CASE ~SameSetting(new)
  <2>1. /\ FreeRefs # {}
        /\ state' = ref
        /\ heap' = Swept([heap EXCEPT ![ref] = newStateInstance("Closed", new, lim)], ref, entry)
    BY <1>2 DEF UpdateConfig
  <2>2. ref \in StateRefs /\ heap \in [StateRefs -> StateObject \cup {None}]
    BY <2>1, FreeRefIsFresh DEF IInv, TypeOK
  <2> HIDE DEF ref, new, lim
  <2>3. heap'[state'] = newStateInstance("Closed", new, lim)
    BY <2>1, <2>2 DEF Swept
  <2>4. /\ heap'[state'].kind = "Closed"
        /\ heap'[state'].callCount = 0
        /\ heap'[state'].total = NoCounts
    BY <2>3 DEF newStateInstance
  <2> QED
    BY <2>4, Enters DEF Machine!Reconfigure
<1> QED
  BY <1>1, <1>2

-----------------------------------------------------------------------------

LEMMA StepRefines ==
  ASSUME IInv, IInv', Decisive, [Next]_vars
  PROVE  [Machine!Next]_Machine!machineVars
<1>1. ASSUME NEW c \in Callers, CallStep(c)
      PROVE  [Machine!Next]_Machine!machineVars
  BY <1>1, HiddenSteps, PermissionStep, GiveBackStep, ResultStep, PromoteMoves, DecideMoves
     DEF CallStep, Machine!Next
<1>2. ASSUME NEW ref \in StateRefs, TimerFires(ref)
      PROVE  [Machine!Next]_Machine!machineVars
  BY <1>2, TimerHidden
<1>3. ASSUME NEW to \in AdminTargets, AdminTransition(to)
      PROVE  [Machine!Next]_Machine!machineVars
  BY <1>3, AdminMoves DEF Machine!Next
<1>4. ASSUME NEW config \in Configs, UpdateConfig(config)
      PROVE  [Machine!Next]_Machine!machineVars
  BY <1>4, UpdateMoves DEF Machine!Next
<1>5. CASE RegisterEventListener \/ UNCHANGED vars
  <2>1. UNCHANGED <<state, heap>>
    BY <1>5 DEF RegisterEventListener, vars
  <2> QED
    BY <2>1, SeesNothing
<1> QED
  BY <1>1, <1>2, <1>3, <1>4, <1>5 DEF Next

(* A breaker's state moves as the five-state machine allows, whatever the  *)
(* calls in flight hold, and also when fallbacks panic.                    *)
THEOREM Refinement == Spec => ImplementsStateMachine
<1>1. Init => Machine!Init
  BY Begins
<1>2. Init => Decisive
  BY DEF Init, Decisive
<1>3. IInv /\ IInv' /\ Decisive /\ [Next]_vars => [Machine!Next]_Machine!machineVars
  BY StepRefines
<1>4. IInv /\ IInv' /\ Decisive /\ [Next]_vars => Decisive'
  BY DecisiveStep
<1> QED
  BY <1>1, <1>2, <1>3, <1>4, Invariance, PTL DEF Spec, ImplementsStateMachine, Machine!Spec
=============================================================================
