---------------------------- MODULE BreakerProofs ----------------------------
(***************************************************************************)
(* Theorems about Breaker, for every number of callers, every set of       *)
(* configurations and every bound.                                         *)
(***************************************************************************)
EXTENDS Breaker, CommonLemmas

(* A new object is a state object, and nil is not one.                     *)
LEMMA NewObject ==
  ASSUME NEW to \in Kinds, NEW s \in Setting, NEW lim \in LimiterRefs
  PROVE  /\ newStateInstance(to, s, lim) \in StateObject
         /\ newStateInstance(to, s, lim) # None
<1>1. NoCounts \in Counter
  BY DEF NoCounts, Counter
<1> QED
  BY <1>1, NilIsNoObject DEF newStateInstance, StateObject

LEMMA NewLimiter ==
  ASSUME NEW s \in Setting
  PROVE  /\ newConcurrencyLimiter(s) \in Limiter
         /\ newConcurrencyLimiter(s) # None
BY NilIsNoLimiter DEF newConcurrencyLimiter, Limiter, Setting, Config

(* Counting an outcome on top of part of a window gives a counter again.   *)
LEMMA WindowType ==
  ASSUME NEW obj \in StateObject, NEW outcome \in Outcomes,
         NEW k \in WindowsAfter(obj, outcome)
  PROVE  k \in Counter
<1>1. obj.total \in Counter
  BY DEF StateObject
<1>2. ASSUME NEW j \in Kept(obj) PROVE add(j, outcome) \in Counter
  <2>1. j \in Counter
    BY <1>1, <1>2 DEF Kept
  <2> QED
    BY <2>1 DEF add, Counter
<1> QED
  BY <1>1, <1>2 DEF WindowsAfter

(* A SEMI_OPEN window forgets nothing; other windows may.                  *)
LEMMA SemiOpenWindowGrows ==
  ASSUME NEW obj \in StateObject, NEW outcome \in Outcomes,
         NEW k \in WindowsAfter(obj, outcome), obj.kind = "SemiOpen"
  PROVE  k.total = obj.total.total + 1
BY DEF WindowsAfter, Kept, add

LEMMA VerdictType ==
  ASSUME NEW obj, NEW k
  PROVE  VerdictOn(obj, k) \in {"Open", "Closed", None}
BY DEF VerdictOn

-----------------------------------------------------------------------------
(* The inductive invariant.                                                *)

(* Whatever the breaker or a call in flight points at exists, and only a   *)
(* call that has returned holds nothing.                                   *)
Live ==
  /\ heap[state] # None
  /\ limiters[limiter] # None
  /\ \A c \in Callers :
       /\ pc[c] = "idle" => entry[c] = NoEntry
       /\ pc[c] # "idle" => /\ entry[c] \in Entry
                            /\ heap[entry[c].state] # None
                            /\ limiters[entry[c].limiter] # None
       /\ pc[c] = "deciding" => verdict[c] \in {"Open", "Closed"}

(* PermitsConserved, with room for permits that a panicking fallback loses. *)
PermitBacked(ref) ==
  IsSemiOpen(ref) =>
    LET backed == heap[ref].total.total + Cardinality(PermitHolders(ref))
    IN  /\ heap[ref].callCount >= backed
        /\ ~FallbackMayPanic => heap[ref].callCount = backed
        /\ heap[ref].callCount <= callThreshold(ref)
        /\ heap[ref].setting.Config.NumberOfCallsInSemiOpenState >= 1

PermitsBacked == \A ref \in StateRefs : PermitBacked(ref)

(* The breaker's object and limiter were made together, from a setting in  *)
(* which no state decides on an empty window.                              *)
Generations ==
  /\ setting.Config.NumberOfCallsInSemiOpenState >= 1
  /\ setting.Config.MinimumNumberOfCalls >= 1
  /\ heap[state].home = limiter
  /\ heap[state].setting = setting
  /\ GenerationsAgree

IInv == TypeOK /\ Live /\ PermitsBacked /\ Generations

-----------------------------------------------------------------------------
(* Facts the steps share.                                                  *)

(* The conversion to uint32 keeps a number that fits and enlarges none.    *)
LEMMA ThresholdType ==
  ASSUME NEW n \in Int
  PROVE  n % CountWidth \in Nat /\ (n >= 0 => n % CountWidth <= n)
<1>1. CountWidth \in Nat /\ CountWidth >= 1
  BY BreakerAssumption
<1>2. n % CountWidth \in Nat
  BY <1>1
<1>3. ASSUME n >= 0 PROVE n % CountWidth <= n
  <2>1. /\ n \div CountWidth \in Nat
        /\ n = CountWidth * (n \div CountWidth) + (n % CountWidth)
    BY <1>1, <1>3
  <2>2. CountWidth * (n \div CountWidth) >= 0
    BY <1>1, <2>1
  <2> QED
    BY <1>1, <1>2, <2>1, <2>2
<1> QED
  BY <1>2, <1>3

LEMMA ThresholdFits ==
  ASSUME NEW n \in Nat, n < CountWidth
  PROVE  n % CountWidth = n
BY BreakerAssumption

LEMMA SweptFacts ==
  ASSUME NEW h, NEW st, NEW e, NEW r \in StateRefs
  PROVE  /\ Swept(h, st, e)[r] \in {h[r], None}
         /\ r = st => Swept(h, st, e)[r] = h[r]
         /\ \A c \in Callers : e[c].state = r => Swept(h, st, e)[r] = h[r]
BY DEF Swept

LEMMA SweptType ==
  ASSUME NEW h \in [StateRefs -> StateObject \cup {None}], NEW st, NEW e
  PROVE  Swept(h, st, e) \in [StateRefs -> StateObject \cup {None}]
BY DEF Swept

LEMMA SweptLimitersFacts ==
  ASSUME NEW l, NEW lim, NEW e, NEW r \in LimiterRefs
  PROVE  /\ r = lim => SweptLimiters(l, lim, e)[r] = l[r]
         /\ \A c \in Callers : e[c].limiter = r => SweptLimiters(l, lim, e)[r] = l[r]
BY DEF SweptLimiters

LEMMA SweptLimitersType ==
  ASSUME NEW l \in [LimiterRefs -> Limiter \cup {None}], NEW lim, NEW e
  PROVE  SweptLimiters(l, lim, e) \in [LimiterRefs -> Limiter \cup {None}]
BY DEF SweptLimiters

LEMMA HoldersFinite ==
  ASSUME NEW ref \in StateRefs
  PROVE  /\ IsFiniteSet(PermitHolders(ref))
         /\ Cardinality(PermitHolders(ref)) \in Nat
BY BreakerAssumption, FS_Subset, FS_CardinalityType DEF PermitHolders

(* A step that leaves an object's permits, their holders and its window    *)
(* alone, or forgets the object, keeps its account.                        *)
LEMMA PermitKept ==
  ASSUME NEW ref \in StateRefs, PermitBacked(ref),
         heap'[ref] # None =>
           /\ heap[ref] # None
           /\ heap'[ref].kind = heap[ref].kind
           /\ heap'[ref].setting = heap[ref].setting
           /\ heap'[ref].total = heap[ref].total
           /\ heap'[ref].callCount = heap[ref].callCount,
         PermitHolders(ref)' = PermitHolders(ref)
  PROVE  PermitBacked(ref)'
BY DEF PermitBacked, IsSemiOpen, Kind, callThreshold

(* Nothing in flight points at a free address.                             *)
LEMMA FreeRefIsFresh ==
  ASSUME TypeOK, Live, FreeRefs # {}
  PROVE  LET ref == CHOOSE r \in FreeRefs : TRUE
         IN  /\ ref \in StateRefs
             /\ heap[ref] = None
             /\ ref # state
             /\ \A c \in Callers : entry[c].state # ref
<1> DEFINE ref == CHOOSE r \in FreeRefs : TRUE
<1>1. ref \in FreeRefs
  OBVIOUS
<1>2. ref \in StateRefs /\ heap[ref] = None
  BY <1>1 DEF FreeRefs
<1> HIDE DEF ref
<1>3. ref # state
  BY <1>2 DEF Live
<1>4. ASSUME NEW c \in Callers PROVE entry[c].state # ref
  BY <1>2, BreakerAssumption DEF Live, NoEntry
<1> QED
  BY <1>2, <1>3, <1>4 DEF ref

(* The state objects after an installation on behalf of entries e.         *)
LEMMA InstallFacts ==
  ASSUME TypeOK, NEW to \in Kinds, NEW ref \in StateRefs, NEW e,
         heap' = Swept([heap EXCEPT ![ref] = newStateInstance(to, setting, limiter)], ref, e)
  PROVE  /\ heap' \in [StateRefs -> StateObject \cup {None}]
         /\ heap'[ref] = newStateInstance(to, setting, limiter)
         /\ heap'[ref] \in StateObject /\ heap'[ref] # None
         /\ \A r \in StateRefs : r # ref =>
              /\ heap'[r] \in {heap[r], None}
              /\ \A c \in Callers : e[c].state = r => heap'[r] = heap[r]
<1> DEFINE h == [heap EXCEPT ![ref] = newStateInstance(to, setting, limiter)]
<1>1. newStateInstance(to, setting, limiter) \in StateObject
      /\ newStateInstance(to, setting, limiter) # None
  BY NewObject DEF TypeOK
<1>2. h \in [StateRefs -> StateObject \cup {None}] /\ heap' = Swept(h, ref, e)
  BY <1>1 DEF TypeOK
<1> HIDE DEF h
<1>3. heap' \in [StateRefs -> StateObject \cup {None}]
  BY <1>2 DEF Swept
<1>4. heap'[ref] = newStateInstance(to, setting, limiter)
  BY <1>2 DEF TypeOK, Swept, h
<1>5. ASSUME NEW r \in StateRefs, r # ref
      PROVE  /\ heap'[r] \in {heap[r], None}
             /\ \A c \in Callers : e[c].state = r => heap'[r] = heap[r]
  <2>1. h[r] = heap[r]
    BY <1>5 DEF TypeOK, h
  <2> QED
    BY <1>2, <2>1 DEF Swept
<1> QED
  BY <1>1, <1>3, <1>4, <1>5

(* A new object has handed out no permit.                                  *)
LEMMA NewPermits ==
  ASSUME NEW ref \in StateRefs, NEW to \in Kinds, NEW s \in Setting, NEW lim,
         heap'[ref] = newStateInstance(to, s, lim),
         s.Config.NumberOfCallsInSemiOpenState >= 1,
         PermitHolders(ref)' = {}
  PROVE  PermitBacked(ref)'
<1>1. s.Config.NumberOfCallsInSemiOpenState % CountWidth \in Nat
  BY ThresholdType DEF Setting, Config
<1>2. /\ heap'[ref].setting = s /\ heap'[ref].total.total = 0 /\ heap'[ref].callCount = 0
  BY DEF newStateInstance, NoCounts
<1>3. Cardinality(PermitHolders(ref)') = 0
  BY FS_EmptySet
<1>4. callThreshold(ref)' \in Nat
  BY <1>1, <1>2 DEF callThreshold
<1> QED
  BY <1>2, <1>3, <1>4 DEF PermitBacked, IsSemiOpen

(* A holder fewer, a holder more.                                          *)
LEMMA HolderLeaves ==
  ASSUME NEW ref \in StateRefs, NEW c \in PermitHolders(ref)
  PROVE  Cardinality(PermitHolders(ref) \ {c}) = Cardinality(PermitHolders(ref)) - 1
BY HoldersFinite, FS_RemoveElement

LEMMA HolderComes ==
  ASSUME NEW ref \in StateRefs, NEW c, c \notin PermitHolders(ref)
  PROVE  Cardinality(PermitHolders(ref) \cup {c}) = Cardinality(PermitHolders(ref)) + 1
BY HoldersFinite, FS_AddElement

(* What a return leaves behind, when before it the call changed its object *)
(* from heap to h in its permits and its window only.                      *)
LEMMA ReturnFacts ==
  ASSUME IInv, NEW c \in Callers, pc[c] # "idle", Return(c),
         NEW h \in [StateRefs -> StateObject \cup {None}],
         \A r \in StateRefs : r # entry[c].state => h[r] = heap[r],
         LET old == heap[entry[c].state]
             new == h[entry[c].state]
         IN  /\ new \in StateObject
             /\ new.kind = old.kind /\ new.home = old.home /\ new.setting = old.setting,
         heap' = Swept(h, state, entry'),
         limiters' = SweptLimiters(limiters, limiter, entry'),
         UNCHANGED breakerVars
  PROVE  /\ TypeOK' /\ Live' /\ Generations'
         /\ \A ref \in StateRefs :
              /\ heap'[ref] \in {h[ref], None}
              /\ PermitHolders(ref)' = PermitHolders(ref) \ {c}
              /\ ref # entry[c].state => PermitHolders(ref)' = PermitHolders(ref)
<1> USE DEF IInv
<1> DEFINE ref0 == entry[c].state
<1>0. ref0 \in StateRefs /\ heap[ref0] # None /\ h[ref0] # None
  BY NilIsNoObject DEF TypeOK, Live, Entry
<1>a. /\ pc'[c] = "idle" /\ entry'[c] = NoEntry
      /\ \A d \in Callers : d # c => /\ pc'[d] = pc[d]
                                    /\ entry'[d] = entry[d]
                                    /\ verdict'[d] = verdict[d]
      /\ pc' \in [Callers -> PCs]
      /\ entry' \in [Callers -> Entry \cup {NoEntry}]
      /\ verdict' \in [Callers -> {"Open", "Closed", None}]
  BY DEF TypeOK, Return, PCs
<1>b. /\ heap' \in [StateRefs -> StateObject \cup {None}]
      /\ heap'[state] = h[state]
      /\ \A r \in StateRefs : heap'[r] \in {h[r], None}
      /\ \A r \in StateRefs : \A d \in Callers : entry'[d].state = r => heap'[r] = h[r]
  <2>1. heap' \in [StateRefs -> StateObject \cup {None}]
    BY SweptType
  <2> QED
    BY <2>1 DEF TypeOK, Swept
<1>c. /\ limiters' \in [LimiterRefs -> Limiter \cup {None}]
      /\ limiters'[limiter] = limiters[limiter]
      /\ \A r \in LimiterRefs :
           \A d \in Callers : entry'[d].limiter = r => limiters'[r] = limiters[r]
  <2>1. limiters' \in [LimiterRefs -> Limiter \cup {None}]
    BY SweptLimitersType DEF TypeOK
  <2> QED
    BY <2>1 DEF TypeOK, SweptLimiters
<1>d. \A r \in StateRefs : heap[r] # None =>
        h[r] # None /\ h[r].home = heap[r].home /\ h[r].setting = heap[r].setting
  BY <1>0
<1>1. TypeOK'
  BY <1>a, <1>b, <1>c DEF TypeOK, breakerVars
<1>2. Live'
  <2>1. heap'[state'] # None /\ limiters'[limiter'] # None
    BY <1>b, <1>c, <1>d DEF TypeOK, Live, breakerVars
  <2>2. ASSUME NEW d \in Callers
        PROVE  /\ pc'[d] = "idle" => entry'[d] = NoEntry
               /\ pc'[d] # "idle" => /\ entry'[d] \in Entry
                                     /\ heap'[entry'[d].state] # None
                                     /\ limiters'[entry'[d].limiter] # None
               /\ pc'[d] = "deciding" => verdict'[d] \in {"Open", "Closed"}
    BY <1>a, <1>b, <1>c, <1>d DEF Live, Entry
  <2> QED
    BY <2>1, <2>2 DEF Live
<1>3. Generations'
  <2>1. heap'[state'].home = limiter' /\ heap'[state'].setting = setting'
    BY <1>b, <1>d DEF TypeOK, Live, Generations, breakerVars
  <2>2. ASSUME NEW d \in Callers, pc'[d] # "idle"
        PROVE  /\ heap'[entry'[d].state].home = entry'[d].limiter
               /\ heap'[entry'[d].state].setting = entry'[d].setting
    BY <1>a, <1>b, <1>d, <2>2 DEF Live, Entry, Generations, GenerationsAgree
  <2> QED
    BY <2>1, <2>2 DEF Generations, GenerationsAgree, breakerVars
<1>4. ASSUME NEW ref \in StateRefs
      PROVE  /\ PermitHolders(ref)' = PermitHolders(ref) \ {c}
             /\ ref # entry[c].state => PermitHolders(ref)' = PermitHolders(ref)
  BY <1>a DEF PermitHolders
<1> QED
  BY <1>1, <1>2, <1>3, <1>4, <1>b

-----------------------------------------------------------------------------
(* One lemma per action.                                                   *)

LEMMA EnterStep ==
  ASSUME IInv, NEW c \in Callers, Enter(c)
  PROVE  IInv'
<1> USE DEF IInv
<1>1. TypeOK'
  BY DEF TypeOK, Enter, breakerVars, Entry, PCs
<1>2. Live'
  BY DEF TypeOK, Live, Enter, breakerVars, Entry
<1>3. PermitsBacked'
  <2> SUFFICES ASSUME NEW ref \in StateRefs PROVE PermitBacked(ref)'
    BY DEF PermitsBacked
  <2>1. PermitHolders(ref)' = PermitHolders(ref)
    BY DEF PermitHolders, TypeOK, Enter
  <2> QED
    BY <2>1, PermitKept DEF PermitsBacked, Enter
<1>4. Generations'
  BY DEF TypeOK, Live, Generations, GenerationsAgree, Enter, breakerVars
<1> QED
  BY <1>1, <1>2, <1>3, <1>4

LEMMA TakeTickStep ==
  ASSUME IInv, NEW c \in Callers, TakeTick(c)
  PROVE  IInv'
<1> USE DEF IInv
<1> DEFINE ref0 == entry[c].state
<1>0. /\ ref0 \in StateRefs /\ heap[ref0] \in StateObject
      /\ heap'[ref0] = [heap[ref0] EXCEPT !.waitTimer = "drained"]
      /\ \A ref \in StateRefs : ref # ref0 => heap'[ref] = heap[ref]
      /\ heap'[ref0] \in StateObject
  BY DEF TypeOK, Live, TakeTick, Entry, StateObject
<1>1. TypeOK'
  BY <1>0 DEF TypeOK, TakeTick, breakerVars, PCs
<1>2. Live'
  BY <1>0, NilIsNoObject DEF TypeOK, Live, TakeTick, breakerVars, Entry
<1>3. PermitsBacked'
  <2> SUFFICES ASSUME NEW ref \in StateRefs PROVE PermitBacked(ref)'
    BY DEF PermitsBacked
  <2>1. PermitHolders(ref)' = PermitHolders(ref)
    BY DEF PermitHolders, TypeOK, TakeTick
  <2>2. heap[ref] # None
        => /\ heap'[ref].kind = heap[ref].kind
           /\ heap'[ref].setting = heap[ref].setting
           /\ heap'[ref].total = heap[ref].total
           /\ heap'[ref].callCount = heap[ref].callCount
    BY <1>0 DEF StateObject
  <2>3. heap[ref] = None => heap'[ref] = None
    BY <1>0 DEF Live, TakeTick
  <2> QED
    BY <2>1, <2>2, <2>3, PermitKept DEF PermitsBacked
<1>4. Generations'
  BY <1>0 DEF TypeOK, Live, Generations, GenerationsAgree, TakeTick, breakerVars, StateObject, Entry
<1> QED
  BY <1>1, <1>2, <1>3, <1>4

LEMMA AdminTransitionStep ==
  ASSUME IInv, NEW to \in AdminTargets, AdminTransition(to)
  PROVE  IInv'
<1> USE DEF IInv
<1> DEFINE ref0 == CHOOSE r \in FreeRefs : TRUE
<1>0. to \in Kinds
  BY BreakerAssumption DEF Kinds
<1>a. /\ ref0 \in StateRefs /\ heap[ref0] = None /\ ref0 # state
      /\ \A c \in Callers : entry[c].state # ref0
  BY FreeRefIsFresh DEF AdminTransition
<1>b. /\ heap' \in [StateRefs -> StateObject \cup {None}]
      /\ heap'[ref0] = newStateInstance(to, setting, limiter)
      /\ heap'[ref0] \in StateObject /\ heap'[ref0] # None
      /\ \A r \in StateRefs : r # ref0 =>
           /\ heap'[r] \in {heap[r], None}
           /\ \A c \in Callers : entry[c].state = r => heap'[r] = heap[r]
      /\ state' = ref0
      /\ gauge' \in Kinds \cup {"unset"}
      /\ heard' \in Kinds \cup {"nobody", "nothing"}
      /\ UNCHANGED <<setting, limiter, requested>>
  <2>1. Install(to, ref0, entry)
    BY DEF AdminTransition
  <2> HIDE DEF ref0
  <2> QED
    BY <1>0, <1>a, <2>1, InstallFacts DEF Install, TypeOK
<1>c. UNCHANGED <<limiters, pc, entry, verdict>>
  BY DEF AdminTransition
<1> HIDE DEF ref0
<1>1. TypeOK'
  BY <1>a, <1>b, <1>c DEF TypeOK
<1>2. Live'
  BY <1>a, <1>b, <1>c DEF TypeOK, Live, Entry
<1>3. PermitsBacked'
  <2> SUFFICES ASSUME NEW ref \in StateRefs PROVE PermitBacked(ref)'
    BY DEF PermitsBacked
  <2>1. PermitHolders(ref)' = PermitHolders(ref)
    BY <1>c DEF PermitHolders
  <2>2. CASE ref = ref0
    <3>1. PermitHolders(ref)' = {}
      BY <2>1, <2>2, <1>a DEF PermitHolders
    <3> QED
      BY <3>1, <2>2, <1>0, <1>b, NewPermits DEF TypeOK, Live, Generations
  <2>3. CASE ref # ref0
    BY <2>1, <2>3, <1>b, PermitKept DEF PermitsBacked
  <2> QED
    BY <2>2, <2>3
<1>4. Generations'
  BY <1>a, <1>b, <1>c DEF TypeOK, Live, Generations, GenerationsAgree, Entry, newStateInstance
<1> QED
  BY <1>1, <1>2, <1>3, <1>4

LEMMA TimerFiresStep ==
  ASSUME IInv, NEW ref0 \in StateRefs, TimerFires(ref0)
  PROVE  IInv'
<1> USE DEF IInv
<1>0. /\ heap[ref0] \in StateObject
      /\ heap'[ref0] = [heap[ref0] EXCEPT !.waitTimer = "fired"]
      /\ \A ref \in StateRefs : ref # ref0 => heap'[ref] = heap[ref]
      /\ heap'[ref0] \in StateObject
  BY DEF TypeOK, TimerFires, StateObject
<1>1. TypeOK'
  BY <1>0 DEF TypeOK, TimerFires, breakerVars
<1>2. Live'
  BY <1>0, NilIsNoObject DEF TypeOK, Live, TimerFires, breakerVars, Entry
<1>3. PermitsBacked'
  <2> SUFFICES ASSUME NEW ref \in StateRefs PROVE PermitBacked(ref)'
    BY DEF PermitsBacked
  <2>1. PermitHolders(ref)' = PermitHolders(ref)
    BY DEF PermitHolders, TimerFires
  <2>2. heap[ref] # None
        => /\ heap'[ref].kind = heap[ref].kind
           /\ heap'[ref].setting = heap[ref].setting
           /\ heap'[ref].total = heap[ref].total
           /\ heap'[ref].callCount = heap[ref].callCount
    BY <1>0 DEF StateObject
  <2>3. heap[ref] = None => heap'[ref] = None
    BY <1>0 DEF TimerFires
  <2> QED
    BY <2>1, <2>2, <2>3, PermitKept DEF PermitsBacked
<1>4. Generations'
  BY <1>0 DEF TypeOK, Live, Generations, GenerationsAgree, TimerFires, breakerVars, StateObject, Entry
<1> QED
  BY <1>1, <1>2, <1>3, <1>4

LEMMA acquireStep ==
  ASSUME IInv, NEW c \in Callers, acquire(c)
  PROVE  IInv'
<1> USE DEF IInv
<1> DEFINE lim == entry[c].limiter
           n   == entry[c].factor
<1>0. /\ lim \in LimiterRefs /\ n \in Nat
      /\ limiters[lim] \in Limiter
      /\ Acquired(limiters[lim], n) \in Limiter
  <2>1. lim \in LimiterRefs /\ n \in Nat /\ limiters[lim] \in Limiter
    BY BreakerAssumption DEF TypeOK, Live, acquire, Entry
  <2> QED
    BY <2>1 DEF Acquired, Limiter
<1>1. TypeOK'
  BY <1>0 DEF TypeOK, acquire, breakerVars, PCs
<1>2. Live'
  BY <1>0, NilIsNoLimiter DEF TypeOK, Live, acquire, breakerVars, Entry
<1>3. PermitsBacked'
  <2> SUFFICES ASSUME NEW ref \in StateRefs PROVE PermitBacked(ref)'
    BY DEF PermitsBacked
  <2>1. PermitHolders(ref)' = PermitHolders(ref)
    BY DEF PermitHolders, TypeOK, acquire
  <2> QED
    BY <2>1, PermitKept DEF PermitsBacked, acquire
<1>4. Generations'
  BY DEF TypeOK, Live, Generations, GenerationsAgree, acquire, breakerVars, Entry
<1> QED
  BY <1>1, <1>2, <1>3, <1>4

LEMMA acquirePermissionStep ==
  ASSUME IInv, NEW c \in Callers, acquirePermission(c)
  PROVE  IInv'
<1> USE DEF IInv
<1> DEFINE ref0 == entry[c].state
<1>0. /\ ref0 \in StateRefs /\ heap[ref0] \in StateObject
      /\ pc[c] = "entered"
      /\ c \notin PermitHolders(ref0)
  BY DEF TypeOK, Live, acquirePermission, Entry, PermitHolders
<1>1. CASE /\ Permits(ref0)
           /\ heap' = [heap EXCEPT ![ref0] = Granted(@)]
           /\ pc' = [pc EXCEPT ![c] = "permitted"]
           /\ UNCHANGED <<breakerVars, limiters, entry, verdict>>
  <2>1. /\ heap'[ref0] = Granted(heap[ref0])
        /\ \A r \in StateRefs : r # ref0 => heap'[r] = heap[r]
        /\ heap'[ref0] \in StateObject
        /\ heap'[ref0].kind = heap[ref0].kind
        /\ heap'[ref0].home = heap[ref0].home
        /\ heap'[ref0].setting = heap[ref0].setting
        /\ heap'[ref0].total = heap[ref0].total
        /\ heap'[ref0].kind = "SemiOpen" =>
              heap'[ref0].callCount = heap[ref0].callCount + 1
    BY <1>0, <1>1 DEF TypeOK, Granted, StateObject
  <2>2. TypeOK'
    BY <1>1, <2>1 DEF TypeOK, breakerVars, PCs
  <2>a. \A r \in StateRefs : heap[r] # None =>
          /\ heap'[r] # None
          /\ heap'[r].home = heap[r].home
          /\ heap'[r].setting = heap[r].setting
    BY <2>1, NilIsNoObject
  <2>b. \A d \in Callers : d # c => pc'[d] = pc[d]
    BY <1>1 DEF TypeOK
  <2>3. Live'
    BY <1>0, <1>1, <2>a, <2>b DEF TypeOK, Live, breakerVars, Entry
  <2>4. PermitsBacked'
    <3> SUFFICES ASSUME NEW ref \in StateRefs PROVE PermitBacked(ref)'
      BY DEF PermitsBacked
    <3>1. CASE ref = ref0
      <4>1. PermitHolders(ref)' = PermitHolders(ref) \cup {c}
        BY <1>1, <3>1 DEF PermitHolders, TypeOK
      <4>2. Cardinality(PermitHolders(ref))' = Cardinality(PermitHolders(ref)) + 1
        BY <1>0, <3>1, <4>1, HolderComes
      <4>3. heap'[ref].kind = "SemiOpen" =>
              heap[ref].callCount < callThreshold(ref)
        BY <1>1, <2>1, <3>1 DEF Permits, Kind
      <4>4. heap[ref].callCount \in Nat /\ heap[ref].total.total \in Nat
            /\ callThreshold(ref) \in Nat
        BY <1>0, <3>1, ThresholdType DEF StateObject, Counter, Setting, Config, callThreshold
      <4>5. PermitBacked(ref) /\ heap[ref] # None
        BY <1>0, <3>1, NilIsNoObject DEF PermitsBacked
      <4>6. callThreshold(ref)' = callThreshold(ref)
        BY <2>1, <3>1 DEF callThreshold
      <4> QED
        BY <2>1, <3>1, <4>2, <4>3, <4>4, <4>5, <4>6, HoldersFinite
           DEF PermitBacked, IsSemiOpen, Kind
    <3>2. CASE ref # ref0
      <4>1. PermitHolders(ref)' = PermitHolders(ref)
        BY <1>1, <3>2 DEF PermitHolders, TypeOK
      <4> QED
        BY <2>1, <3>2, <4>1, PermitKept DEF PermitsBacked
    <3> QED
      BY <3>1, <3>2
  <2>5. Generations'
    BY <1>0, <1>1, <2>a, <2>b DEF TypeOK, Live, Generations, GenerationsAgree, breakerVars, Entry
  <2> QED
    BY <2>2, <2>3, <2>4, <2>5
<1>2. CASE /\ Return(c)
           /\ heap' = Swept(heap, state, entry')
           /\ limiters' = SweptLimiters(limiters, limiter, entry')
           /\ UNCHANGED breakerVars
  <2>1. /\ TypeOK' /\ Live' /\ Generations'
        /\ \A ref \in StateRefs :
             /\ heap'[ref] \in {heap[ref], None}
             /\ PermitHolders(ref)' = PermitHolders(ref) \ {c}
             /\ ref # ref0 => PermitHolders(ref)' = PermitHolders(ref)
    BY <1>0, <1>2, ReturnFacts DEF TypeOK
  <2>2. ASSUME NEW ref \in StateRefs PROVE PermitBacked(ref)'
    <3>1. PermitHolders(ref)' = PermitHolders(ref)
      BY <1>0, <2>1 DEF PermitHolders
    <3> QED
      BY <2>1, <3>1, PermitKept DEF PermitsBacked
  <2> QED
    BY <2>1, <2>2 DEF PermitsBacked
<1> QED
  BY <1>1, <1>2 DEF acquirePermission

LEMMA releasePermissionStep ==
  ASSUME IInv, NEW c \in Callers, releasePermission(c)
  PROVE  IInv'
<1> USE DEF IInv
<1> DEFINE ref0 == entry[c].state
           h    == [heap EXCEPT ![ref0] = Refunded(@)]
<1>0. /\ ref0 \in StateRefs /\ heap[ref0] \in StateObject /\ heap[ref0] # None
      /\ pc[c] = "refused"
      /\ c \in PermitHolders(ref0)
  BY NilIsNoObject DEF TypeOK, Live, releasePermission, Entry, PermitHolders
<1>1. Cardinality(PermitHolders(ref0)) >= 1
  BY <1>0, HoldersFinite, FS_EmptySet
<1>2. heap[ref0].kind = "SemiOpen" => heap[ref0].callCount >= 1
  <2>1. heap[ref0].callCount \in Nat /\ heap[ref0].total.total \in Nat
    BY <1>0 DEF StateObject, Counter
  <2> QED
    BY <1>0, <1>1, <2>1, HoldersFinite DEF PermitsBacked, PermitBacked, IsSemiOpen, Kind
<1>3. /\ h \in [StateRefs -> StateObject \cup {None}]
      /\ \A r \in StateRefs : r # ref0 => h[r] = heap[r]
      /\ h[ref0] \in StateObject
      /\ h[ref0].kind = heap[ref0].kind
      /\ h[ref0].home = heap[ref0].home
      /\ h[ref0].setting = heap[ref0].setting
      /\ h[ref0].total = heap[ref0].total
      /\ h[ref0].kind = "SemiOpen" => h[ref0].callCount = heap[ref0].callCount - 1
  <2>1. Refunded(heap[ref0]) \in StateObject
    BY <1>0, <1>2 DEF Refunded, StateObject
  <2> QED
    BY <1>0, <2>1 DEF TypeOK, Refunded, StateObject
<1>4. /\ Return(c)
      /\ heap' = Swept(h, state, entry')
      /\ limiters' = SweptLimiters(limiters, limiter, entry')
      /\ UNCHANGED breakerVars
  BY DEF releasePermission
<1> HIDE DEF h
<1>5. /\ TypeOK' /\ Live' /\ Generations'
      /\ \A ref \in StateRefs :
           /\ heap'[ref] \in {h[ref], None}
           /\ PermitHolders(ref)' = PermitHolders(ref) \ {c}
           /\ ref # ref0 => PermitHolders(ref)' = PermitHolders(ref)
  BY <1>0, <1>3, <1>4, ReturnFacts
<1>6. ASSUME NEW ref \in StateRefs PROVE PermitBacked(ref)'
  <2>1. CASE ref = ref0
    <3>1. Cardinality(PermitHolders(ref))' = Cardinality(PermitHolders(ref)) - 1
      BY <1>0, <1>5, <2>1, HolderLeaves
    <3>2. heap[ref].callCount \in Nat /\ heap[ref].total.total \in Nat
          /\ callThreshold(ref) \in Nat
      BY <1>0, <2>1, ThresholdType DEF StateObject, Counter, Setting, Config, callThreshold
    <3>3. PermitBacked(ref) /\ heap[ref] # None
      BY <1>0, <2>1 DEF PermitsBacked
    <3>4. heap'[ref] \in {h[ref], None}
      BY <1>5
    <3>5. heap'[ref] # None => callThreshold(ref)' = callThreshold(ref)
      BY <1>3, <2>1, <3>4 DEF callThreshold
    <3> QED
      BY <1>3, <2>1, <3>1, <3>2, <3>3, <3>4, <3>5, HoldersFinite
         DEF PermitBacked, IsSemiOpen, Kind
  <2>2. CASE ref # ref0
    BY <1>3, <1>5, <2>2, PermitKept DEF PermitsBacked
  <2> QED
    BY <2>1, <2>2
<1> QED
  BY <1>5, <1>6 DEF PermitsBacked

LEMMA FallbackPanicsStep ==
  ASSUME IInv, NEW c \in Callers, FallbackPanics(c)
  PROVE  IInv'
<1> USE DEF IInv
<1> DEFINE ref0 == entry[c].state
<1>0. /\ ref0 \in StateRefs /\ heap[ref0] \in StateObject /\ heap[ref0] # None
      /\ pc[c] = "refused" /\ FallbackMayPanic
      /\ c \in PermitHolders(ref0)
  BY NilIsNoObject DEF TypeOK, Live, FallbackPanics, Entry, PermitHolders
<1>1. /\ TypeOK' /\ Live' /\ Generations'
      /\ \A ref \in StateRefs :
           /\ heap'[ref] \in {heap[ref], None}
           /\ PermitHolders(ref)' = PermitHolders(ref) \ {c}
           /\ ref # ref0 => PermitHolders(ref)' = PermitHolders(ref)
  <2>1. heap \in [StateRefs -> StateObject \cup {None}]
    BY DEF TypeOK
  <2> QED
    BY <1>0, <2>1, ReturnFacts DEF FallbackPanics
<1>2. ASSUME NEW ref \in StateRefs PROVE PermitBacked(ref)'
  <2>1. CASE ref = ref0
    <3>1. Cardinality(PermitHolders(ref))' = Cardinality(PermitHolders(ref)) - 1
      BY <1>0, <1>1, <2>1, HolderLeaves
    <3>2. heap[ref].callCount \in Nat /\ heap[ref].total.total \in Nat
      BY <1>0, <2>1 DEF StateObject, Counter
    <3>3. PermitBacked(ref) /\ heap[ref] # None
      BY <1>0, <2>1 DEF PermitsBacked
    <3>4. heap'[ref] \in {heap[ref], None}
      BY <1>1
    <3> QED
      BY <1>0, <2>1, <3>1, <3>2, <3>3, <3>4, HoldersFinite
         DEF PermitBacked, IsSemiOpen, Kind, callThreshold
  <2>2. CASE ref # ref0
    BY <1>1, <2>2, PermitKept DEF PermitsBacked
  <2> QED
    BY <2>1, <2>2
<1> QED
  BY <1>1, <1>2 DEF PermitsBacked

LEMMA releaseStep ==
  ASSUME IInv, NEW c \in Callers, release(c)
  PROVE  IInv'
<1> USE DEF IInv
<1> DEFINE lim == entry[c].limiter
           n   == entry[c].factor
<1>0. /\ lim \in LimiterRefs /\ n \in Nat
      /\ limiters[lim] \in Limiter
      /\ Released(limiters[lim], n) \in Limiter
  <2>1. lim \in LimiterRefs /\ n \in Nat /\ limiters[lim] \in Limiter
    BY BreakerAssumption DEF TypeOK, Live, release, Entry
  <2> QED
    BY <2>1 DEF Released, Limiter
<1>1. TypeOK'
  BY <1>0 DEF TypeOK, release, breakerVars, PCs
<1>2. Live'
  BY <1>0, NilIsNoLimiter DEF TypeOK, Live, release, breakerVars, Entry
<1>3. PermitsBacked'
  <2> SUFFICES ASSUME NEW ref \in StateRefs PROVE PermitBacked(ref)'
    BY DEF PermitsBacked
  <2>1. PermitHolders(ref)' = PermitHolders(ref)
    BY DEF PermitHolders, TypeOK, release
  <2> QED
    BY <2>1, PermitKept DEF PermitsBacked, release
<1>4. Generations'
  BY DEF TypeOK, Live, Generations, GenerationsAgree, release, breakerVars, Entry
<1> QED
  BY <1>1, <1>2, <1>3, <1>4

LEMMA ReportStep ==
  ASSUME IInv, NEW c \in Callers, Report(c)
  PROVE  IInv'
<1> USE DEF IInv
<1> DEFINE ref0 == entry[c].state
<1>0. /\ ref0 \in StateRefs /\ heap[ref0] \in StateObject /\ heap[ref0] # None
      /\ pc[c] = "released"
      /\ c \in PermitHolders(ref0)
  BY NilIsNoObject DEF TypeOK, Live, Report, Entry, PermitHolders
<1>1. PICK outcome \in OutcomesOf(entry[c].setting) :
        \E k \in WindowsAfter(heap[ref0], outcome) :
          LET updated == [heap EXCEPT ![ref0].total = k]
              to      == VerdictOn(heap[ref0], k)
          IN  \/ /\ to # None
                 /\ heap' = updated
                 /\ verdict' = [verdict EXCEPT ![c] = to]
                 /\ pc' = [pc EXCEPT ![c] = "deciding"]
                 /\ UNCHANGED <<entry, limiters>>
              \/ /\ Return(c)
                 /\ heap' = Swept(updated, state, entry')
                 /\ limiters' = SweptLimiters(limiters, limiter, entry')
  BY DEF Report
<1>2. outcome \in Outcomes
  BY <1>1 DEF OutcomesOf, Outcomes
<1>3. PICK k \in WindowsAfter(heap[ref0], outcome) :
        LET updated == [heap EXCEPT ![ref0].total = k]
            to      == VerdictOn(heap[ref0], k)
        IN  \/ /\ to # None
               /\ heap' = updated
               /\ verdict' = [verdict EXCEPT ![c] = to]
               /\ pc' = [pc EXCEPT ![c] = "deciding"]
               /\ UNCHANGED <<entry, limiters>>
            \/ /\ Return(c)
               /\ heap' = Swept(updated, state, entry')
               /\ limiters' = SweptLimiters(limiters, limiter, entry')
  BY <1>1
<1> DEFINE h == [heap EXCEPT ![ref0].total = k]
<1>4. k \in Counter
  BY <1>0, <1>2, <1>3, WindowType
<1>5. /\ h \in [StateRefs -> StateObject \cup {None}]
      /\ \A r \in StateRefs : r # ref0 => h[r] = heap[r]
      /\ h[ref0] \in StateObject
      /\ h[ref0].kind = heap[ref0].kind
      /\ h[ref0].home = heap[ref0].home
      /\ h[ref0].setting = heap[ref0].setting
      /\ h[ref0].callCount = heap[ref0].callCount
      /\ h[ref0].total = k
  <2>1. [heap[ref0] EXCEPT !.total = k] \in StateObject
    BY <1>0, <1>4 DEF StateObject
  <2> QED
    BY <1>0, <2>1 DEF TypeOK, StateObject
<1>6. heap[ref0].kind = "SemiOpen" => h[ref0].total.total = heap[ref0].total.total + 1
  BY <1>0, <1>2, <1>3, <1>5, SemiOpenWindowGrows
<1> HIDE DEF h
<1>7. /\ TypeOK' /\ Live' /\ Generations'
      /\ \A ref \in StateRefs :
           /\ heap'[ref] \in {h[ref], None}
           /\ PermitHolders(ref)' = PermitHolders(ref) \ {c}
           /\ ref # ref0 => PermitHolders(ref)' = PermitHolders(ref)
  <2>0. UNCHANGED breakerVars
    BY DEF Report
  <2>1. CASE /\ VerdictOn(heap[ref0], k) # None
             /\ heap' = h
             /\ verdict' = [verdict EXCEPT ![c] = VerdictOn(heap[ref0], k)]
             /\ pc' = [pc EXCEPT ![c] = "deciding"]
             /\ UNCHANGED <<entry, limiters>>
    <3>1. VerdictOn(heap[ref0], k) \in {"Open", "Closed"}
      BY <2>1, VerdictType
    <3>2. \A r \in StateRefs : heap[r] # None =>
            /\ heap'[r] # None
            /\ heap'[r].home = heap[r].home
            /\ heap'[r].setting = heap[r].setting
      BY <1>0, <1>5, <2>1, NilIsNoObject
    <3>3. TypeOK'
      BY <1>5, <2>0, <2>1, <3>1 DEF TypeOK, breakerVars, PCs
    <3>4. Live'
      BY <1>0, <2>0, <2>1, <3>1, <3>2 DEF TypeOK, Live, breakerVars, Entry
    <3>5. Generations'
      BY <1>0, <2>0, <2>1, <3>2 DEF TypeOK, Live, Generations, GenerationsAgree, breakerVars, Entry
    <3>6. ASSUME NEW ref \in StateRefs
          PROVE  /\ PermitHolders(ref)' = PermitHolders(ref) \ {c}
                 /\ ref # ref0 => PermitHolders(ref)' = PermitHolders(ref)
      BY <1>0, <2>1 DEF PermitHolders, TypeOK
    <3> QED
      BY <2>1, <3>3, <3>4, <3>5, <3>6
  <2>2. CASE /\ Return(c)
             /\ heap' = Swept(h, state, entry')
             /\ limiters' = SweptLimiters(limiters, limiter, entry')
    BY <1>0, <1>5, <2>0, <2>2, ReturnFacts
  <2> QED
    BY <1>3, <2>1, <2>2 DEF h
<1>8. ASSUME NEW ref \in StateRefs PROVE PermitBacked(ref)'
  <2>1. CASE ref = ref0
    <3>1. Cardinality(PermitHolders(ref))' = Cardinality(PermitHolders(ref)) - 1
      BY <1>0, <1>7, <2>1, HolderLeaves
    <3>2. heap[ref].callCount \in Nat /\ heap[ref].total.total \in Nat
          /\ callThreshold(ref) \in Nat
      BY <1>0, <2>1, ThresholdType DEF StateObject, Counter, Setting, Config, callThreshold
    <3>3. PermitBacked(ref) /\ heap[ref] # None
      BY <1>0, <2>1 DEF PermitsBacked
    <3>4. heap'[ref] \in {h[ref], None}
      BY <1>7
    <3>5. heap'[ref] # None => callThreshold(ref)' = callThreshold(ref)
      BY <1>5, <1>6, <2>1, <3>4 DEF callThreshold
    <3> QED
      BY <1>5, <1>6, <2>1, <3>1, <3>2, <3>3, <3>4, <3>5, HoldersFinite
         DEF PermitBacked, IsSemiOpen, Kind
  <2>2. CASE ref # ref0
    BY <1>5, <1>7, <2>2, PermitKept DEF PermitsBacked
  <2> QED
    BY <2>1, <2>2
<1> QED
  BY <1>7, <1>8 DEF PermitsBacked

LEMMA PromoteStep ==
  ASSUME IInv, NEW c \in Callers, Promote(c)
  PROVE  IInv'
<1> USE DEF IInv
<1> DEFINE ref0 == entry[c].state
           ref1 == CHOOSE r \in FreeRefs : TRUE
<1>0. ref0 \in StateRefs /\ entry[c] \in Entry /\ pc[c] = "promote"
  BY DEF TypeOK, Live, Promote, Entry
<1>1. CASE MayTransition(ref0, "SemiOpen")
  <2>1. /\ FreeRefs # {}
        /\ entry' = [entry EXCEPT ![c].state = ref1]
        /\ Install("SemiOpen", ref1, entry')
    BY <1>1 DEF Promote
  <2>2. /\ ref1 \in StateRefs /\ heap[ref1] = None /\ ref1 # state
        /\ \A d \in Callers : entry[d].state # ref1
    BY <2>1, FreeRefIsFresh
  <2> HIDE DEF ref1
  <2>3. /\ heap' \in [StateRefs -> StateObject \cup {None}]
        /\ heap'[ref1] = newStateInstance("SemiOpen", setting, limiter)
        /\ heap'[ref1] \in StateObject /\ heap'[ref1] # None
        /\ \A r \in StateRefs : r # ref1 =>
             /\ heap'[r] \in {heap[r], None}
             /\ \A d \in Callers : entry'[d].state = r => heap'[r] = heap[r]
        /\ state' = ref1
        /\ gauge' \in Kinds \cup {"unset"}
        /\ heard' \in Kinds \cup {"nobody", "nothing"}
        /\ UNCHANGED <<setting, limiter, requested>>
    <3>1. "SemiOpen" \in Kinds
      BY DEF Kinds
    <3>2. heap' = Swept([heap EXCEPT ![ref1] = newStateInstance("SemiOpen", setting, limiter)],
                        ref1, entry')
      BY <2>1 DEF Install
    <3>3. /\ state' = ref1
          /\ gauge' \in Kinds \cup {"unset"}
          /\ heard' \in Kinds \cup {"nobody", "nothing"}
          /\ UNCHANGED <<setting, limiter, requested>>
      BY <2>1, <3>1 DEF Install, TypeOK
    <3> QED
      BY <2>2, <3>1, <3>2, <3>3, InstallFacts
  <2>4. /\ pc' = [pc EXCEPT ![c] = "entered"]
        /\ UNCHANGED <<limiters, verdict>>
    BY DEF Promote
  <2>5. /\ entry'[c] = [entry[c] EXCEPT !.state = ref1]
        /\ entry'[c] \in Entry
        /\ \A d \in Callers : d # c => entry'[d] = entry[d] /\ pc'[d] = pc[d]
        /\ entry' \in [Callers -> Entry \cup {NoEntry}]
    <3>1. [entry[c] EXCEPT !.state = ref1] \in Entry
      BY <1>0, <2>2 DEF Entry
    <3> QED
      BY <2>1, <2>4, <3>1 DEF TypeOK
  <2>6. /\ heap'[ref1].home = limiter /\ heap'[ref1].setting = setting
        /\ entry'[c].state = ref1
        /\ entry'[c].limiter = limiter /\ entry'[c].setting = setting
    <3>1. entry[c].limiter = limiter /\ entry[c].setting = setting
      BY <1>0, <1>1 DEF MayTransition, Generations, GenerationsAgree
    <3> QED
      BY <1>0, <2>2, <2>3, <2>5, <3>1 DEF newStateInstance, Entry
  <2>7. \A d \in Callers : d # c /\ pc[d] # "idle" =>
          heap'[entry[d].state] = heap[entry[d].state]
    BY <2>2, <2>3, <2>5 DEF Live, Entry
  <2>8. TypeOK'
    BY <2>2, <2>3, <2>4, <2>5 DEF TypeOK, PCs
  <2>9. Live'
    <3>1. /\ pc'[c] = "entered"
          /\ heap'[entry'[c].state] # None
          /\ limiters'[entry'[c].limiter] # None
      BY <1>0, <2>3, <2>4, <2>6 DEF TypeOK, Live
    <3>2. ASSUME NEW d \in Callers, d # c
          PROVE  /\ pc'[d] = "idle" => entry'[d] = NoEntry
                 /\ pc'[d] # "idle" => /\ entry'[d] \in Entry
                                       /\ heap'[entry'[d].state] # None
                                       /\ limiters'[entry'[d].limiter] # None
                 /\ pc'[d] = "deciding" => verdict'[d] \in {"Open", "Closed"}
      BY <2>4, <2>5, <2>7, <3>2 DEF Live
    <3> QED
      BY <2>3, <2>4, <2>5, <3>1, <3>2 DEF Live
  <2>10. PermitsBacked'
    <3> SUFFICES ASSUME NEW ref \in StateRefs PROVE PermitBacked(ref)'
      BY DEF PermitsBacked
    <3>1. CASE ref = ref1
      <4>1. PermitHolders(ref)' = {}
        BY <2>2, <2>4, <2>5, <3>1 DEF PermitHolders, TypeOK
      <4> QED
        BY <2>3, <3>1, <4>1, NewPermits DEF TypeOK, Generations, Kinds
    <3>2. CASE ref # ref1
      <4>1. PermitHolders(ref)' = PermitHolders(ref)
        BY <1>0, <2>4, <2>5, <2>6, <3>2 DEF PermitHolders, TypeOK
      <4> QED
        BY <2>3, <3>2, <4>1, PermitKept DEF PermitsBacked
    <3> QED
      BY <3>1, <3>2
  <2>11. Generations'
    <3>1. ASSUME NEW d \in Callers, pc'[d] # "idle"
          PROVE  /\ heap'[entry'[d].state].home = entry'[d].limiter
                 /\ heap'[entry'[d].state].setting = entry'[d].setting
      <4>1. CASE d = c
        BY <2>6, <4>1
      <4>2. CASE d # c
        BY <2>5, <2>7, <3>1, <4>2 DEF Generations, GenerationsAgree
      <4> QED
        BY <4>1, <4>2
    <3> QED
      BY <2>3, <2>6, <3>1 DEF Generations, GenerationsAgree
  <2> QED
    BY <2>8, <2>9, <2>10, <2>11
<1>2. CASE ~MayTransition(ref0, "SemiOpen")
  <2>1. /\ UNCHANGED <<breakerVars, heap, entry, limiters, verdict>>
        /\ pc' = [pc EXCEPT ![c] = "entered"]
    BY <1>2 DEF Promote
  <2>2. TypeOK' /\ Live' /\ Generations'
    BY <1>0, <2>1 DEF TypeOK, Live, Generations, GenerationsAgree, breakerVars, PCs
  <2>3. PermitsBacked'
    <3> SUFFICES ASSUME NEW ref \in StateRefs PROVE PermitBacked(ref)'
      BY DEF PermitsBacked
    <3>1. PermitHolders(ref)' = PermitHolders(ref)
      BY <1>0, <2>1 DEF PermitHolders, TypeOK
    <3> QED
      BY <2>1, <3>1, PermitKept DEF PermitsBacked
  <2> QED
    BY <2>2, <2>3
<1> QED
  BY <1>1, <1>2

LEMMA DecideStep ==
  ASSUME IInv, NEW c \in Callers, Decide(c)
  PROVE  IInv'
<1> USE DEF IInv
<1> DEFINE ref0 == entry[c].state
           ref1 == CHOOSE r \in FreeRefs : TRUE
           to   == verdict[c]
<1>0. /\ ref0 \in StateRefs /\ heap[ref0] \in StateObject
      /\ pc[c] = "deciding"
      /\ \A ref : c \notin PermitHolders(ref)
      /\ to \in Kinds
  BY DEF TypeOK, Live, Decide, Entry, PermitHolders, Kinds
<1>1. CASE MayTransition(ref0, to)
  <2>1. /\ FreeRefs # {}
        /\ Install(to, ref1, entry')
        /\ Return(c)
        /\ limiters' = SweptLimiters(limiters, limiter, entry')
    BY <1>1 DEF Decide
  <2>2. /\ ref1 \in StateRefs /\ heap[ref1] = None /\ ref1 # state
        /\ \A d \in Callers : entry[d].state # ref1
    BY <2>1, FreeRefIsFresh
  <2> HIDE DEF ref1, to
  <2>3. heap' = Swept([heap EXCEPT ![ref1] = newStateInstance(to, setting, limiter)],
                      ref1, entry')
    BY <2>1 DEF Install
  <2>4. /\ state' = ref1
        /\ gauge' \in Kinds \cup {"unset"}
        /\ heard' \in Kinds \cup {"nobody", "nothing"}
        /\ UNCHANGED <<setting, limiter, requested>>
    BY <1>0, <2>1 DEF Install, TypeOK
  <2>5. /\ heap' \in [StateRefs -> StateObject \cup {None}]
        /\ heap'[ref1] = newStateInstance(to, setting, limiter)
        /\ heap'[ref1] \in StateObject /\ heap'[ref1] # None
        /\ \A r \in StateRefs : r # ref1 =>
             /\ heap'[r] \in {heap[r], None}
             /\ \A d \in Callers : entry'[d].state = r => heap'[r] = heap[r]
    BY <1>0, <2>2, <2>3, InstallFacts
  <2>6. /\ pc'[c] = "idle" /\ entry'[c] = NoEntry
        /\ \A d \in Callers : d # c => /\ pc'[d] = pc[d]
                                      /\ entry'[d] = entry[d]
                                      /\ verdict'[d] = verdict[d]
        /\ pc' \in [Callers -> PCs]
        /\ entry' \in [Callers -> Entry \cup {NoEntry}]
        /\ verdict' \in [Callers -> {"Open", "Closed", None}]
    BY <2>1 DEF TypeOK, Return, PCs
  <2>7. /\ limiters' \in [LimiterRefs -> Limiter \cup {None}]
        /\ limiters'[limiter] = limiters[limiter]
        /\ \A r \in LimiterRefs :
             \A d \in Callers : entry'[d].limiter = r => limiters'[r] = limiters[r]
    <3>1. limiters' \in [LimiterRefs -> Limiter \cup {None}]
      BY <2>1, SweptLimitersType DEF TypeOK
    <3> QED
      BY <2>1, <3>1 DEF TypeOK, SweptLimiters
  <2>8. \A d \in Callers : pc'[d] # "idle" =>
          /\ d # c /\ pc[d] # "idle"
          /\ entry'[d] = entry[d] /\ entry[d] \in Entry
          /\ heap'[entry[d].state] = heap[entry[d].state]
          /\ limiters'[entry[d].limiter] = limiters[entry[d].limiter]
    BY <2>2, <2>5, <2>6, <2>7 DEF Live, Entry
  <2>9. TypeOK'
    BY <2>2, <2>4, <2>5, <2>6, <2>7 DEF TypeOK
  <2>10. Live'
    <3>1. ASSUME NEW d \in Callers
          PROVE  /\ pc'[d] = "idle" => entry'[d] = NoEntry
                 /\ pc'[d] # "idle" => /\ entry'[d] \in Entry
                                       /\ heap'[entry'[d].state] # None
                                       /\ limiters'[entry'[d].limiter] # None
                 /\ pc'[d] = "deciding" => verdict'[d] \in {"Open", "Closed"}
      BY <2>6, <2>8 DEF Live
    <3> QED
      BY <2>4, <2>5, <2>7, <3>1 DEF Live
  <2>11. PermitsBacked'
    <3> SUFFICES ASSUME NEW ref \in StateRefs PROVE PermitBacked(ref)'
      BY DEF PermitsBacked
    <3>1. PermitHolders(ref)' = PermitHolders(ref)
      BY <1>0, <2>6 DEF PermitHolders
    <3>2. CASE ref = ref1
      <4>1. PermitHolders(ref)' = {}
        BY <2>2, <3>1, <3>2 DEF PermitHolders
      <4> QED
        BY <1>0, <2>5, <3>2, <4>1, NewPermits DEF TypeOK, Generations
    <3>3. CASE ref # ref1
      BY <2>5, <3>1, <3>3, PermitKept DEF PermitsBacked
    <3> QED
      BY <3>2, <3>3
  <2>12. Generations'
    <3>1. heap'[state'].home = limiter' /\ heap'[state'].setting = setting'
      BY <2>4, <2>5 DEF newStateInstance
    <3> QED
      BY <2>4, <2>8, <3>1 DEF Generations, GenerationsAgree
  <2> QED
    BY <2>9, <2>10, <2>11, <2>12
<1>2. CASE ~MayTransition(ref0, to)
  <2>1. /\ Return(c)
        /\ heap' = Swept(heap, state, entry')
        /\ limiters' = SweptLimiters(limiters, limiter, entry')
        /\ UNCHANGED breakerVars
    BY <1>2 DEF Decide
  <2>2. /\ TypeOK' /\ Live' /\ Generations'
        /\ \A ref \in StateRefs :
             /\ heap'[ref] \in {heap[ref], None}
             /\ PermitHolders(ref)' = PermitHolders(ref) \ {c}
    BY <1>0, <2>1, ReturnFacts DEF TypeOK
  <2>3. ASSUME NEW ref \in StateRefs PROVE PermitBacked(ref)'
    <3>1. PermitHolders(ref)' = PermitHolders(ref)
      BY <1>0, <2>2
    <3> QED
      BY <2>2, <3>1, PermitKept DEF PermitsBacked
  <2> QED
    BY <2>2, <2>3 DEF PermitsBacked
<1> QED
  BY <1>1, <1>2

LEMMA UpdateConfigStep ==
  ASSUME IInv, NEW config \in Configs, UpdateConfig(config)
  PROVE  IInv'
<1> USE DEF IInv
<1> DEFINE new  == fillDefaultsAndGetSetting(config)
           ref1 == CHOOSE r \in FreeRefs : TRUE
           lim1 == CHOOSE r \in FreeLimiterRefs : TRUE
<1>0. /\ new \in Setting
      /\ new.Config.NumberOfCallsInSemiOpenState >= 1
      /\ new.Config.MinimumNumberOfCalls >= 1
      /\ requested' = config
      /\ UNCHANGED <<pc, entry, verdict>>
  BY BreakerAssumption, SettingType DEF UpdateConfig
<1>a. \A ref : PermitHolders(ref)' = PermitHolders(ref)
  BY <1>0 DEF PermitHolders
<1>1. CASE SameSetting(new)
  <2>1. UNCHANGED <<state, setting, limiter, heap, limiters, heard, gauge>>
    BY <1>1 DEF UpdateConfig
  <2>2. TypeOK' /\ Live' /\ Generations'
    BY <1>0, <2>1 DEF TypeOK, Live, Generations, GenerationsAgree
  <2>3. ASSUME NEW ref \in StateRefs PROVE PermitBacked(ref)'
    BY <1>a, <2>1, PermitKept DEF PermitsBacked
  <2> QED
    BY <2>2, <2>3 DEF PermitsBacked
<1>2. CASE ~SameSetting(new)
  <2>1. /\ FreeRefs # {} /\ FreeLimiterRefs # {}
        /\ setting' = new
        /\ limiter' = lim1
        /\ limiters' = SweptLimiters(
             [limiters EXCEPT ![lim1] = newConcurrencyLimiter(new)], lim1, entry)
        /\ state' = ref1
        /\ heap' = Swept(
             [heap EXCEPT ![ref1] = newStateInstance("Closed", new, lim1)], ref1, entry)
        /\ gauge' = IF new.Config.MetricsDisabled THEN gauge ELSE "Closed"
        /\ UNCHANGED heard
    BY <1>2 DEF UpdateConfig
  <2>2. /\ ref1 \in StateRefs /\ heap[ref1] = None /\ ref1 # state
        /\ \A d \in Callers : entry[d].state # ref1
    BY <2>1, FreeRefIsFresh
  <2>3. lim1 \in LimiterRefs /\ limiters[lim1] = None
    <3>1. lim1 \in FreeLimiterRefs
      BY <2>1
    <3> QED
      BY <3>1 DEF FreeLimiterRefs
  <2> HIDE DEF new, ref1, lim1
  <2>4. /\ newStateInstance("Closed", new, lim1) \in StateObject
        /\ newStateInstance("Closed", new, lim1) # None
        /\ newConcurrencyLimiter(new) \in Limiter
        /\ newConcurrencyLimiter(new) # None
    BY <1>0, <2>3, NewObject, NewLimiter DEF Kinds
  <2>5. /\ heap' \in [StateRefs -> StateObject \cup {None}]
        /\ heap'[ref1] = newStateInstance("Closed", new, lim1)
        /\ \A r \in StateRefs : r # ref1 =>
             /\ heap'[r] \in {heap[r], None}
             /\ \A d \in Callers : entry[d].state = r => heap'[r] = heap[r]
    BY <2>1, <2>2, <2>4 DEF TypeOK, Swept
  <2>6. /\ limiters' \in [LimiterRefs -> Limiter \cup {None}]
        /\ limiters'[lim1] = newConcurrencyLimiter(new)
        /\ \A r \in LimiterRefs : r # lim1 =>
             \A d \in Callers : entry[d].limiter = r => limiters'[r] = limiters[r]
    BY <2>1, <2>3, <2>4 DEF TypeOK, SweptLimiters
  <2>7. \A d \in Callers : pc[d] # "idle" =>
          /\ entry[d] \in Entry
          /\ heap'[entry[d].state] = heap[entry[d].state]
          /\ limiters'[entry[d].limiter] = limiters[entry[d].limiter]
    BY <2>2, <2>3, <2>5, <2>6 DEF Live, Entry
  <2>8. TypeOK'
    BY <1>0, <2>1, <2>2, <2>3, <2>5, <2>6 DEF TypeOK, Kinds
  <2>9. Live'
    BY <1>0, <2>1, <2>4, <2>5, <2>6, <2>7 DEF Live
  <2>10. ASSUME NEW ref \in StateRefs PROVE PermitBacked(ref)'
    <3>1. CASE ref = ref1
      BY <2>5, <3>1 DEF PermitBacked, IsSemiOpen, Kind, newStateInstance
    <3>2. CASE ref # ref1
      BY <1>a, <2>5, <3>2, PermitKept DEF PermitsBacked
    <3> QED
      BY <3>1, <3>2
  <2>11. Generations'
    <3>1. heap'[state'].home = limiter' /\ heap'[state'].setting = setting'
      BY <2>1, <2>5 DEF newStateInstance
    <3> QED
      BY <1>0, <2>1, <2>7, <3>1 DEF Generations, GenerationsAgree
  <2> QED
    BY <2>8, <2>9, <2>10, <2>11 DEF PermitsBacked
<1> QED
  BY <1>1, <1>2

LEMMA RegisterEventListenerStep ==
  ASSUME IInv, RegisterEventListener
  PROVE  IInv'
<1> USE DEF IInv
<1>1. TypeOK'
  BY DEF TypeOK, RegisterEventListener
<1>2. Live'
  BY DEF Live, RegisterEventListener
<1>3. PermitsBacked'
  BY DEF PermitsBacked, PermitBacked, PermitHolders, IsSemiOpen, Kind, callThreshold,
         RegisterEventListener
<1>4. Generations'
  BY DEF Generations, GenerationsAgree, RegisterEventListener
<1> QED
  BY <1>1, <1>2, <1>3, <1>4

-----------------------------------------------------------------------------
(* The invariant holds.                                                    *)

LEMMA InitInvariant == Init => IInv
<1> SUFFICES ASSUME Init PROVE IInv
  OBVIOUS
<1>0. PICK config \in Configs :
        LET s == fillDefaultsAndGetSetting(config)
        IN  /\ IsValidConfig(config)
            /\ requested = config
            /\ setting = s
            /\ state \in StateRefs
            /\ limiter \in LimiterRefs
            /\ heap = [r \in StateRefs |->
                         IF r = state THEN newStateInstance("Closed", s, limiter) ELSE None]
            /\ limiters = [r \in LimiterRefs |->
                         IF r = limiter THEN newConcurrencyLimiter(s) ELSE None]
            /\ pc = [c \in Callers |-> "idle"]
            /\ entry = [c \in Callers |-> NoEntry]
            /\ verdict = [c \in Callers |-> None]
            /\ heard = "nobody"
            /\ gauge = IF s.Config.MetricsDisabled THEN "unset" ELSE "Closed"
  BY DEF Init
<1>1. /\ setting \in Setting
      /\ setting.Config.NumberOfCallsInSemiOpenState >= 1
      /\ setting.Config.MinimumNumberOfCalls >= 1
  BY <1>0, BreakerAssumption, SettingType
<1>2. /\ newStateInstance("Closed", setting, limiter) \in StateObject
      /\ newStateInstance("Closed", setting, limiter) # None
      /\ newConcurrencyLimiter(setting) \in Limiter
      /\ newConcurrencyLimiter(setting) # None
  BY <1>0, <1>1, NewObject, NewLimiter DEF Kinds
<1>3. TypeOK
  BY <1>0, <1>1, <1>2 DEF TypeOK, Kinds, PCs
<1>4. Live
  BY <1>0, <1>2 DEF Live
<1>5. PermitsBacked
  BY <1>0 DEF PermitsBacked, PermitBacked, IsSemiOpen, Kind, newStateInstance
<1>6. Generations
  BY <1>0, <1>1 DEF Generations, GenerationsAgree, newStateInstance
<1> QED
  BY <1>3, <1>4, <1>5, <1>6 DEF IInv

LEMMA StepInvariant == IInv /\ [Next]_vars => IInv'
<1> SUFFICES ASSUME IInv, [Next]_vars PROVE IInv'
  OBVIOUS
<1>1. ASSUME NEW c \in Callers, CallStep(c) PROVE IInv'
  BY <1>1, EnterStep, TakeTickStep, PromoteStep, acquirePermissionStep, acquireStep,
     releasePermissionStep, FallbackPanicsStep, releaseStep, ReportStep, DecideStep
     DEF CallStep
<1>2. ASSUME NEW ref \in StateRefs, TimerFires(ref) PROVE IInv'
  BY <1>2, TimerFiresStep
<1>3. ASSUME NEW to \in AdminTargets, AdminTransition(to) PROVE IInv'
  BY <1>3, AdminTransitionStep
<1>4. ASSUME NEW config \in Configs, UpdateConfig(config) PROVE IInv'
  BY <1>4, UpdateConfigStep
<1>5. CASE RegisterEventListener
  BY <1>5, RegisterEventListenerStep
<1>6. CASE UNCHANGED vars
  BY <1>6 DEF vars, IInv, TypeOK, Live, PermitsBacked, PermitBacked, IsSemiOpen, Kind,
              PermitHolders, callThreshold, Generations, GenerationsAgree
<1> QED
  BY <1>1, <1>2, <1>3, <1>4, <1>5, <1>6 DEF Next

THEOREM Invariance == Spec => []IInv
BY InitInvariant, StepInvariant, PTL DEF Spec
=============================================================================
