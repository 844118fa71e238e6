------------------------------ MODULE Registry ------------------------------
(***************************************************************************)
(* The breakers by name: Get, GetExisting, the by-name operations,         *)
(* UpdateConfigs and resetBreakers of circuitbreaker.go, run by concurrent *)
(* clients.                                                                *)
(*                                                                         *)
(* breakersSyncMap is a sync.Map: a Load, LoadOrStore or Delete is one     *)
(* step, and between two of them anything may happen.  breakersMutex keeps *)
(* updates of configurations and resets apart; Get never takes it.  What a *)
(* breaker does by itself is in Breaker: here it is its setting and its    *)
(* state, each changed under its own updateLock in one step.               *)
(***************************************************************************)
EXTENDS Settings, FiniteSets

CONSTANTS
  Clients,      (* goroutines that call the package's functions              *)
  Names,
  BreakerRefs,  (* addresses of breakers, reused once unreachable            *)
  Nil,
  Configs,      (* the configurations clients pass                           *)
  AdminTargets  (* the states clients force                                  *)

ASSUME RegistryAssumption ==
  /\ Nil \notin BreakerRefs \cup Clients
  /\ Configs \subseteq Config
  /\ AdminTargets \subseteq {"ForcedOpen", "ForcedClosed", "Closed"}
  /\ IsFiniteSet(BreakerRefs) /\ IsFiniteSet(Names) /\ IsFiniteSet(Clients)
  /\ Cardinality(BreakerRefs) >= Cardinality(Names) + Cardinality(Clients)

VARIABLES
  breakersSyncMap,  (* the breaker of each name, or Nil                      *)
  breakersMutex,    (* the client that holds it across steps, or Nil         *)
  breakers,         (* breakers by address; Nil where none lives             *)
  gauges,           (* what the gauges of each name show                     *)
  pc,               (* where each client is                                  *)
  job,              (* the locals of each client's call                      *)
  handed,           (* history: the breakers clients were given for a name   *)
  doubled           (* history: names that have had more than one breaker    *)

vars == <<breakersSyncMap, breakersMutex, breakers, gauges, pc, job, handed, doubled>>

NoJob == [name |-> Nil, config |-> Nil, breaker |-> Nil, batch |-> <<>>, todo |-> {},
          before |-> <<>>]

Goto(c, place) == pc' = [pc EXCEPT ![c] = place]

Return(c) == Goto(c, "idle") /\ job' = [job EXCEPT ![c] = NoJob]

Registered(name) == breakersSyncMap[name] # Nil

Swept(b, map, jobs) ==
  [r \in BreakerRefs |->
     IF \/ \E name \in Names : map[name] = r
        \/ \E c \in Clients : jobs[c].breaker = r
     THEN b[r] ELSE Nil]

FreeRefs == {r \in BreakerRefs : breakers[r] = Nil}

-----------------------------------------------------------------------------
(* One breaker, and its gauges.                                            *)

ShownThresholds ==
  {"ErrorPercentThreshold", "TimeoutPercentThreshold", "TimeoutThreshold",
   "MaxConcurrentCalls", "WaitDurationInOpenState"}

setThresholdsMetrics(b) == [f \in ShownThresholds |-> b.setting.Config[f]]

Blank == [name |-> Nil, setting |-> Nil, state |-> Nil]

SameSetting(b, config) ==
  b.setting # Nil /\ b.setting.Config = fillDefaultsAndGetSetting(config).Config

SettingOnly(b, config) ==
  IF SameSetting(b, config) THEN b
  ELSE [b EXCEPT !.setting = fillDefaultsAndGetSetting(config)]

(* updateSetting, on a breaker that lives or on a blank one.               *)
updateSetting(b, config) ==
  IF SameSetting(b, config) THEN b
  ELSE [b EXCEPT !.setting = fillDefaultsAndGetSetting(config), !.state = "Closed"]

ShownStateOnly(b, config) ==
  LET new == updateSetting(b, config)
  IN  IF SameSetting(b, config) \/ new.setting.Config.MetricsDisabled THEN gauges
      ELSE [gauges EXCEPT ![b.name].state = new.state]

ShownAfterUpdate(b, config) ==
  LET new == updateSetting(b, config)
  IN  IF SameSetting(b, config) \/ new.setting.Config.MetricsDisabled THEN gauges
      ELSE [gauges EXCEPT ![b.name] =
              [state |-> new.state, thresholds |-> setThresholdsMetrics(new)]]

(* ForceOpen, ForceClose and Reset of a breaker.                           *)
StateTransition(b, to) == [b EXCEPT !.state = to]

ShownAfterTransition(b, to) ==
  IF b.setting.Config.MetricsDisabled THEN gauges
  ELSE [gauges EXCEPT ![b.name].state = to]

-----------------------------------------------------------------------------
(* Get.                                                                    *)

(* Load, and the return when there is a breaker.                           *)
GetLoad(c) ==
  /\ pc[c] = "idle"
  /\ \E name \in Names, config \in Configs :
       \/ /\ Registered(name)
          /\ handed' = [handed EXCEPT ![name] = @ \cup {breakersSyncMap[name]}]
          /\ UNCHANGED <<pc, job>>
       \/ /\ ~Registered(name)
          /\ job' = [job EXCEPT ![c] = [NoJob EXCEPT !.name = name, !.config = config]]
          /\ Goto(c, "missing")
          /\ UNCHANGED handed
  /\ UNCHANGED <<breakersSyncMap, breakersMutex, breakers, gauges, doubled>>

(* A new breaker writes the gauges of its name before it is registered.    *)
newCircuitBreaker(c) ==
  LET b   == [Blank EXCEPT !.name = job[c].name]
      ref == CHOOSE r \in FreeRefs : TRUE
  IN  /\ pc[c] = "missing"
      /\ \/ /\ ~IsValidConfig(job[c].config)
            /\ Return(c)
            /\ UNCHANGED <<breakers, gauges>>
         \/ /\ IsValidConfig(job[c].config)
            /\ FreeRefs # {}
            /\ breakers' = [breakers EXCEPT ![ref] = updateSetting(b, job[c].config)]
            /\ gauges' = ShownAfterUpdate(b, job[c].config)
            /\ job' = [job EXCEPT ![c].breaker = ref]
            /\ Goto(c, "built")
      /\ UNCHANGED <<breakersSyncMap, breakersMutex, handed, doubled>>

Store(c) ==
  /\ pc[c] = "built"
  /\ breakersSyncMap' = [breakersSyncMap EXCEPT ![job[c].name] = job[c].breaker]
  /\ handed' = [handed EXCEPT ![job[c].name] = @ \cup {job[c].breaker}]
  /\ Return(c)
  /\ breakers' = Swept(breakers, breakersSyncMap', job')
  /\ UNCHANGED <<breakersMutex, gauges, doubled>>

(* The first to store wins; the others get its breaker and drop their own. *)
LoadOrStore(c) ==
  LET name  == job[c].name
      first == IF Registered(name) THEN breakersSyncMap[name] ELSE job[c].breaker
  IN  /\ pc[c] = "built"
      /\ breakersSyncMap' = [breakersSyncMap EXCEPT ![name] = first]
      /\ handed' = [handed EXCEPT ![name] = @ \cup {first}]
      /\ doubled' = IF Registered(name) THEN doubled \cup {name} ELSE doubled
      /\ Return(c)
      /\ breakers' = Swept(breakers, breakersSyncMap', job')
      /\ UNCHANGED <<breakersMutex, gauges>>

-----------------------------------------------------------------------------
(* ForceOpen, ForceClose, Reset and UpdateConfig by name: the breaker that *)
(* was found is changed, even if it has been deleted since.                *)

Find(c) ==
  /\ pc[c] = "idle"
  /\ \E name \in {m \in Names : Registered(m)} :
       job' = [job EXCEPT ![c] = [NoJob EXCEPT !.breaker = breakersSyncMap[name]]]
  /\ Goto(c, "found")
  /\ UNCHANGED <<breakersSyncMap, breakersMutex, breakers, gauges, handed, doubled>>

ForceState(c) ==
  LET ref == job[c].breaker
  IN  /\ pc[c] = "found"
      /\ Return(c)
      /\ \E to \in AdminTargets :
           /\ breakers' = Swept([breakers EXCEPT ![ref] = StateTransition(@, to)],
                                breakersSyncMap, job')
           /\ gauges' = ShownAfterTransition(breakers[ref], to)
      /\ UNCHANGED <<breakersSyncMap, breakersMutex, handed, doubled>>

Update(c, config) ==
  LET ref == job[c].breaker
  IN  /\ Return(c)
      /\ breakers' = Swept([breakers EXCEPT ![ref] = updateSetting(@, config)],
                           breakersSyncMap, job')
      /\ gauges' = ShownAfterUpdate(breakers[ref], config)
      /\ UNCHANGED <<breakersSyncMap, breakersMutex, handed, doubled>>

UpdateConfigUnlocked(c) ==
  /\ pc[c] = "found"
  /\ \E config \in Configs : IsValidConfig(config) /\ Update(c, config)

(* An invalid configuration is refused and changes nothing.                *)
UpdateConfig(c) ==
  /\ pc[c] = "found" /\ breakersMutex = Nil
  /\ \E config \in Configs : IsValidConfig(config) /\ Update(c, config)

RefuseConfig(c) ==
  /\ pc[c] = "found" /\ breakersMutex = Nil
  /\ \E config \in Configs : ~IsValidConfig(config)
  /\ Return(c)
  /\ breakers' = Swept(breakers, breakersSyncMap, job')
  /\ UNCHANGED <<breakersSyncMap, breakersMutex, gauges, handed, doubled>>

-----------------------------------------------------------------------------
(* What a call of many steps found when it began.                          *)

SettingOf(name) ==
  IF Registered(name) THEN breakers[breakersSyncMap[name]].setting ELSE Nil

SettingsOf(S) == [name \in S |-> SettingOf(name)]

-----------------------------------------------------------------------------
(* UpdateConfigs: both loops under breakersMutex, entries in any order.    *)

Batches == UNION {[S -> Configs] : S \in (SUBSET Names) \ {{}}}

LockForBatch(c) ==
  /\ pc[c] = "idle" /\ breakersMutex = Nil
  /\ \E batch \in Batches :
       job' = [job EXCEPT ![c] =
         [NoJob EXCEPT !.batch = batch, !.todo = DOMAIN batch,
                       !.before = SettingsOf(DOMAIN batch)]]
  /\ breakersMutex' = c
  /\ Goto(c, "checking")
  /\ UNCHANGED <<breakersSyncMap, breakers, gauges, handed, doubled>>

Acceptable(c, name) == Registered(name) /\ IsValidConfig(job[c].batch[name])

(* What is left to do; the last entry starts the second loop.              *)
Checked(c, name) ==
  IF job[c].todo = {name}
  THEN /\ job' = [job EXCEPT ![c].todo = DOMAIN job[c].batch]
       /\ Goto(c, "updating")
  ELSE /\ job' = [job EXCEPT ![c].todo = @ \ {name}]
       /\ UNCHANGED pc

CheckAndUpdate(c) ==
  /\ pc[c] = "checking"
  /\ \E name \in job[c].todo :
       LET ref == breakersSyncMap[name]
       IN  \/ /\ ~Acceptable(c, name)
              /\ breakersMutex' = Nil
              /\ Return(c)
              /\ UNCHANGED breakers
           \/ /\ Acceptable(c, name)
              /\ breakers' = [breakers EXCEPT ![ref] = updateSetting(@, job[c].batch[name])]
              /\ Checked(c, name)
              /\ UNCHANGED breakersMutex
  /\ UNCHANGED <<breakersSyncMap, gauges, handed, doubled>>

CheckEntry(c) ==
  /\ pc[c] = "checking"
  /\ \E name \in job[c].todo :
       \/ /\ ~Acceptable(c, name)
          /\ breakersMutex' = Nil
          /\ Return(c)
       \/ /\ Acceptable(c, name)
          /\ Checked(c, name)
          /\ UNCHANGED breakersMutex
  /\ UNCHANGED <<breakersSyncMap, breakers, gauges, handed, doubled>>

(* A breaker that is gone is a nil pointer: updateSetting panics.          *)
UpdateEntry(c) ==
  /\ pc[c] = "updating"
  /\ \E name \in job[c].todo :
       LET ref    == breakersSyncMap[name]
           config == job[c].batch[name]
       IN  /\ IF Registered(name)
              THEN /\ breakers' = [breakers EXCEPT ![ref] = updateSetting(@, config)]
                   /\ gauges' = ShownAfterUpdate(breakers[ref], config)
              ELSE UNCHANGED <<breakers, gauges>>
           /\ job' = [job EXCEPT ![c].todo = @ \ {name}]
           /\ Goto(c, IF Registered(name) THEN "updating" ELSE "panicked")
  /\ UNCHANGED <<breakersSyncMap, breakersMutex, handed, doubled>>

(* The deferred unlock.                                                    *)
BatchDone(c) ==
  /\ pc[c] \in {"updating", "panicked"}
  /\ pc[c] = "updating" => job[c].todo = {}
  /\ breakersMutex' = Nil
  /\ Return(c)
  /\ UNCHANGED <<breakersSyncMap, breakers, gauges, handed, doubled>>

-----------------------------------------------------------------------------
(* resetBreakers: Range under breakersMutex visits the names in any order; *)
(* each breaker is reset, then its name deleted.  Range visits no name     *)
(* twice and misses none that was there when it began; a name stored while *)
(* it runs it may visit or miss.                                           *)

ResetUnlocked(c) ==
  /\ pc[c] = "idle"
  /\ job' = [job EXCEPT ![c] = [NoJob EXCEPT !.todo = Names, !.before = SettingsOf(Names)]]
  /\ Goto(c, "resetting")
  /\ UNCHANGED <<breakersSyncMap, breakersMutex, breakers, gauges, handed, doubled>>

LockForReset(c) ==
  /\ pc[c] = "idle" /\ breakersMutex = Nil
  /\ job' = [job EXCEPT ![c] = [NoJob EXCEPT !.todo = Names, !.before = SettingsOf(Names)]]
  /\ breakersMutex' = c
  /\ Goto(c, "resetting")
  /\ UNCHANGED <<breakersSyncMap, breakers, gauges, handed, doubled>>

ResetOne(c) ==
  /\ pc[c] = "resetting"
  /\ \E name \in job[c].todo :
       LET ref == breakersSyncMap[name]
       IN  /\ Registered(name)
           /\ job' = [job EXCEPT ![c].todo = @ \ {name}, ![c].name = name]
           /\ breakers' = [breakers EXCEPT ![ref] = StateTransition(@, "Closed")]
           /\ gauges' = ShownAfterTransition(breakers[ref], "Closed")
  /\ Goto(c, "deleting")
  /\ UNCHANGED <<breakersSyncMap, breakersMutex, handed, doubled>>

DeleteOne(c) ==
  LET name == job[c].name
  IN  /\ pc[c] = "deleting"
      /\ breakersSyncMap' = [breakersSyncMap EXCEPT ![name] = Nil]
      /\ breakers' = Swept(breakers, breakersSyncMap', job)
      /\ handed' = [handed EXCEPT ![name] = {}]
      /\ doubled' = doubled \cup {name}
      /\ Goto(c, "resetting")
      /\ UNCHANGED <<breakersMutex, gauges, job>>

ResetDone(c) ==
  /\ pc[c] = "resetting"
  /\ \A name \in job[c].todo : Registered(name) => job[c].before[name] = Nil
  /\ breakersMutex' = Nil
  /\ Return(c)
  /\ UNCHANGED <<breakersSyncMap, breakers, gauges, handed, doubled>>

-----------------------------------------------------------------------------

Init ==
  /\ breakersSyncMap = [name \in Names |-> Nil]
  /\ breakersMutex = Nil
  /\ breakers = [r \in BreakerRefs |-> Nil]
  /\ gauges = [name \in Names |-> [state |-> "unset", thresholds |-> <<>>]]
  /\ pc = [c \in Clients |-> "idle"]
  /\ job = [c \in Clients |-> NoJob]
  /\ handed = [name \in Names |-> {}]
  /\ doubled = {}

Start(c) == GetLoad(c) \/ Find(c) \/ LockForBatch(c) \/ LockForReset(c)

Continue(c) ==
  \/ newCircuitBreaker(c)
  \/ LoadOrStore(c)
  \/ ForceState(c)
  \/ UpdateConfig(c)
  \/ RefuseConfig(c)
  \/ CheckEntry(c)
  \/ UpdateEntry(c)
  \/ BatchDone(c)
  \/ ResetOne(c)
  \/ DeleteOne(c)
  \/ ResetDone(c)

Next == \E c \in Clients : Start(c) \/ Continue(c)

Spec == Init /\ [][Next]_vars

-----------------------------------------------------------------------------
(* Properties.                                                             *)

PCs == {"idle", "missing", "built", "found", "checking", "updating", "panicked",
        "resetting", "deleting"}

Breaker ==
  [name : Names, setting : Setting, state : AdminTargets \cup {"Closed"}]

Gauges ==
  [state : AdminTargets \cup {"unset", "Closed"},
   thresholds : {<<>>} \cup [ShownThresholds -> Int]]

(* nil is neither a breaker nor a setting.                                 *)
ASSUME NilIsNothing == Nil \notin Breaker \cup Setting

TypeOK ==
  /\ breakersSyncMap \in [Names -> BreakerRefs \cup {Nil}]
  /\ breakersMutex \in Clients \cup {Nil}
  /\ breakers \in [BreakerRefs -> Breaker \cup {Nil}]
  /\ gauges \in [Names -> Gauges]
  /\ pc \in [Clients -> PCs]
  /\ handed \in [Names -> SUBSET BreakerRefs]
  /\ doubled \subseteq Names

(***************************************************************************)
(* All who Get a name, at whatever moment, hold the breaker that is        *)
(* registered: "further calls to Get() using the same provided name will   *)
(* return the same instance" (README.md:9).                                *)
(***************************************************************************)
OneBreakerPerName ==
  \A name \in Names :
    handed[name] # {} => handed[name] = {breakersSyncMap[name]}

(***************************************************************************)
(* UpdateConfigs is atomic to whoever else updates configurations: until   *)
(* all entries are checked every breaker of the batch has the setting it   *)
(* had when the batch began, and in the second loop no entry is lost or    *)
(* overwritten before the last is done.                                    *)
(***************************************************************************)
BatchIsAtomic ==
  \A c \in Clients, name \in Names :
    /\ pc[c] = "checking" /\ name \in DOMAIN job[c].batch /\ job[c].before[name] # Nil =>
         SettingOf(name) = job[c].before[name]
    /\ pc[c] = "updating" /\ name \in DOMAIN job[c].batch \ job[c].todo =>
         SettingOf(name).Config =
           fillDefaultsAndGetSetting(job[c].batch[name]).Config

(* What the first loop found is still there in the second.                 *)
BatchNeverPanics == \A c \in Clients : pc[c] # "panicked"

(***************************************************************************)
(* A breaker whose metrics are on shows its state and its thresholds, as   *)
(* long as no other breaker of that name was ever built: a Get that loses  *)
(* the race has its spare breaker write the gauges of the one in use, and  *)
(* so does a client that still holds a deleted one.                        *)
(***************************************************************************)
GaugesShowBreaker ==
  \A name \in Names :
    LET b == breakers[breakersSyncMap[name]]
    IN  /\ Registered(name) /\ name \notin doubled
        /\ \A c \in Clients : pc[c] = "built" => job[c].name # name
        /\ ~b.setting.Config.MetricsDisabled
        => gauges[name] = [state |-> b.state, thresholds |-> setThresholdsMetrics(b)]
=============================================================================
