--------------------------- MODULE RegistryProofs ---------------------------
(***************************************************************************)
(* Theorems about Registry, for every number of clients and names, and all *)
(* configurations.                                                         *)
(***************************************************************************)
EXTENDS Registry, CommonLemmas

-----------------------------------------------------------------------------
(* The inductive invariant.                                                *)

Job ==
  [name    : Names \cup {Nil},
   config  : Configs \cup {Nil},
   breaker : BreakerRefs \cup {Nil},
   batch   : Batches \cup {<<>>},
   todo    : SUBSET Names,
   before  : {<<>>} \cup UNION {[S -> Setting \cup {Nil}] : S \in SUBSET Names}]

(* What a client has in hand suits the place where it is, and the breaker  *)
(* it points at lives.                                                     *)
JobFits(c) ==
  /\ pc[c] = "idle" => job[c] = NoJob
  /\ pc[c] = "missing" => job[c].name \in Names /\ job[c].config \in Configs
  /\ pc[c] = "built" => /\ job[c].name \in Names
                        /\ job[c].breaker \in BreakerRefs
                        /\ breakers[job[c].breaker] # Nil
                        /\ breakers[job[c].breaker].name = job[c].name
  /\ pc[c] = "found" => job[c].breaker \in BreakerRefs /\ breakers[job[c].breaker] # Nil
  /\ pc[c] \notin {"built", "found"} => job[c].breaker = Nil
  /\ pc[c] \in {"checking", "updating"} =>
       job[c].batch \in Batches /\ job[c].todo \subseteq DOMAIN job[c].batch
  /\ pc[c] = "deleting" => job[c].name \in Names

Jobs == job \in [Clients -> Job] /\ \A c \in Clients : JobFits(c)

(* A name leads to a breaker of that name, so no two lead to the same.     *)
Live ==
  \A name \in Names :
    Registered(name) => /\ breakers[breakersSyncMap[name]] # Nil
                        /\ breakers[breakersSyncMap[name]].name = name

(* Nobody else has the breaker that a Get has built and not yet stored.    *)
Fresh ==
  \A c \in Clients :
    pc[c] = "built" =>
      /\ \A name \in Names : breakersSyncMap[name] # job[c].breaker
      /\ \A d \in Clients : d # c => job[d].breaker # job[c].breaker

LockedPlaces == {"checking", "updating", "panicked", "resetting", "deleting"}

MutexHeld == \A c \in Clients : pc[c] \in LockedPlaces <=> breakersMutex = c

Handed ==
  \A name \in Names :
    handed[name] \subseteq IF Registered(name) THEN {breakersSyncMap[name]} ELSE {}

(* An operation by name works on the breaker in use, unless the name has   *)
(* been deleted since.                                                     *)
FoundFits(c) ==
  pc[c] = "found" =>
    LET ref == job[c].breaker
    IN  breakers[ref].name \in doubled \/ breakersSyncMap[breakers[ref].name] = ref

(* What UpdateConfigs has checked stays so: only who has the mutex deletes. *)
BatchFits(c) ==
  /\ pc[c] = "checking" =>
       \A name \in DOMAIN job[c].batch \ job[c].todo : Acceptable(c, name)
  /\ pc[c] = "updating" => \A name \in DOMAIN job[c].batch : Acceptable(c, name)

(* BatchIsAtomic, a client at a time.                                      *)
BatchHolds(c) ==
  \A name \in Names :
    /\ pc[c] = "checking" /\ name \in DOMAIN job[c].batch /\ job[c].before[name] # Nil =>
         SettingOf(name) = job[c].before[name]
    /\ pc[c] = "updating" /\ name \in DOMAIN job[c].batch \ job[c].todo =>
         SettingOf(name).Config =
           fillDefaultsAndGetSetting(job[c].batch[name]).Config

ClientFits(c) ==
  JobFits(c) /\ FoundFits(c) /\ BatchFits(c) /\ BatchHolds(c) /\ pc[c] # "panicked"

Shows(name, ref) ==
  ~breakers[ref].setting.Config.MetricsDisabled =>
    gauges[name] = [state |-> breakers[ref].state, thresholds |-> setThresholdsMetrics(breakers[ref])]

Building(c, name) == pc[c] = "built" /\ job[c].name = name

(* The gauges of a name show the only breaker it ever had, also while that *)
(* one is built and not yet stored.                                        *)
GaugesFollow ==
  \A name \in Names \ doubled :
    /\ Registered(name) /\ (\A c \in Clients : ~Building(c, name)) =>
         Shows(name, breakersSyncMap[name])
    /\ \A c \in Clients :
         /\ ~Registered(name) /\ Building(c, name)
         /\ \A d \in Clients : d # c => ~Building(d, name)
         => Shows(name, job[c].breaker)

IInv ==
  /\ TypeOK
  /\ job \in [Clients -> Job]
  /\ \A c \in Clients : ClientFits(c)
  /\ Live
  /\ Fresh
  /\ MutexHeld
  /\ Handed
  /\ GaugesFollow

-----------------------------------------------------------------------------
(* One breaker.                                                            *)

LEMMA NoJobType == NoJob \in Job
BY DEF NoJob, Job

LEMMA BlankUpdated ==
  ASSUME NEW name \in Names, NEW config \in Configs, IsValidConfig(config)
  PROVE  LET b == updateSetting([Blank EXCEPT !.name = name], config)
         IN  /\ b \in Breaker /\ b.name = name
             /\ b = [name    |-> name,
                     setting |-> fillDefaultsAndGetSetting(config),
                     state   |-> "Closed"]
<1>1. config \in Config
  BY RegistryAssumption
<1>2. fillDefaultsAndGetSetting(config) \in Setting
  BY <1>1, SettingType
<1> QED
  BY <1>2 DEF updateSetting, SameSetting, Blank, Breaker

LEMMA Updated ==
  ASSUME NEW b \in Breaker, NEW config \in Configs, IsValidConfig(config)
  PROVE  /\ updateSetting(b, config) \in Breaker
         /\ updateSetting(b, config).name = b.name
         /\ updateSetting(b, config).setting.Config = fillDefaultsAndGetSetting(config).Config
         /\ SameSetting(b, config) => updateSetting(b, config) = b
<1>1. config \in Config
  BY RegistryAssumption
<1>2. fillDefaultsAndGetSetting(config) \in Setting
  BY <1>1, SettingType
<1> QED
  BY <1>2 DEF updateSetting, SameSetting, Breaker

LEMMA Transitioned ==
  ASSUME NEW b \in Breaker, NEW to \in AdminTargets \cup {"Closed"}
  PROVE  /\ StateTransition(b, to) \in Breaker
         /\ StateTransition(b, to).name = b.name
         /\ StateTransition(b, to).setting = b.setting
         /\ StateTransition(b, to).state = to
BY DEF StateTransition, Breaker

LEMMA ThresholdsType ==
  ASSUME NEW b \in Breaker
  PROVE  setThresholdsMetrics(b) \in [ShownThresholds -> Int]
BY DEF setThresholdsMetrics, Breaker, Setting, Config, ShownThresholds

(* What the gauges of one name say after an update: what the breaker is.   *)
LEMMA ShownUpdated ==
  ASSUME gauges \in [Names -> Gauges], NEW config \in Configs, NEW b,
         NEW new \in Breaker, new = updateSetting(b, config), b.name \in Names,
         gauges' = ShownAfterUpdate(b, config)
  PROVE  /\ gauges' \in [Names -> Gauges]
         /\ \A name \in Names : name # b.name => gauges'[name] = gauges[name]
         /\ SameSetting(b, config) => gauges' = gauges
         /\ ~SameSetting(b, config) /\ ~new.setting.Config.MetricsDisabled =>
              gauges'[b.name] = [state |-> new.state, thresholds |-> setThresholdsMetrics(new)]
<1>1. [state |-> new.state, thresholds |-> setThresholdsMetrics(new)] \in Gauges
  BY ThresholdsType DEF Gauges, Breaker
<1> QED
  BY <1>1 DEF ShownAfterUpdate

LEMMA ShownTransitioned ==
  ASSUME gauges \in [Names -> Gauges], NEW b \in Breaker, NEW to \in AdminTargets \cup {"Closed"},
         gauges' = ShownAfterTransition(b, to)
  PROVE  /\ gauges' \in [Names -> Gauges]
         /\ \A name \in Names : name # b.name => gauges'[name] = gauges[name]
         /\ ~b.setting.Config.MetricsDisabled =>
              \A k : gauges[b.name] = [state |-> b.state, thresholds |-> k] =>
                       gauges'[b.name] = [state |-> to, thresholds |-> k]
BY DEF ShownAfterTransition, Gauges, Breaker

-----------------------------------------------------------------------------
(* Breakers that nothing refers to are swept, and no others.               *)

InUse(r) ==
  (\E name \in Names : breakersSyncMap[name] = r) \/ (\E c \in Clients : job[c].breaker = r)

LEMMA SweptFacts ==
  ASSUME NEW b \in [BreakerRefs -> Breaker \cup {Nil}],
         breakers' = Swept(b, breakersSyncMap', job')
  PROVE  /\ breakers' \in [BreakerRefs -> Breaker \cup {Nil}]
         /\ \A r \in BreakerRefs : InUse(r)' => breakers'[r] = b[r]
BY DEF Swept, InUse

-----------------------------------------------------------------------------
(* What most steps have in common.                                         *)

(* Breakers that stay in use live on, under the same name.                 *)
NamesKept ==
  \A r \in BreakerRefs :
    InUse(r)' /\ breakers[r] # Nil =>
      breakers'[r] # Nil /\ breakers'[r].name = breakers[r].name

(* The step is c's.                                                        *)
OnlyMoves(c) ==
  \A d \in Clients : d # c => job'[d] = job[d] /\ pc'[d] = pc[d]

(* A client that a step is not about notices nothing it relies on.         *)
LEMMA OtherClient ==
  ASSUME IInv, NEW d \in Clients, job'[d] = job[d], pc'[d] = pc[d],
         NamesKept, doubled \subseteq doubled',
         \A name \in Names : Registered(name) =>
           \/ breakersSyncMap'[name] = breakersSyncMap[name]
           \/ name \in doubled' /\ pc[d] \notin {"checking", "updating"},
         pc[d] \in {"checking", "updating"} =>
           \A name \in Names : Registered(name) =>
             /\ breakersSyncMap'[name] = breakersSyncMap[name]
             /\ breakers'[breakersSyncMap[name]].setting =
                  breakers[breakersSyncMap[name]].setting
  PROVE  ClientFits(d)'
<1>0. /\ ClientFits(d) /\ job[d] \in Job
      /\ breakersSyncMap \in [Names -> BreakerRefs \cup {Nil}]
  BY DEF IInv, TypeOK
<1>1. ASSUME job[d].breaker \in BreakerRefs, breakers[job[d].breaker] # Nil
      PROVE  /\ breakers'[job[d].breaker] # Nil
             /\ breakers'[job[d].breaker].name = breakers[job[d].breaker].name
  <2>1. InUse(job[d].breaker)'
    BY DEF InUse
  <2> QED
    BY <1>1, <2>1 DEF NamesKept
<1>2. JobFits(d)'
  BY <1>0, <1>1 DEF ClientFits, JobFits
<1>3. FoundFits(d)'
  <2> SUFFICES ASSUME pc[d] = "found"
               PROVE  LET ref == job[d].breaker
                      IN  \/ breakers'[ref].name \in doubled'
                          \/ breakersSyncMap'[breakers'[ref].name] = ref
    BY DEF FoundFits
  <2> DEFINE ref == job[d].breaker
             name == breakers[ref].name
  <2>1. /\ ref \in BreakerRefs /\ breakers[ref] # Nil
        /\ name \in doubled \/ breakersSyncMap[name] = ref
    BY <1>0 DEF ClientFits, JobFits, FoundFits
  <2>2. breakers'[ref].name = name
    BY <1>1, <2>1
  <2>3. name \in Names /\ ref # Nil
    BY <2>1, RegistryAssumption DEF IInv, TypeOK, Breaker
  <2> HIDE DEF ref, name
  <2>4. CASE name \in doubled
    BY <2>2, <2>4 DEF ref
  <2>5. CASE breakersSyncMap[name] = ref
    <3>1. Registered(name)
      BY <2>3, <2>5 DEF Registered
    <3> QED
      BY <2>2, <2>3, <2>5, <3>1 DEF ref
  <2> QED
    BY <2>1, <2>4, <2>5
<1>4. BatchFits(d)'
  <2>1. ASSUME NEW name \in Names, pc[d] \in {"checking", "updating"}, Acceptable(d, name)
        PROVE  Acceptable(d, name)'
    BY <2>1 DEF Acceptable, Registered
  <2>2. pc[d] \in {"checking", "updating"} => DOMAIN job[d].batch \subseteq Names
    BY <1>0 DEF ClientFits, JobFits, Batches
  <2> QED
    BY <1>0, <2>1, <2>2 DEF ClientFits, BatchFits
<1>5. BatchHolds(d)'
  <2> SUFFICES ASSUME NEW name \in Names, pc[d] \in {"checking", "updating"}
               PROVE  /\ /\ pc[d] = "checking" /\ name \in DOMAIN job[d].batch
                         /\ job[d].before[name] # Nil
                         => SettingOf(name)' = job[d].before[name]
                      /\ pc[d] = "updating" /\ name \in DOMAIN job[d].batch \ job[d].todo =>
                           SettingOf(name)'.Config =
                             fillDefaultsAndGetSetting(job[d].batch[name]).Config
    BY DEF BatchHolds
  <2>1. Registered(name) => SettingOf(name)' = SettingOf(name)
    BY DEF SettingOf, Registered
  <2>2. CASE pc[d] = "checking" /\ name \in DOMAIN job[d].batch /\ job[d].before[name] # Nil
    <3>1. SettingOf(name) = job[d].before[name]
      BY <1>0, <2>2 DEF ClientFits, BatchHolds
    <3>2. Registered(name)
      BY <2>2, <3>1 DEF SettingOf
    <3> QED
      BY <2>1, <2>2, <3>1, <3>2
  <2>3. CASE pc[d] = "updating" /\ name \in DOMAIN job[d].batch \ job[d].todo
    <3>1. Registered(name)
      BY <1>0, <2>3 DEF ClientFits, BatchFits, Acceptable
    <3>2. SettingOf(name).Config = fillDefaultsAndGetSetting(job[d].batch[name]).Config
      BY <1>0, <2>3 DEF ClientFits, BatchHolds
    <3> QED
      BY <2>1, <2>3, <3>1, <3>2
  <2> QED
    BY <2>2, <2>3
<1> QED
  BY <1>0, <1>2, <1>3, <1>4, <1>5 DEF ClientFits

(* A step that registers, deletes and builds nothing: gauges still follow  *)
(* if they do for the registered breakers.                                 *)
LEMMA InPlace ==
  ASSUME IInv, NEW c \in Clients, OnlyMoves(c), NamesKept,
         breakersSyncMap' = breakersSyncMap, doubled' = doubled, handed' = handed,
         pc[c] # "built", pc'[c] # "built",
         job'[c].breaker \in {Nil, job[c].breaker} \cup {breakersSyncMap[m] : m \in Names},
         \A name \in Names \ doubled :
           /\ Registered(name) /\ Shows(name, breakersSyncMap[name]) =>
                Shows(name, breakersSyncMap[name])'
           /\ ~Registered(name) => gauges'[name] = gauges[name],
         \A d \in Clients : pc[d] = "built" => breakers'[job[d].breaker] = breakers[job[d].breaker]
  PROVE  Live' /\ Fresh' /\ Handed' /\ GaugesFollow'
<1>0. breakersSyncMap \in [Names -> BreakerRefs \cup {Nil}]
  BY DEF IInv, TypeOK
<1>1. \A name \in Names : Registered(name)' <=> Registered(name)
  BY DEF Registered
<1>2. Live'
  <2> SUFFICES ASSUME NEW name \in Names, Registered(name)
               PROVE  /\ breakers'[breakersSyncMap[name]] # Nil
                      /\ breakers'[breakersSyncMap[name]].name = name
    BY <1>1 DEF Live
  <2>1. breakersSyncMap[name] \in BreakerRefs /\ InUse(breakersSyncMap[name])'
    BY <1>0 DEF Registered, InUse
  <2> QED
    BY <2>1 DEF IInv, Live, NamesKept
<1>3. Fresh'
  <2>1. \A d \in Clients : pc'[d] = "built" =>
          /\ pc[d] = "built" /\ d # c /\ job'[d] = job[d]
          /\ job[d].breaker # Nil
    BY RegistryAssumption DEF OnlyMoves, IInv, ClientFits, JobFits
  <2> QED
    BY <2>1 DEF Fresh, IInv, OnlyMoves
<1>4. Handed'
  BY <1>1 DEF IInv, Handed
<1>5. \A d \in Clients, name \in Names :
        /\ Building(d, name)' <=> Building(d, name)
        /\ Building(d, name) => d # c
  BY DEF Building, OnlyMoves
<1>6. GaugesFollow'
  <2> SUFFICES ASSUME NEW name \in Names \ doubled
               PROVE  /\ Registered(name)' /\ (\A d \in Clients : ~Building(d, name)') =>
                           Shows(name, breakersSyncMap[name])'
                      /\ \A d \in Clients :
                           /\ ~Registered(name)' /\ Building(d, name)'
                           /\ \A e \in Clients : e # d => ~Building(e, name)'
                           => Shows(name, job[d].breaker)'
    BY DEF GaugesFollow
  <2>1. ASSUME Registered(name), \A d \in Clients : ~Building(d, name)
        PROVE  Shows(name, breakersSyncMap[name])'
    BY <2>1 DEF IInv, GaugesFollow
  <2>2. ASSUME NEW d \in Clients, ~Registered(name), Building(d, name),
               \A e \in Clients : e # d => ~Building(e, name)
        PROVE  Shows(name, job[d].breaker)'
    <3>1. Shows(name, job[d].breaker)
      BY <2>2 DEF IInv, GaugesFollow
    <3>2. /\ job'[d] = job[d] /\ gauges'[name] = gauges[name]
          /\ breakers'[job[d].breaker] = breakers[job[d].breaker]
      BY <1>5, <2>2 DEF OnlyMoves, Building
    <3> QED
      BY <3>1, <3>2 DEF Shows, setThresholdsMetrics
  <2> QED
    BY <1>1, <1>5, <2>1, <2>2
<1> QED
  BY <1>2, <1>3, <1>4, <1>6

(* A step of c that leaves the breakers, the map and the gauges alone.     *)
LEMMA QuietStep ==
  ASSUME IInv, NEW c \in Clients, OnlyMoves(c),
         \A r \in BreakerRefs : InUse(r)' => breakers'[r] = breakers[r],
         UNCHANGED <<breakersSyncMap, gauges, handed, doubled>>,
         pc[c] # "built", pc'[c] # "built",
         job'[c].breaker \in {Nil, job[c].breaker} \cup {breakersSyncMap[m] : m \in Names},
         TypeOK', job' \in [Clients -> Job], ClientFits(c)', MutexHeld'
  PROVE  IInv'
<1>0. breakersSyncMap \in [Names -> BreakerRefs \cup {Nil}]
  BY DEF IInv, TypeOK
<1>1. NamesKept
  BY DEF NamesKept
<1>2. \A name \in Names : Registered(name) =>
        breakers'[breakersSyncMap[name]] = breakers[breakersSyncMap[name]]
  BY <1>0 DEF Registered, InUse
<1>3. ASSUME NEW d \in Clients PROVE ClientFits(d)'
  <2>1. CASE d # c
    BY <1>1, <1>2, <2>1, OtherClient DEF OnlyMoves
  <2> QED
    BY <2>1
<1>4. Live' /\ Fresh' /\ Handed' /\ GaugesFollow'
  <2>1. \A d \in Clients : pc[d] = "built" =>
          breakers'[job[d].breaker] = breakers[job[d].breaker]
    <3> SUFFICES ASSUME NEW d \in Clients, pc[d] = "built"
                 PROVE  breakers'[job[d].breaker] = breakers[job[d].breaker]
      OBVIOUS
    <3>1. job[d].breaker \in BreakerRefs /\ job'[d] = job[d]
      BY DEF IInv, ClientFits, JobFits, OnlyMoves
    <3> QED
      BY <3>1 DEF InUse
  <2>2. \A name \in Names \ doubled :
          Registered(name) /\ Shows(name, breakersSyncMap[name]) =>
            Shows(name, breakersSyncMap[name])'
    BY <1>2 DEF Shows, setThresholdsMetrics
  <2> QED
    BY <1>1, <2>1, <2>2, InPlace
<1> QED
  BY <1>3, <1>4 DEF IInv

(* A step of c that changes the breaker at ref to new, and its gauges.     *)
LEMMA ChangeStep ==
  ASSUME IInv, NEW c \in Clients, OnlyMoves(c),
         NEW ref \in BreakerRefs, breakers[ref] # Nil,
         NEW new \in Breaker, new.name = breakers[ref].name,
         \A r \in BreakerRefs : InUse(r)' =>
           breakers'[r] = IF r = ref THEN new ELSE breakers[r],
         new.name \notin doubled => breakersSyncMap[new.name] = ref,
         \A d \in Clients : pc[d] = "built" => job[d].breaker # ref,
         new.setting = breakers[ref].setting \/ breakersMutex \in {c, Nil},
         \A name \in Names : name # new.name => gauges'[name] = gauges[name],
         Shows(new.name, ref) /\ ~new.setting.Config.MetricsDisabled =>
           gauges'[new.name] = [state |-> new.state, thresholds |-> setThresholdsMetrics(new)],
         UNCHANGED <<breakersSyncMap, handed, doubled>>,
         pc[c] # "built", pc'[c] # "built",
         job'[c].breaker \in {Nil, job[c].breaker},
         TypeOK', job' \in [Clients -> Job], ClientFits(c)', MutexHeld'
  PROVE  IInv'
<1>0. /\ breakersSyncMap \in [Names -> BreakerRefs \cup {Nil}]
      /\ new.name \in Names /\ new # Nil
  BY NilIsNothing DEF IInv, TypeOK, Breaker
<1>1. NamesKept
  BY <1>0 DEF NamesKept
<1>2. \A name \in Names : Registered(name) =>
        breakers'[breakersSyncMap[name]] =
          IF breakersSyncMap[name] = ref THEN new ELSE breakers[breakersSyncMap[name]]
  BY <1>0 DEF Registered, InUse
<1>3. ASSUME NEW d \in Clients PROVE ClientFits(d)'
  <2>1. CASE d # c
    <3>1. ASSUME pc[d] \in {"checking", "updating"}, NEW name \in Names, Registered(name)
          PROVE  breakers'[breakersSyncMap[name]].setting =
                   breakers[breakersSyncMap[name]].setting
      <4>1. breakersMutex = d
        BY <3>1 DEF IInv, MutexHeld, LockedPlaces
      <4>2. new.setting = breakers[ref].setting
        BY <2>1, <4>1, RegistryAssumption
      <4> QED
        BY <1>2, <3>1, <4>2
    <3> QED
      BY <1>1, <2>1, <3>1, OtherClient DEF OnlyMoves
  <2> QED
    BY <2>1
<1>4. Live' /\ Fresh' /\ Handed' /\ GaugesFollow'
  <2>1. \A d \in Clients : pc[d] = "built" =>
          breakers'[job[d].breaker] = breakers[job[d].breaker]
    <3> SUFFICES ASSUME NEW d \in Clients, pc[d] = "built"
                 PROVE  breakers'[job[d].breaker] = breakers[job[d].breaker]
      OBVIOUS
    <3>1. job[d].breaker \in BreakerRefs /\ job'[d] = job[d]
      BY DEF IInv, ClientFits, JobFits, OnlyMoves
    <3> QED
      BY <3>1 DEF InUse
  <2>2. ASSUME NEW name \in Names \ doubled, Registered(name),
               Shows(name, breakersSyncMap[name])
        PROVE  Shows(name, breakersSyncMap[name])'
    <3>1. breakers[breakersSyncMap[name]].name = name
      BY <2>2 DEF IInv, Live
    <3>2. CASE name = new.name
      <4>1. breakersSyncMap[name] = ref /\ breakers'[ref] = new
        BY <1>2, <2>2, <3>2
      <4> QED
        BY <2>2, <3>2, <4>1 DEF Shows
    <3>3. CASE name # new.name
      <4>1. breakersSyncMap[name] # ref
        BY <3>1, <3>3
      <4>2. /\ breakers'[breakersSyncMap[name]] = breakers[breakersSyncMap[name]]
            /\ gauges'[name] = gauges[name]
        BY <1>2, <2>2, <3>3, <4>1
      <4> QED
        BY <2>2, <4>2 DEF Shows, setThresholdsMetrics
    <3> QED
      BY <3>2, <3>3
  <2>3. \A name \in Names \ doubled : ~Registered(name) => gauges'[name] = gauges[name]
    BY RegistryAssumption DEF Registered
  <2> QED
    BY <1>1, <2>1, <2>2, <2>3, InPlace
<1> QED
  BY <1>3, <1>4 DEF IInv

-----------------------------------------------------------------------------
(* One lemma per action.                                                   *)

LEMMA GetLoadStep ==
  ASSUME IInv, NEW c \in Clients, GetLoad(c)
  PROVE  IInv'
<1>0. pc[c] = "idle" /\ job[c] = NoJob /\ c # Nil
  BY RegistryAssumption DEF GetLoad, IInv, ClientFits, JobFits
<1>1. PICK name \in Names, config \in Configs :
        \/ /\ Registered(name)
           /\ handed' = [handed EXCEPT ![name] = @ \cup {breakersSyncMap[name]}]
           /\ UNCHANGED <<pc, job>>
        \/ /\ ~Registered(name)
           /\ job' = [job EXCEPT ![c] = [NoJob EXCEPT !.name = name, !.config = config]]
           /\ pc' = [pc EXCEPT ![c] = "missing"]
           /\ UNCHANGED handed
  BY DEF GetLoad, Goto
<1>2. UNCHANGED <<breakersSyncMap, breakersMutex, breakers, gauges, doubled>>
  BY DEF GetLoad
<1>3. CASE Registered(name)
  <2>1. TypeOK'
    BY <1>1, <1>2, <1>3 DEF IInv, TypeOK, Registered
  <2>2. Handed'
    BY <1>1, <1>2, <1>3 DEF IInv, TypeOK, Handed, Registered
  <2>3. ASSUME NEW d \in Clients PROVE ClientFits(d)'
    BY <1>1, <1>2, <1>3
       DEF IInv, ClientFits, JobFits, FoundFits, BatchFits, BatchHolds, Acceptable, Registered,
           SettingOf
  <2>4. Live' /\ Fresh' /\ MutexHeld' /\ GaugesFollow'
    BY <1>1, <1>2, <1>3
       DEF IInv, Live, Fresh, MutexHeld, GaugesFollow, Shows, setThresholdsMetrics, Building,
           Registered
  <2> QED
    BY <1>1, <1>3, <2>1, <2>2, <2>3, <2>4 DEF IInv
<1>4. CASE ~Registered(name)
  <2> DEFINE mine == [NoJob EXCEPT !.name = name, !.config = config]
  <2>1. /\ mine \in Job /\ mine.breaker = Nil
        /\ mine.name = name /\ mine.config = config
    BY DEF NoJob, Job
  <2> HIDE DEF mine
  <2>2. job' = [job EXCEPT ![c] = mine] /\ pc' = [pc EXCEPT ![c] = "missing"] /\ UNCHANGED handed
    BY <1>1, <1>4 DEF mine
  <2>3. job' \in [Clients -> Job] /\ job'[c] = mine /\ pc'[c] = "missing" /\ OnlyMoves(c)
    BY <2>1, <2>2 DEF IInv, TypeOK, OnlyMoves
  <2>4. TypeOK'
    BY <1>2, <2>2 DEF IInv, TypeOK, PCs
  <2>5. MutexHeld'
    BY <1>0, <1>2, <2>2, <2>3 DEF IInv, MutexHeld, LockedPlaces, OnlyMoves
  <2>6. ClientFits(c)'
    BY <2>1, <2>3 DEF ClientFits, JobFits, FoundFits, BatchFits, BatchHolds
  <2> QED
    BY <1>0, <1>2, <2>1, <2>2, <2>3, <2>4, <2>5, <2>6, QuietStep
<1> QED
  BY <1>3, <1>4

LEMMA FindStep ==
  ASSUME IInv, NEW c \in Clients, Find(c)
  PROVE  IInv'
<1>0. /\ pc[c] = "idle" /\ c # Nil
      /\ pc' = [pc EXCEPT ![c] = "found"]
      /\ UNCHANGED <<breakersSyncMap, breakersMutex, breakers, gauges, handed, doubled>>
  BY RegistryAssumption DEF Find, Goto
<1>1. PICK name \in Names :
        /\ Registered(name)
        /\ job' = [job EXCEPT ![c] = [NoJob EXCEPT !.breaker = breakersSyncMap[name]]]
  BY DEF Find
<1> DEFINE mine == [NoJob EXCEPT !.breaker = breakersSyncMap[name]]
<1>2. /\ breakersSyncMap[name] \in BreakerRefs
      /\ mine \in Job /\ mine.breaker = breakersSyncMap[name]
  BY <1>1 DEF NoJob, Job, IInv, TypeOK, Registered
<1> HIDE DEF mine
<1>3. job' = [job EXCEPT ![c] = mine]
  BY <1>1 DEF mine
<1>4. job' \in [Clients -> Job] /\ job'[c] = mine /\ pc'[c] = "found" /\ OnlyMoves(c)
  BY <1>0, <1>2, <1>3 DEF IInv, TypeOK, OnlyMoves
<1>5. TypeOK'
  BY <1>0 DEF IInv, TypeOK, PCs
<1>6. MutexHeld'
  BY <1>0, <1>4 DEF IInv, MutexHeld, LockedPlaces, OnlyMoves
<1>7. ClientFits(c)'
  <2>1. /\ breakers[breakersSyncMap[name]] # Nil
        /\ breakers[breakersSyncMap[name]].name = name
    BY <1>1 DEF IInv, Live
  <2> QED
    BY <1>0, <1>2, <1>4, <2>1 DEF ClientFits, JobFits, FoundFits, BatchFits, BatchHolds
<1> QED
  BY <1>0, <1>2, <1>4, <1>5, <1>6, <1>7, QuietStep

LEMMA SettingOfType ==
  ASSUME IInv, NEW name \in Names
  PROVE  SettingOf(name) \in Setting \cup {Nil}
BY DEF IInv, TypeOK, Live, SettingOf, Registered, Breaker

LEMMA LockForBatchStep ==
  ASSUME IInv, NEW c \in Clients, LockForBatch(c)
  PROVE  IInv'
<1>0. /\ pc[c] = "idle" /\ breakersMutex = Nil /\ c # Nil
      /\ breakersMutex' = c
      /\ pc' = [pc EXCEPT ![c] = "checking"]
      /\ UNCHANGED <<breakersSyncMap, breakers, gauges, handed, doubled>>
  BY RegistryAssumption DEF LockForBatch, Goto
<1>1. PICK batch \in Batches :
        job' = [job EXCEPT ![c] =
                  [NoJob EXCEPT !.batch = batch, !.todo = DOMAIN batch,
                                !.before = [name \in DOMAIN batch |-> SettingOf(name)]]]
  BY DEF LockForBatch, SettingsOf
<1> DEFINE before == [name \in DOMAIN batch |-> SettingOf(name)]
           mine == [NoJob EXCEPT !.batch = batch, !.todo = DOMAIN batch, !.before = before]
<1>2. DOMAIN batch \in SUBSET Names
  BY DEF Batches
<1>3. before \in [DOMAIN batch -> Setting \cup {Nil}]
  BY <1>2, SettingOfType
<1>4. \A name \in DOMAIN batch : before[name] = SettingOf(name)
  OBVIOUS
<1> HIDE DEF before
<1>5. before \in UNION {[S -> Setting \cup {Nil}] : S \in SUBSET Names}
  BY <1>2, <1>3
<1>6. /\ mine \in Job /\ mine.breaker = Nil /\ mine.batch = batch
      /\ mine.todo = DOMAIN batch /\ mine.before = before
  BY <1>2, <1>5 DEF NoJob, Job
<1> HIDE DEF mine
<1>7. job' = [job EXCEPT ![c] = mine]
  BY <1>1 DEF mine, before
<1>8. job' \in [Clients -> Job] /\ job'[c] = mine /\ pc'[c] = "checking" /\ OnlyMoves(c)
  BY <1>0, <1>6, <1>7 DEF IInv, TypeOK, OnlyMoves
<1>9. TypeOK'
  BY <1>0 DEF IInv, TypeOK, PCs
<1>10. MutexHeld'
  BY <1>0, <1>8, RegistryAssumption DEF IInv, MutexHeld, LockedPlaces, OnlyMoves
<1>11. ClientFits(c)'
  <2>1. \A name \in Names : SettingOf(name)' = SettingOf(name)
    BY <1>0 DEF SettingOf, Registered
  <2> QED
    BY <1>0, <1>4, <1>6, <1>8, <2>1 DEF ClientFits, JobFits, FoundFits, BatchFits, BatchHolds
<1> QED
  BY <1>0, <1>6, <1>8, <1>9, <1>10, <1>11, QuietStep

LEMMA LockForResetStep ==
  ASSUME IInv, NEW c \in Clients, LockForReset(c)
  PROVE  IInv'
<1>0. /\ pc[c] = "idle" /\ breakersMutex = Nil /\ c # Nil
      /\ job' = [job EXCEPT ![c] = [NoJob EXCEPT !.todo = Names, !.before = SettingsOf(Names)]]
      /\ breakersMutex' = c
      /\ pc' = [pc EXCEPT ![c] = "resetting"]
      /\ UNCHANGED <<breakersSyncMap, breakers, gauges, handed, doubled>>
  BY RegistryAssumption DEF LockForReset, Goto
<1> DEFINE before == SettingsOf(Names)
           mine   == [NoJob EXCEPT !.todo = Names, !.before = before]
<1>1. mine \in Job /\ mine.breaker = Nil
  <2>1. before \in [Names -> Setting \cup {Nil}]
    BY SettingOfType DEF SettingsOf
  <2> HIDE DEF before
  <2> QED
    BY <2>1 DEF NoJob, Job
<1> HIDE DEF mine
<1>2. job' = [job EXCEPT ![c] = mine]
  BY <1>0 DEF mine
<1>3. job' \in [Clients -> Job] /\ job'[c] = mine /\ pc'[c] = "resetting" /\ OnlyMoves(c)
  BY <1>0, <1>1, <1>2 DEF IInv, TypeOK, OnlyMoves
<1>4. TypeOK'
  BY <1>0 DEF IInv, TypeOK, PCs
<1>5. MutexHeld'
  BY <1>0, <1>3, RegistryAssumption DEF IInv, MutexHeld, LockedPlaces, OnlyMoves
<1>6. ClientFits(c)'
  BY <1>1, <1>3 DEF ClientFits, JobFits, FoundFits, BatchFits, BatchHolds
<1> QED
  BY <1>0, <1>1, <1>3, <1>4, <1>5, <1>6, QuietStep

(* A client that returns has nothing left to rely on.                      *)
LEMMA Returned ==
  ASSUME IInv, NEW c \in Clients, Return(c)
  PROVE  /\ job' \in [Clients -> Job] /\ job'[c].breaker = Nil
         /\ pc' \in [Clients -> PCs] /\ pc'[c] = "idle"
         /\ OnlyMoves(c)
         /\ ClientFits(c)'
<1>1. pc' = [pc EXCEPT ![c] = "idle"] /\ job' = [job EXCEPT ![c] = NoJob]
  BY DEF Return, Goto
<1>2. job' \in [Clients -> Job] /\ job'[c] = NoJob /\ NoJob.breaker = Nil
  BY <1>1, NoJobType DEF IInv, NoJob
<1>3. pc' \in [Clients -> PCs] /\ pc'[c] = "idle" /\ OnlyMoves(c)
  BY <1>1 DEF IInv, TypeOK, PCs, OnlyMoves
<1> QED
  BY <1>2, <1>3 DEF ClientFits, JobFits, FoundFits, BatchFits, BatchHolds

(* A client that unlocks and returns.                                      *)
LEMMA UnlockStep ==
  ASSUME IInv, NEW c \in Clients, pc[c] \in LockedPlaces, Return(c), breakersMutex' = Nil,
         UNCHANGED <<breakersSyncMap, breakers, gauges, handed, doubled>>
  PROVE  IInv'
<1>1. /\ job' \in [Clients -> Job] /\ job'[c].breaker = Nil
      /\ pc' \in [Clients -> PCs] /\ pc'[c] = "idle"
      /\ OnlyMoves(c) /\ ClientFits(c)'
  BY Returned
<1>2. TypeOK'
  BY <1>1 DEF IInv, TypeOK
<1>3. MutexHeld'
  BY <1>1, RegistryAssumption DEF IInv, MutexHeld, LockedPlaces, OnlyMoves
<1>4. pc[c] # "built"
  BY DEF LockedPlaces
<1> QED
  BY <1>1, <1>2, <1>3, <1>4, QuietStep

LEMMA RefuseConfigStep ==
  ASSUME IInv, NEW c \in Clients, RefuseConfig(c)
  PROVE  IInv'
<1>0. /\ pc[c] = "found"
      /\ Return(c)
      /\ breakers' = Swept(breakers, breakersSyncMap, job')
      /\ UNCHANGED <<breakersSyncMap, breakersMutex, gauges, handed, doubled>>
  BY DEF RefuseConfig
<1>1. /\ job' \in [Clients -> Job] /\ job'[c].breaker = Nil
      /\ pc' \in [Clients -> PCs] /\ pc'[c] = "idle"
      /\ OnlyMoves(c) /\ ClientFits(c)'
  BY <1>0, Returned
<1>2. /\ breakers' \in [BreakerRefs -> Breaker \cup {Nil}]
      /\ \A r \in BreakerRefs : InUse(r)' => breakers'[r] = breakers[r]
  BY <1>0, SweptFacts DEF IInv, TypeOK
<1>3. TypeOK'
  BY <1>0, <1>1, <1>2 DEF IInv, TypeOK
<1>4. MutexHeld'
  BY <1>0, <1>1 DEF IInv, MutexHeld, LockedPlaces, OnlyMoves
<1> QED
  BY <1>0, <1>1, <1>2, <1>3, <1>4, QuietStep

LEMMA CheckEntryStep ==
  ASSUME IInv, NEW c \in Clients, CheckEntry(c)
  PROVE  IInv'
<1>0. /\ pc[c] = "checking" /\ pc[c] \in LockedPlaces
      /\ UNCHANGED <<breakersSyncMap, breakers, gauges, handed, doubled>>
  BY DEF CheckEntry, LockedPlaces
<1>1. PICK name \in job[c].todo :
        \/ ~Acceptable(c, name) /\ breakersMutex' = Nil /\ Return(c)
        \/ Acceptable(c, name) /\ Checked(c, name) /\ UNCHANGED breakersMutex
  BY DEF CheckEntry
<1>2. CASE ~Acceptable(c, name)
  BY <1>0, <1>1, <1>2, UnlockStep
<1>3. CASE Acceptable(c, name)
  <2>0. /\ job[c] \in Job /\ job[c].breaker = Nil
        /\ job[c].batch \in Batches /\ job[c].todo \subseteq DOMAIN job[c].batch
        /\ \A m \in DOMAIN job[c].batch \ job[c].todo : Acceptable(c, m)
    BY <1>0 DEF IInv, ClientFits, JobFits, BatchFits
  <2>1. PICK left \in SUBSET DOMAIN job[c].batch, place \in {"checking", "updating"} :
          /\ job' = [job EXCEPT ![c].todo = left] /\ pc' = [pc EXCEPT ![c] = place]
          /\ \/ place = "checking" /\ left = job[c].todo \ {name}
             \/ place = "updating" /\ left = DOMAIN job[c].batch /\ job[c].todo = {name}
    <3>1. CASE job[c].todo = {name}
      BY <1>1, <1>3, <3>1 DEF Checked, Goto
    <3>2. CASE job[c].todo # {name}
      <4>1. pc' = [pc EXCEPT ![c] = "checking"]
        BY <1>0, <1>1, <1>3, <3>2 DEF Checked, IInv, TypeOK
      <4>2. job' = [job EXCEPT ![c].todo = job[c].todo \ {name}]
        BY <1>1, <1>3, <3>2 DEF Checked
      <4>3. job[c].todo \ {name} \in SUBSET DOMAIN job[c].batch
        BY <2>0
      <4> QED
        BY <4>1, <4>2, <4>3
    <3> QED
      BY <3>1, <3>2
  <2>2. DOMAIN job[c].batch \subseteq Names
    BY <2>0 DEF Batches
  <2>3. /\ job' \in [Clients -> Job] /\ job'[c].breaker = Nil
        /\ job'[c].batch = job[c].batch /\ job'[c].before = job[c].before
        /\ job'[c].todo = left
        /\ pc'[c] = place /\ OnlyMoves(c)
    BY <2>0, <2>1, <2>2 DEF IInv, TypeOK, Job, OnlyMoves
  <2>4. TypeOK'
    BY <1>0, <1>1, <1>3, <2>1 DEF IInv, TypeOK, PCs
  <2>5. MutexHeld'
    BY <1>0, <1>1, <1>3, <2>3 DEF IInv, MutexHeld, LockedPlaces, OnlyMoves
  <2>6. ClientFits(c)'
    <3>1. \A m \in Names : SettingOf(m)' = SettingOf(m)
      BY <1>0 DEF SettingOf, Registered
    <3>2. \A m : Acceptable(c, m)' <=> Acceptable(c, m)
      BY <1>0, <2>3 DEF Acceptable, Registered
    <3>3. JobFits(c)' /\ FoundFits(c)' /\ pc'[c] # "panicked"
      BY <2>0, <2>3 DEF JobFits, FoundFits
    <3>4. BatchFits(c)'
      BY <1>3, <2>0, <2>1, <2>3, <3>2 DEF BatchFits
    <3>5. BatchHolds(c)'
      BY <1>0, <2>1, <2>3, <3>1 DEF BatchHolds, IInv, ClientFits
    <3> QED
      BY <3>3, <3>4, <3>5 DEF ClientFits
  <2>7. pc'[c] # "built"
    BY <2>3
  <2> QED
    BY <1>0, <2>3, <2>4, <2>5, <2>6, <2>7, QuietStep
<1> QED
  BY <1>2, <1>3

LEMMA BatchDoneStep ==
  ASSUME IInv, NEW c \in Clients, BatchDone(c)
  PROVE  IInv'
BY UnlockStep DEF BatchDone, LockedPlaces

LEMMA ResetDoneStep ==
  ASSUME IInv, NEW c \in Clients, ResetDone(c)
  PROVE  IInv'
BY UnlockStep DEF ResetDone, LockedPlaces

(* The breaker that an operation by name has found, and that of a name.    *)
Changeable(ref) ==
  /\ ref \in BreakerRefs /\ breakers[ref] \in Breaker /\ breakers[ref] # Nil
  /\ breakers[ref].name \in Names
  /\ breakers[ref].name \notin doubled => breakersSyncMap[breakers[ref].name] = ref
  /\ \A d \in Clients : pc[d] = "built" => job[d].breaker # ref

LEMMA FoundFacts ==
  ASSUME IInv, NEW c \in Clients, pc[c] = "found"
  PROVE  Changeable(job[c].breaker)
<1> DEFINE ref == job[c].breaker
<1>1. ref \in BreakerRefs /\ breakers[ref] # Nil /\ ClientFits(c)
  BY DEF IInv, ClientFits, JobFits
<1>2. breakers[ref] \in Breaker
  BY <1>1 DEF IInv, TypeOK
<1>3. \A d \in Clients : pc[d] = "built" => job[d].breaker # ref
  BY DEF IInv, Fresh
<1> QED
  BY <1>1, <1>2, <1>3 DEF ClientFits, FoundFits, Changeable, Breaker

LEMMA RegisteredFacts ==
  ASSUME IInv, NEW name \in Names, Registered(name)
  PROVE  Changeable(breakersSyncMap[name]) /\ breakers[breakersSyncMap[name]].name = name
<1> DEFINE ref == breakersSyncMap[name]
<1>1. ref \in BreakerRefs /\ breakers[ref] # Nil /\ breakers[ref].name = name
  BY DEF IInv, TypeOK, Live, Registered
<1>2. breakers[ref] \in Breaker
  BY <1>1 DEF IInv, TypeOK
<1>3. \A d \in Clients : pc[d] = "built" => job[d].breaker # ref
  BY DEF IInv, Fresh
<1> QED
  BY <1>1, <1>2, <1>3 DEF Changeable

(* The hypotheses of ChangeStep about gauges, for a forced state and for a *)
(* configuration.                                                          *)
LEMMA TransitionShows ==
  ASSUME IInv, NEW ref, Changeable(ref), NEW to \in AdminTargets \cup {"Closed"},
         NEW new, new = StateTransition(breakers[ref], to),
         gauges' = ShownAfterTransition(breakers[ref], to)
  PROVE  /\ new \in Breaker /\ new.name = breakers[ref].name
         /\ new.setting = breakers[ref].setting
         /\ gauges' \in [Names -> Gauges]
         /\ \A name \in Names : name # new.name => gauges'[name] = gauges[name]
         /\ Shows(new.name, ref) /\ ~new.setting.Config.MetricsDisabled =>
              gauges'[new.name] =
                [state |-> new.state, thresholds |-> setThresholdsMetrics(new)]
<1>0. breakers[ref] \in Breaker /\ gauges \in [Names -> Gauges]
  BY DEF Changeable, IInv, TypeOK
<1>1. /\ new \in Breaker /\ new.name = breakers[ref].name
      /\ new.setting = breakers[ref].setting /\ new.state = to
  BY <1>0, Transitioned
<1>2. setThresholdsMetrics(new) = setThresholdsMetrics(breakers[ref])
  BY <1>1 DEF setThresholdsMetrics
<1>3. /\ gauges' \in [Names -> Gauges]
      /\ \A name \in Names : name # new.name => gauges'[name] = gauges[name]
  BY <1>0, <1>1, ShownTransitioned
<1>4. ASSUME Shows(new.name, ref), ~new.setting.Config.MetricsDisabled
      PROVE  gauges'[new.name] =
               [state |-> new.state, thresholds |-> setThresholdsMetrics(new)]
  <2> DEFINE k == setThresholdsMetrics(breakers[ref])
  <2>1. gauges[new.name] = [state |-> breakers[ref].state, thresholds |-> k]
    BY <1>1, <1>4 DEF Shows
  <2> HIDE DEF k
  <2>2. gauges'[new.name] = [state |-> to, thresholds |-> k]
    BY <1>0, <1>1, <1>4, <2>1, ShownTransitioned
  <2> QED
    BY <1>1, <1>2, <2>2 DEF k
<1> QED
  BY <1>1, <1>3, <1>4

LEMMA UpdateShows ==
  ASSUME IInv, NEW ref, Changeable(ref), NEW config \in Configs, IsValidConfig(config),
         NEW new, new = updateSetting(breakers[ref], config),
         gauges' = ShownAfterUpdate(breakers[ref], config)
  PROVE  /\ new \in Breaker /\ new.name = breakers[ref].name
         /\ new.setting.Config = fillDefaultsAndGetSetting(config).Config
         /\ gauges' \in [Names -> Gauges]
         /\ \A name \in Names : name # new.name => gauges'[name] = gauges[name]
         /\ Shows(new.name, ref) /\ ~new.setting.Config.MetricsDisabled =>
              gauges'[new.name] =
                [state |-> new.state, thresholds |-> setThresholdsMetrics(new)]
<1>0. /\ breakers[ref] \in Breaker /\ gauges \in [Names -> Gauges]
      /\ breakers[ref].name \in Names
  BY DEF Changeable, IInv, TypeOK
<1>1. /\ new \in Breaker /\ new.name = breakers[ref].name
      /\ new.setting.Config = fillDefaultsAndGetSetting(config).Config
      /\ SameSetting(breakers[ref], config) => new = breakers[ref]
  BY <1>0, Updated
<1>2. /\ gauges' \in [Names -> Gauges]
      /\ \A name \in Names : name # breakers[ref].name => gauges'[name] = gauges[name]
      /\ SameSetting(breakers[ref], config) => gauges' = gauges
      /\ ~SameSetting(breakers[ref], config) /\ ~new.setting.Config.MetricsDisabled =>
           gauges'[breakers[ref].name] =
             [state |-> new.state, thresholds |-> setThresholdsMetrics(new)]
  BY <1>0, <1>1, ShownUpdated
<1>3. CASE SameSetting(breakers[ref], config)
  BY <1>1, <1>2, <1>3 DEF Shows
<1>4. CASE ~SameSetting(breakers[ref], config)
  BY <1>1, <1>2, <1>4
<1> QED
  BY <1>3, <1>4

(* A client that changes the breaker it has found, and returns.            *)
LEMMA FoundStep ==
  ASSUME IInv, NEW c \in Clients, pc[c] = "found", Return(c),
         NEW new \in Breaker, new.name = breakers[job[c].breaker].name,
         breakers' = Swept([breakers EXCEPT ![job[c].breaker] = new], breakersSyncMap, job'),
         new.setting = breakers[job[c].breaker].setting \/ breakersMutex = Nil,
         gauges' \in [Names -> Gauges],
         \A name \in Names : name # new.name => gauges'[name] = gauges[name],
         Shows(new.name, job[c].breaker) /\ ~new.setting.Config.MetricsDisabled =>
           gauges'[new.name] = [state |-> new.state, thresholds |-> setThresholdsMetrics(new)],
         UNCHANGED <<breakersSyncMap, breakersMutex, handed, doubled>>
  PROVE  IInv'
<1>1. PICK ref \in BreakerRefs :
        /\ ref = job[c].breaker /\ Changeable(ref)
  BY FoundFacts DEF Changeable
<1>2. /\ job' \in [Clients -> Job] /\ job'[c].breaker = Nil
      /\ pc' \in [Clients -> PCs] /\ pc'[c] = "idle"
      /\ OnlyMoves(c) /\ ClientFits(c)'
  BY Returned
<1>3. PICK b \in [BreakerRefs -> Breaker \cup {Nil}] : b = [breakers EXCEPT ![ref] = new]
  BY DEF IInv, TypeOK
<1>4. /\ breakers' \in [BreakerRefs -> Breaker \cup {Nil}]
      /\ \A r \in BreakerRefs : InUse(r)' => breakers'[r] = b[r]
  BY <1>1, <1>3, SweptFacts
<1>5. \A r \in BreakerRefs : InUse(r)' =>
        breakers'[r] = IF r = ref THEN new ELSE breakers[r]
  BY <1>3, <1>4 DEF IInv, TypeOK
<1>6. TypeOK'
  BY <1>2, <1>4 DEF IInv, TypeOK
<1>7. MutexHeld'
  BY <1>2 DEF IInv, MutexHeld, LockedPlaces, OnlyMoves
<1>8. /\ breakers[ref] # Nil /\ new.name = breakers[ref].name
      /\ new.name \notin doubled => breakersSyncMap[new.name] = ref
      /\ \A d \in Clients : pc[d] = "built" => job[d].breaker # ref
      /\ new.setting = breakers[ref].setting \/ breakersMutex \in {c, Nil}
      /\ Shows(new.name, ref) /\ ~new.setting.Config.MetricsDisabled =>
           gauges'[new.name] = [state |-> new.state, thresholds |-> setThresholdsMetrics(new)]
  BY <1>1 DEF Changeable
<1> QED
  BY <1>2, <1>5, <1>6, <1>7, <1>8, ChangeStep

LEMMA ForceStateStep ==
  ASSUME IInv, NEW c \in Clients, ForceState(c)
  PROVE  IInv'
<1>1. /\ pc[c] = "found" /\ Return(c)
      /\ UNCHANGED <<breakersSyncMap, breakersMutex, handed, doubled>>
  BY DEF ForceState
<1>2. Changeable(job[c].breaker)
  BY <1>1, FoundFacts
<1>3. PICK to \in AdminTargets :
        /\ breakers' = Swept([breakers EXCEPT ![job[c].breaker] =
                                 StateTransition(breakers[job[c].breaker], to)],
                             breakersSyncMap, job')
        /\ gauges' = ShownAfterTransition(breakers[job[c].breaker], to)
  BY DEF ForceState
<1>4. PICK new : new = StateTransition(breakers[job[c].breaker], to)
  OBVIOUS
<1>5. /\ new \in Breaker /\ new.name = breakers[job[c].breaker].name
      /\ new.setting = breakers[job[c].breaker].setting
      /\ gauges' \in [Names -> Gauges]
      /\ \A name \in Names : name # new.name => gauges'[name] = gauges[name]
      /\ Shows(new.name, job[c].breaker) /\ ~new.setting.Config.MetricsDisabled =>
           gauges'[new.name] = [state |-> new.state, thresholds |-> setThresholdsMetrics(new)]
  BY <1>2, <1>3, <1>4, TransitionShows
<1> QED
  BY <1>1, <1>3, <1>4, <1>5, FoundStep

LEMMA UpdateConfigStep ==
  ASSUME IInv, NEW c \in Clients, UpdateConfig(c)
  PROVE  IInv'
<1>0. pc[c] = "found" /\ breakersMutex = Nil
  BY DEF UpdateConfig
<1>1. PICK config \in Configs :
        /\ IsValidConfig(config)
        /\ Return(c)
        /\ breakers' = Swept([breakers EXCEPT ![job[c].breaker] =
                                 updateSetting(breakers[job[c].breaker], config)],
                             breakersSyncMap, job')
        /\ gauges' = ShownAfterUpdate(breakers[job[c].breaker], config)
        /\ UNCHANGED <<breakersSyncMap, breakersMutex, handed, doubled>>
  BY DEF UpdateConfig, Update
<1>2. Changeable(job[c].breaker)
  BY <1>0, FoundFacts
<1>3. PICK new : new = updateSetting(breakers[job[c].breaker], config)
  OBVIOUS
<1>4. /\ new \in Breaker /\ new.name = breakers[job[c].breaker].name
      /\ gauges' \in [Names -> Gauges]
      /\ \A name \in Names : name # new.name => gauges'[name] = gauges[name]
      /\ Shows(new.name, job[c].breaker) /\ ~new.setting.Config.MetricsDisabled =>
           gauges'[new.name] = [state |-> new.state, thresholds |-> setThresholdsMetrics(new)]
  BY <1>1, <1>2, <1>3, UpdateShows
<1> QED
  BY <1>0, <1>1, <1>3, <1>4, FoundStep

(* A client with the mutex that changes the breaker of a name in place.    *)
LEMMA LockedStep ==
  ASSUME IInv, NEW c \in Clients, pc[c] \in LockedPlaces, OnlyMoves(c),
         NEW name \in Names, Registered(name),
         NEW new \in Breaker, new.name = name,
         breakers' = [breakers EXCEPT ![breakersSyncMap[name]] = new],
         gauges' \in [Names -> Gauges],
         \A m \in Names : m # name => gauges'[m] = gauges[m],
         Shows(name, breakersSyncMap[name]) /\ ~new.setting.Config.MetricsDisabled =>
           gauges'[name] = [state |-> new.state, thresholds |-> setThresholdsMetrics(new)],
         pc' \in [Clients -> PCs], pc'[c] \in LockedPlaces,
         job' \in [Clients -> Job], job'[c].breaker = job[c].breaker,
         UNCHANGED <<breakersSyncMap, breakersMutex, handed, doubled>>,
         ClientFits(c)'
  PROVE  IInv'
<1>1. PICK ref \in BreakerRefs :
        ref = breakersSyncMap[name] /\ Changeable(ref) /\ breakers[ref].name = name
  BY RegisteredFacts DEF Changeable
<1>2. /\ breakers' \in [BreakerRefs -> Breaker \cup {Nil}]
      /\ \A r \in BreakerRefs : breakers'[r] = IF r = ref THEN new ELSE breakers[r]
  BY <1>1 DEF IInv, TypeOK
<1>3. TypeOK'
  BY <1>2 DEF IInv, TypeOK
<1>4. MutexHeld' /\ breakersMutex = c
  BY DEF IInv, MutexHeld, OnlyMoves
<1>5. pc[c] # "built" /\ pc'[c] # "built"
  BY DEF LockedPlaces
<1>6. /\ breakers[ref] # Nil /\ new.name = breakers[ref].name
      /\ new.name \notin doubled => breakersSyncMap[new.name] = ref
      /\ \A d \in Clients : pc[d] = "built" => job[d].breaker # ref
      /\ Shows(new.name, ref) /\ ~new.setting.Config.MetricsDisabled =>
           gauges'[new.name] = [state |-> new.state, thresholds |-> setThresholdsMetrics(new)]
  BY <1>1 DEF Changeable
<1> QED
  BY <1>2, <1>3, <1>4, <1>5, <1>6, ChangeStep

LEMMA UpdateEntryStep ==
  ASSUME IInv, NEW c \in Clients, UpdateEntry(c)
  PROVE  IInv'
<1>0. /\ pc[c] = "updating"
      /\ UNCHANGED <<breakersSyncMap, breakersMutex, handed, doubled>>
  BY DEF UpdateEntry
<1>1. /\ ClientFits(c) /\ job[c] \in Job /\ job[c].breaker = Nil
      /\ job[c].batch \in Batches /\ job[c].todo \subseteq DOMAIN job[c].batch
      /\ \A m \in DOMAIN job[c].batch : Acceptable(c, m)
  BY <1>0 DEF IInv, ClientFits, JobFits, BatchFits
<1>2. DOMAIN job[c].batch \subseteq Names /\ \A m \in DOMAIN job[c].batch : job[c].batch[m] \in Configs
  BY <1>1 DEF Batches
<1>3. PICK name \in job[c].todo :
        /\ IF Registered(name)
           THEN /\ breakers' = [breakers EXCEPT ![breakersSyncMap[name]] =
                                  updateSetting(breakers[breakersSyncMap[name]], job[c].batch[name])]
                /\ gauges' = ShownAfterUpdate(breakers[breakersSyncMap[name]], job[c].batch[name])
           ELSE UNCHANGED <<breakers, gauges>>
        /\ job' = [job EXCEPT ![c].todo = job[c].todo \ {name}]
        /\ pc' = [pc EXCEPT ![c] = IF Registered(name) THEN "updating" ELSE "panicked"]
  BY DEF UpdateEntry, Goto
<1>4. /\ name \in Names /\ name \in DOMAIN job[c].batch
      /\ Registered(name) /\ IsValidConfig(job[c].batch[name])
  BY <1>1, <1>2 DEF Acceptable
<1>5. PICK config \in Configs : config = job[c].batch[name] /\ IsValidConfig(config)
  BY <1>2, <1>4
<1>6. PICK ref :
        /\ ref = breakersSyncMap[name] /\ Changeable(ref) /\ breakers[ref].name = name
  BY <1>4, RegisteredFacts
<1>7. PICK new : new = updateSetting(breakers[ref], config)
  OBVIOUS
<1>8. /\ breakers' = [breakers EXCEPT ![ref] = new]
      /\ gauges' = ShownAfterUpdate(breakers[ref], config)
  BY <1>3, <1>4, <1>5, <1>6, <1>7
<1>9. /\ new \in Breaker /\ new.name = name
      /\ new.setting.Config = fillDefaultsAndGetSetting(config).Config
      /\ gauges' \in [Names -> Gauges]
      /\ \A m \in Names : m # new.name => gauges'[m] = gauges[m]
      /\ Shows(new.name, ref) /\ ~new.setting.Config.MetricsDisabled =>
           gauges'[new.name] = [state |-> new.state, thresholds |-> setThresholdsMetrics(new)]
  BY <1>5, <1>6, <1>7, <1>8, UpdateShows
<1>10. /\ pc' \in [Clients -> PCs] /\ pc'[c] = "updating"
       /\ job' \in [Clients -> Job]
       /\ job'[c].breaker = job[c].breaker /\ job'[c].batch = job[c].batch
       /\ job'[c].todo = job[c].todo \ {name}
       /\ OnlyMoves(c)
  <2>1. pc' \in [Clients -> PCs] /\ pc'[c] = "updating"
    BY <1>3, <1>4 DEF IInv, TypeOK, PCs
  <2>2. /\ job' \in [Clients -> Job]
        /\ job'[c].breaker = job[c].breaker /\ job'[c].batch = job[c].batch
        /\ job'[c].todo = job[c].todo \ {name}
    BY <1>1, <1>3 DEF IInv, Job
  <2> QED
    BY <1>3, <2>1, <2>2 DEF IInv, TypeOK, OnlyMoves
<1>11. ClientFits(c)'
  <2>1. JobFits(c)' /\ FoundFits(c)' /\ pc'[c] # "panicked"
    BY <1>1, <1>10 DEF JobFits, FoundFits
  <2>2. BatchFits(c)'
    BY <1>0, <1>1, <1>10 DEF BatchFits, Acceptable, Registered
  <2>3. BatchHolds(c)'
    <3> SUFFICES ASSUME NEW m \in DOMAIN job[c].batch \ (job[c].todo \ {name})
                 PROVE  SettingOf(m)'.Config = fillDefaultsAndGetSetting(job[c].batch[m]).Config
      BY <1>10 DEF BatchHolds
    <3>1. m \in Names /\ Registered(m)
      BY <1>1, <1>2 DEF Acceptable
    <3>2. Registered(m)' /\ SettingOf(m)' = breakers'[breakersSyncMap[m]].setting
      BY <1>0, <3>1 DEF SettingOf, Registered
    <3>3. ref \in BreakerRefs /\ breakersSyncMap[m] \in BreakerRefs
      BY <1>6, <3>1, RegisteredFacts DEF Changeable
    <3>4. CASE m = name
      BY <1>5, <1>6, <1>8, <1>9, <3>2, <3>3, <3>4 DEF IInv, TypeOK
    <3>5. CASE m # name
      <4>1. breakersSyncMap[m] # ref
        BY <1>6, <3>1, <3>5, RegisteredFacts
      <4>2. SettingOf(m)' = SettingOf(m)
        BY <1>8, <3>1, <3>2, <3>3, <4>1 DEF SettingOf, IInv, TypeOK
      <4> QED
        BY <1>0, <1>1, <3>1, <3>5, <4>2 DEF ClientFits, BatchHolds
    <3> QED
      BY <3>4, <3>5
  <2> QED
    BY <2>1, <2>2, <2>3 DEF ClientFits
<1>12. pc[c] \in LockedPlaces /\ pc'[c] \in LockedPlaces
  BY <1>0, <1>10 DEF LockedPlaces
<1> QED
  BY <1>0, <1>4, <1>6, <1>8, <1>9, <1>10, <1>11, <1>12, LockedStep

LEMMA ResetOneStep ==
  ASSUME IInv, NEW c \in Clients, ResetOne(c)
  PROVE  IInv'
<1>0. /\ pc[c] = "resetting" /\ pc' = [pc EXCEPT ![c] = "deleting"]
      /\ UNCHANGED <<breakersSyncMap, breakersMutex, handed, doubled>>
  BY DEF ResetOne, Goto
<1>1. job[c] \in Job /\ job[c].breaker = Nil
  BY <1>0 DEF IInv, ClientFits, JobFits
<1>2. PICK name \in job[c].todo :
        /\ Registered(name)
        /\ job' = [job EXCEPT ![c].todo = job[c].todo \ {name}, ![c].name = name]
        /\ breakers' = [breakers EXCEPT ![breakersSyncMap[name]] =
                          StateTransition(breakers[breakersSyncMap[name]], "Closed")]
        /\ gauges' = ShownAfterTransition(breakers[breakersSyncMap[name]], "Closed")
  BY DEF ResetOne
<1>3. name \in Names
  BY <1>1 DEF Job
<1>4. PICK ref :
        /\ ref = breakersSyncMap[name] /\ Changeable(ref) /\ breakers[ref].name = name
  BY <1>2, <1>3, RegisteredFacts
<1>5. PICK new : new = StateTransition(breakers[ref], "Closed")
  OBVIOUS
<1>6. /\ breakers' = [breakers EXCEPT ![ref] = new]
      /\ gauges' = ShownAfterTransition(breakers[ref], "Closed")
  BY <1>2, <1>4, <1>5
<1>7. /\ new \in Breaker /\ new.name = name
      /\ gauges' \in [Names -> Gauges]
      /\ \A m \in Names : m # new.name => gauges'[m] = gauges[m]
      /\ Shows(new.name, ref) /\ ~new.setting.Config.MetricsDisabled =>
           gauges'[new.name] = [state |-> new.state, thresholds |-> setThresholdsMetrics(new)]
  BY <1>4, <1>5, <1>6, TransitionShows
<1>8. /\ pc' \in [Clients -> PCs] /\ pc'[c] = "deleting"
      /\ job' \in [Clients -> Job]
      /\ job'[c].breaker = job[c].breaker /\ job'[c].name = name
      /\ OnlyMoves(c)
  <2>1. pc' \in [Clients -> PCs] /\ pc'[c] = "deleting"
    BY <1>0 DEF IInv, TypeOK, PCs
  <2>2. /\ job' \in [Clients -> Job]
        /\ job'[c].breaker = job[c].breaker /\ job'[c].name = name
    BY <1>1, <1>2, <1>3 DEF IInv, Job
  <2> QED
    BY <1>0, <1>2, <2>1, <2>2 DEF IInv, TypeOK, OnlyMoves
<1>9. ClientFits(c)'
  BY <1>1, <1>3, <1>8 DEF ClientFits, JobFits, FoundFits, BatchFits, BatchHolds
<1>10. pc[c] \in LockedPlaces /\ pc'[c] \in LockedPlaces
  BY <1>0, <1>8 DEF LockedPlaces
<1> QED
  BY <1>0, <1>2, <1>3, <1>4, <1>6, <1>7, <1>8, <1>9, <1>10, LockedStep

LEMMA DeleteOneStep ==
  ASSUME IInv, NEW c \in Clients, DeleteOne(c)
  PROVE  IInv'
<1>0. PICK name : name = job[c].name
  OBVIOUS
<1>1. /\ pc[c] = "deleting" /\ pc' = [pc EXCEPT ![c] = "resetting"]
      /\ breakersSyncMap' = [breakersSyncMap EXCEPT ![name] = Nil]
      /\ breakers' = Swept(breakers, breakersSyncMap', job)
      /\ handed' = [handed EXCEPT ![name] = {}]
      /\ doubled' = doubled \cup {name}
      /\ UNCHANGED <<breakersMutex, gauges, job>>
  BY <1>0 DEF DeleteOne, Goto
<1>2. name \in Names /\ job[c].breaker = Nil
  BY <1>0, <1>1 DEF IInv, ClientFits, JobFits
<1>3. /\ pc' \in [Clients -> PCs] /\ pc'[c] = "resetting" /\ OnlyMoves(c)
  BY <1>1 DEF IInv, TypeOK, PCs, OnlyMoves
<1>4. /\ breakers' \in [BreakerRefs -> Breaker \cup {Nil}]
      /\ \A r \in BreakerRefs : InUse(r)' => breakers'[r] = breakers[r]
  BY <1>1, SweptFacts DEF IInv, TypeOK
<1>5. /\ breakersSyncMap' \in [Names -> BreakerRefs \cup {Nil}]
      /\ ~Registered(name)'
      /\ \A m \in Names : m # name => breakersSyncMap'[m] = breakersSyncMap[m]
      /\ \A m \in Names : Registered(m)' =>
           /\ m # name /\ Registered(m) /\ breakersSyncMap[m] \in BreakerRefs
           /\ breakers'[breakersSyncMap[m]] = breakers[breakersSyncMap[m]]
  <2>1. /\ breakersSyncMap' \in [Names -> BreakerRefs \cup {Nil}]
        /\ ~Registered(name)'
        /\ \A m \in Names : m # name => breakersSyncMap'[m] = breakersSyncMap[m]
    BY <1>1, <1>2 DEF IInv, TypeOK, Registered
  <2> QED
    BY <1>4, <2>1 DEF Registered, InUse
<1>6. TypeOK'
  <2>1. handed' \in [Names -> SUBSET BreakerRefs] /\ doubled' \subseteq Names
    BY <1>1, <1>2 DEF IInv, TypeOK
  <2> QED
    BY <1>1, <1>3, <1>4, <1>5, <2>1 DEF IInv, TypeOK
<1>7. MutexHeld' /\ breakersMutex = c
  BY <1>1, <1>3 DEF IInv, MutexHeld, LockedPlaces, OnlyMoves
<1>8. ASSUME NEW d \in Clients PROVE ClientFits(d)'
  <2>1. CASE d = c
    BY <1>1, <1>2, <1>3, <2>1 DEF ClientFits, JobFits, FoundFits, BatchFits, BatchHolds
  <2>2. CASE d # c
    <3>1. pc[d] \notin {"checking", "updating"}
      BY <1>7, <2>2 DEF IInv, MutexHeld, LockedPlaces
    <3>2. NamesKept
      BY <1>4 DEF NamesKept
    <3> QED
      BY <1>1, <1>3, <1>5, <2>2, <3>1, <3>2, OtherClient DEF OnlyMoves
  <2> QED
    BY <2>1, <2>2
<1>9. Live'
  BY <1>5 DEF IInv, Live
<1>10. \A d \in Clients : pc'[d] = "built" => pc[d] = "built" /\ job[d].breaker \in BreakerRefs
  BY <1>3 DEF OnlyMoves, IInv, ClientFits, JobFits
<1>11. Fresh'
  <2> SUFFICES ASSUME NEW d \in Clients, pc'[d] = "built"
               PROVE  /\ \A m \in Names : breakersSyncMap'[m] # job[d].breaker
                      /\ \A e \in Clients : e # d => job[e].breaker # job[d].breaker
    BY <1>1 DEF Fresh
  <2>1. /\ \A m \in Names : breakersSyncMap[m] # job[d].breaker
        /\ \A e \in Clients : e # d => job[e].breaker # job[d].breaker
    BY <1>10 DEF IInv, Fresh
  <2> QED
    BY <1>5, <1>10, <2>1, RegistryAssumption DEF Registered
<1>12. Handed'
  <2> SUFFICES ASSUME NEW m \in Names
               PROVE  handed'[m] \subseteq
                        IF Registered(m)' THEN {breakersSyncMap'[m]} ELSE {}
    BY DEF Handed
  <2>1. CASE m = name
    BY <1>1, <1>2, <2>1 DEF IInv, TypeOK
  <2>2. CASE m # name
    BY <1>1, <1>2, <1>5, <2>2 DEF IInv, TypeOK, Handed, Registered
  <2> QED
    BY <2>1, <2>2
<1>13. GaugesFollow'
  <2> SUFFICES ASSUME NEW m \in Names \ doubled'
               PROVE  /\ Registered(m)' /\ (\A d \in Clients : ~Building(d, m)') =>
                           Shows(m, breakersSyncMap[m])'
                      /\ \A d \in Clients :
                           /\ ~Registered(m)' /\ Building(d, m)'
                           /\ \A e \in Clients : e # d => ~Building(e, m)'
                           => Shows(m, job[d].breaker)'
    BY DEF GaugesFollow
  <2>1. m # name /\ m \in Names \ doubled /\ breakersSyncMap'[m] = breakersSyncMap[m]
    BY <1>1, <1>5
  <2>2. \A d \in Clients : Building(d, m)' <=> Building(d, m)
    BY <1>1, <1>3 DEF Building, OnlyMoves
  <2>3. Registered(m)' <=> Registered(m)
    BY <2>1 DEF Registered
  <2>4. ASSUME Registered(m), \A d \in Clients : ~Building(d, m)
        PROVE  Shows(m, breakersSyncMap[m])'
    <3>1. Shows(m, breakersSyncMap[m])
      BY <2>1, <2>4 DEF IInv, GaugesFollow
    <3> QED
      BY <1>1, <1>5, <2>1, <2>3, <2>4, <3>1 DEF Shows, setThresholdsMetrics
  <2>5. ASSUME NEW d \in Clients, ~Registered(m), Building(d, m),
               \A e \in Clients : e # d => ~Building(e, m)
        PROVE  Shows(m, job[d].breaker)'
    <3>1. Shows(m, job[d].breaker)
      BY <2>1, <2>5 DEF IInv, GaugesFollow
    <3>2. job[d].breaker \in BreakerRefs /\ InUse(job[d].breaker)'
      BY <1>1, <2>5 DEF Building, IInv, ClientFits, JobFits, InUse
    <3> QED
      BY <1>1, <1>4, <3>1, <3>2 DEF Shows, setThresholdsMetrics
  <2> QED
    BY <2>2, <2>3, <2>4, <2>5
<1> QED
  BY <1>1, <1>6, <1>7, <1>8, <1>9, <1>11, <1>12, <1>13 DEF IInv

(* A Get that builds a breaker at a free address.                          *)
LEMMA BuildStep ==
  ASSUME IInv, NEW c \in Clients, pc[c] = "missing", OnlyMoves(c),
         NEW name, name = job[c].name, NEW ref \in FreeRefs,
         NEW new \in Breaker, new.name = name,
         breakers' = [breakers EXCEPT ![ref] = new],
         gauges' \in [Names -> Gauges],
         \A m \in Names : m # name => gauges'[m] = gauges[m],
         ~new.setting.Config.MetricsDisabled =>
           gauges'[name] = [state |-> new.state, thresholds |-> setThresholdsMetrics(new)],
         job' = [job EXCEPT ![c].breaker = ref],
         pc' = [pc EXCEPT ![c] = "built"],
         UNCHANGED <<breakersSyncMap, breakersMutex, handed, doubled>>
  PROVE  IInv'
<1>1. /\ ref \in BreakerRefs /\ breakers[ref] = Nil /\ ref # Nil
      /\ new # Nil
  BY RegistryAssumption, NilIsNothing DEF FreeRefs
<1>2. name \in Names /\ job[c] \in Job
  BY DEF IInv, ClientFits, JobFits
<1>3. /\ breakers' \in [BreakerRefs -> Breaker \cup {Nil}]
      /\ breakers'[ref] = new
      /\ \A r \in BreakerRefs : r # ref => breakers'[r] = breakers[r]
  BY <1>1 DEF IInv, TypeOK
<1>4. /\ job' \in [Clients -> Job]
      /\ job'[c].breaker = ref /\ job'[c].name = name
  BY <1>1, <1>2 DEF IInv, Job
<1>5. pc' \in [Clients -> PCs] /\ pc'[c] = "built"
  BY DEF IInv, TypeOK, PCs
<1>6. TypeOK'
  BY <1>3, <1>5 DEF IInv, TypeOK
<1>7. MutexHeld'
  BY <1>5 DEF IInv, MutexHeld, LockedPlaces, OnlyMoves
<1>8. \A m \in Names :
        /\ breakersSyncMap[m] # ref
        /\ Registered(m)' <=> Registered(m)
        /\ Registered(m) => breakersSyncMap[m] \in BreakerRefs
  BY <1>1 DEF IInv, TypeOK, Live, Registered
<1>9. \A d \in Clients : job[d].breaker # ref
  BY <1>1 DEF IInv, ClientFits, JobFits
<1>10. ASSUME NEW d \in Clients PROVE ClientFits(d)'
  <2>1. CASE d = c
    BY <1>1, <1>2, <1>3, <1>4, <1>5, <2>1
       DEF ClientFits, JobFits, FoundFits, BatchFits, BatchHolds
  <2>2. CASE d # c
    <3>1. NamesKept
      BY <1>1, <1>3 DEF NamesKept
    <3>2. \A m \in Names : Registered(m) =>
            breakers'[breakersSyncMap[m]] = breakers[breakersSyncMap[m]]
      BY <1>3, <1>8
    <3> QED
      BY <2>2, <3>1, <3>2, OtherClient DEF OnlyMoves
  <2> QED
    BY <2>1, <2>2
<1>11. Live'
  BY <1>3, <1>8 DEF IInv, Live
<1>12. Fresh'
  <2> SUFFICES ASSUME NEW d \in Clients, pc'[d] = "built"
               PROVE  /\ \A m \in Names : breakersSyncMap[m] # job'[d].breaker
                      /\ \A e \in Clients : e # d => job'[e].breaker # job'[d].breaker
    BY DEF Fresh
  <2>1. CASE d = c
    BY <1>4, <1>8, <1>9, <2>1 DEF OnlyMoves
  <2>2. CASE d # c
    <3>1. pc[d] = "built" /\ job'[d] = job[d]
      BY <2>2 DEF OnlyMoves
    <3> QED
      BY <1>4, <1>9, <3>1 DEF IInv, Fresh, OnlyMoves
  <2> QED
    BY <2>1, <2>2
<1>13. Handed'
  BY <1>8 DEF IInv, Handed
<1>14. GaugesFollow'
  <2> SUFFICES ASSUME NEW m \in Names \ doubled
               PROVE  /\ Registered(m)' /\ (\A d \in Clients : ~Building(d, m)') =>
                           Shows(m, breakersSyncMap[m])'
                      /\ \A d \in Clients :
                           /\ ~Registered(m)' /\ Building(d, m)'
                           /\ \A e \in Clients : e # d => ~Building(e, m)'
                           => Shows(m, job[d].breaker)'
    BY DEF GaugesFollow
  <2>1. CASE m = name
    <3>1. Building(c, m)'
      BY <1>4, <1>5, <2>1 DEF Building
    <3>2. Shows(m, job[c].breaker)'
      BY <1>3, <1>4, <2>1 DEF Shows, setThresholdsMetrics
    <3> QED
      BY <3>1, <3>2
  <2>2. CASE m # name
    <3>1. \A d \in Clients :
            /\ Building(d, m)' <=> Building(d, m)
            /\ Building(d, m) => d # c
      BY <1>4, <1>5, <2>2 DEF Building, OnlyMoves
    <3>2. ASSUME Registered(m), \A d \in Clients : ~Building(d, m)
          PROVE  Shows(m, breakersSyncMap[m])'
      <4>1. Shows(m, breakersSyncMap[m])
        BY <3>2 DEF IInv, GaugesFollow
      <4>2. breakers'[breakersSyncMap[m]] = breakers[breakersSyncMap[m]]
        BY <1>3, <1>8, <3>2
      <4> QED
        BY <2>2, <4>1, <4>2 DEF Shows, setThresholdsMetrics
    <3>3. ASSUME NEW d \in Clients, ~Registered(m), Building(d, m),
                 \A e \in Clients : e # d => ~Building(e, m)
          PROVE  Shows(m, job[d].breaker)'
      <4>1. Shows(m, job[d].breaker)
        BY <3>3 DEF IInv, GaugesFollow
      <4>2. job'[d] = job[d] /\ breakers'[job[d].breaker] = breakers[job[d].breaker]
        BY <1>3, <1>9, <3>1, <3>3 DEF OnlyMoves, Building, IInv, ClientFits, JobFits
      <4> QED
        BY <2>2, <4>1, <4>2 DEF Shows, setThresholdsMetrics
    <3> QED
      BY <1>8, <3>1, <3>2, <3>3
  <2> QED
    BY <2>1, <2>2
<1> QED
  BY <1>4, <1>6, <1>7, <1>10, <1>11, <1>12, <1>13, <1>14 DEF IInv

LEMMA newCircuitBreakerStep ==
  ASSUME IInv, NEW c \in Clients, newCircuitBreaker(c)
  PROVE  IInv'
<1>0. /\ pc[c] = "missing"
      /\ UNCHANGED <<breakersSyncMap, breakersMutex, handed, doubled>>
  BY DEF newCircuitBreaker
<1>1. PICK name, config : name = job[c].name /\ config = job[c].config
  OBVIOUS
<1>2. name \in Names /\ config \in Configs
  BY <1>0, <1>1 DEF IInv, ClientFits, JobFits
<1>3. CASE ~IsValidConfig(config)
  <2>1. Return(c) /\ UNCHANGED <<breakers, gauges>>
    BY <1>1, <1>3 DEF newCircuitBreaker
  <2>2. /\ job' \in [Clients -> Job] /\ job'[c].breaker = Nil
        /\ pc' \in [Clients -> PCs] /\ pc'[c] = "idle"
        /\ OnlyMoves(c) /\ ClientFits(c)'
    BY <2>1, Returned
  <2>3. TypeOK'
    BY <1>0, <2>1, <2>2 DEF IInv, TypeOK
  <2>4. MutexHeld'
    BY <1>0, <2>2 DEF IInv, MutexHeld, LockedPlaces, OnlyMoves
  <2> QED
    BY <1>0, <2>1, <2>2, <2>3, <2>4, QuietStep
<1>4. CASE IsValidConfig(config)
  <2>1. PICK blank : blank = [Blank EXCEPT !.name = name]
    OBVIOUS
  <2>2. PICK new : new = updateSetting(blank, config)
    OBVIOUS
  <2>3. PICK ref \in FreeRefs :
          /\ breakers' = [breakers EXCEPT ![ref] = new]
          /\ gauges' = ShownAfterUpdate(blank, config)
          /\ job' = [job EXCEPT ![c].breaker = ref]
          /\ pc' = [pc EXCEPT ![c] = "built"]
    <3>1. PICK r : r = CHOOSE x \in FreeRefs : TRUE
      OBVIOUS
    <3>2. /\ FreeRefs # {}
          /\ breakers' = [breakers EXCEPT ![r] = new]
          /\ gauges' = ShownAfterUpdate(blank, config)
          /\ job' = [job EXCEPT ![c].breaker = r]
          /\ pc' = [pc EXCEPT ![c] = "built"]
      BY <1>1, <1>4, <2>1, <2>2, <3>1 DEF newCircuitBreaker, Goto
    <3>3. r \in FreeRefs
      BY <3>1, <3>2
    <3> QED
      BY <3>2, <3>3
  <2>4. new \in Breaker /\ new.name = name
    BY <1>2, <1>4, <2>1, <2>2, BlankUpdated
  <2>5. blank.name = name /\ ~SameSetting(blank, config)
    BY <2>1 DEF Blank, SameSetting
  <2>6. gauges \in [Names -> Gauges]
    BY DEF IInv, TypeOK
  <2>7. /\ gauges' \in [Names -> Gauges]
        /\ \A m \in Names : m # name => gauges'[m] = gauges[m]
        /\ ~new.setting.Config.MetricsDisabled =>
             gauges'[name] = [state |-> new.state, thresholds |-> setThresholdsMetrics(new)]
    BY <1>2, <2>2, <2>3, <2>4, <2>5, <2>6, ShownUpdated
  <2>8. OnlyMoves(c)
    BY <2>3 DEF IInv, TypeOK, OnlyMoves
  <2> QED
    BY <1>0, <1>1, <2>3, <2>4, <2>7, <2>8, BuildStep
<1> QED
  BY <1>3, <1>4

LEMMA LoadOrStoreStep ==
  ASSUME IInv, NEW c \in Clients, LoadOrStore(c)
  PROVE  IInv'
<1>0. PICK name, mine : name = job[c].name /\ mine = job[c].breaker
  OBVIOUS
<1>1. PICK first : first = IF Registered(name) THEN breakersSyncMap[name] ELSE mine
  OBVIOUS
<1>2. /\ pc[c] = "built" /\ Return(c)
      /\ breakersSyncMap' = [breakersSyncMap EXCEPT ![name] = first]
      /\ handed' = [handed EXCEPT ![name] = handed[name] \cup {first}]
      /\ doubled' = IF Registered(name) THEN doubled \cup {name} ELSE doubled
      /\ breakers' = Swept(breakers, breakersSyncMap', job')
      /\ UNCHANGED <<breakersMutex, gauges>>
  BY <1>0, <1>1 DEF LoadOrStore
<1>3. /\ name \in Names /\ mine \in BreakerRefs
      /\ breakers[mine] # Nil /\ breakers[mine].name = name
      /\ mine # Nil
  BY <1>0, <1>2, RegistryAssumption DEF IInv, ClientFits, JobFits
<1>4. /\ first \in BreakerRefs /\ first # Nil
      /\ breakers[first] # Nil /\ breakers[first].name = name
      /\ Registered(name) => first = breakersSyncMap[name]
  BY <1>1, <1>3 DEF IInv, TypeOK, Live, Registered
<1>5. /\ job' \in [Clients -> Job] /\ job'[c].breaker = Nil
      /\ pc' \in [Clients -> PCs] /\ pc'[c] = "idle"
      /\ OnlyMoves(c) /\ ClientFits(c)'
  BY <1>2, Returned
<1>6. /\ breakers' \in [BreakerRefs -> Breaker \cup {Nil}]
      /\ \A r \in BreakerRefs : InUse(r)' => breakers'[r] = breakers[r]
  BY <1>2, SweptFacts DEF IInv, TypeOK
<1>7. /\ breakersSyncMap' \in [Names -> BreakerRefs \cup {Nil}]
      /\ breakersSyncMap'[name] = first
      /\ \A m \in Names : m # name => breakersSyncMap'[m] = breakersSyncMap[m]
  BY <1>2, <1>3, <1>4 DEF IInv, TypeOK
<1>8. /\ \A m \in Names : Registered(m) => breakersSyncMap'[m] = breakersSyncMap[m]
      /\ \A m \in Names : Registered(m)' =>
           /\ breakersSyncMap'[m] \in BreakerRefs
           /\ breakers'[breakersSyncMap'[m]] = breakers[breakersSyncMap'[m]]
      /\ \A m \in Names : m # name => (Registered(m)' <=> Registered(m))
      /\ Registered(name)'
  BY <1>4, <1>6, <1>7 DEF Registered, InUse
<1>9. handed' \in [Names -> SUBSET BreakerRefs] /\ doubled \subseteq doubled' /\ doubled' \subseteq Names
  BY <1>2, <1>3, <1>4 DEF IInv, TypeOK
<1>10. TypeOK'
  BY <1>2, <1>5, <1>6, <1>7, <1>9 DEF IInv, TypeOK
<1>11. MutexHeld'
  BY <1>2, <1>5 DEF IInv, MutexHeld, LockedPlaces, OnlyMoves
<1>12. ASSUME NEW d \in Clients PROVE ClientFits(d)'
  <2>1. CASE d # c
    <3>1. NamesKept
      BY <1>6 DEF NamesKept
    <3>2. \A m \in Names : Registered(m) =>
            breakers'[breakersSyncMap[m]].setting = breakers[breakersSyncMap[m]].setting
      BY <1>4, <1>8 DEF Registered
    <3> QED
      BY <1>5, <1>8, <1>9, <2>1, <3>1, <3>2, OtherClient DEF OnlyMoves
  <2> QED
    BY <1>5, <2>1
<1>13. Live'
  <2> SUFFICES ASSUME NEW m \in Names, Registered(m)'
               PROVE  /\ breakers'[breakersSyncMap'[m]] # Nil
                      /\ breakers'[breakersSyncMap'[m]].name = m
    BY DEF Live
  <2>1. CASE m = name
    BY <1>4, <1>7, <1>8, <2>1
  <2>2. CASE m # name
    BY <1>7, <1>8, <2>2 DEF IInv, Live
  <2> QED
    BY <2>1, <2>2
<1>14. Fresh'
  <2> SUFFICES ASSUME NEW d \in Clients, pc'[d] = "built"
               PROVE  /\ \A m \in Names : breakersSyncMap'[m] # job'[d].breaker
                      /\ \A e \in Clients : e # d => job'[e].breaker # job'[d].breaker
    BY DEF Fresh
  <2>1. d # c /\ pc[d] = "built" /\ job'[d] = job[d] /\ job[d].breaker # Nil
    BY <1>5, RegistryAssumption DEF OnlyMoves, IInv, ClientFits, JobFits
  <2>2. /\ \A m \in Names : breakersSyncMap[m] # job[d].breaker
        /\ \A e \in Clients : e # d => job[e].breaker # job[d].breaker
    BY <2>1 DEF IInv, Fresh
  <2>3. first # job[d].breaker
    BY <1>0, <1>1, <1>3, <2>1, <2>2
  <2> QED
    BY <1>5, <1>7, <2>1, <2>2, <2>3 DEF OnlyMoves
<1>15. Handed'
  <2> SUFFICES ASSUME NEW m \in Names
               PROVE  handed'[m] \subseteq
                        IF Registered(m)' THEN {breakersSyncMap'[m]} ELSE {}
    BY DEF Handed
  <2>1. handed[m] \subseteq IF Registered(m) THEN {breakersSyncMap[m]} ELSE {}
    BY DEF IInv, Handed
  <2>2. CASE m = name
    <3>1. handed'[m] = handed[m] \cup {first}
      BY <1>2, <2>2 DEF IInv, TypeOK
    <3> QED
      BY <1>4, <1>7, <1>8, <2>1, <2>2, <3>1
  <2>3. CASE m # name
    <3>1. handed'[m] = handed[m]
      BY <1>2, <2>3 DEF IInv, TypeOK
    <3> QED
      BY <1>7, <1>8, <2>1, <2>3, <3>1
  <2> QED
    BY <2>2, <2>3
<1>16. GaugesFollow'
  <2> SUFFICES ASSUME NEW m \in Names \ doubled'
               PROVE  /\ Registered(m)' /\ (\A d \in Clients : ~Building(d, m)') =>
                           Shows(m, breakersSyncMap[m])'
                      /\ \A d \in Clients :
                           /\ ~Registered(m)' /\ Building(d, m)'
                           /\ \A e \in Clients : e # d => ~Building(e, m)'
                           => Shows(m, job[d].breaker)'
    BY DEF GaugesFollow
  <2>0. m \in Names \ doubled
    BY <1>9
  <2>1. CASE m = name
    <3>1. ~Registered(name) /\ first = mine
      BY <1>1, <1>2, <2>1
    <3>2. Building(c, name)
      BY <1>0, <1>2 DEF Building
    <3>3. ASSUME \A d \in Clients : ~Building(d, name)'
          PROVE  Shows(name, breakersSyncMap[name])'
      <4>1. \A d \in Clients : d # c => ~Building(d, name)
        BY <1>5, <3>3 DEF Building, OnlyMoves
      <4>2. Shows(name, mine)
        BY <1>0, <2>0, <2>1, <3>1, <3>2, <4>1 DEF IInv, GaugesFollow
      <4> QED
        BY <1>2, <1>3, <1>7, <1>8, <3>1, <4>2 DEF Shows, setThresholdsMetrics
    <3> QED
      BY <1>8, <2>1, <3>3
  <2>2. CASE m # name
    <3>1. \A d \in Clients :
            /\ Building(d, m)' <=> Building(d, m)
            /\ Building(d, m) => d # c
      BY <1>0, <1>2, <1>5, <2>2 DEF Building, OnlyMoves
    <3>2. ASSUME Registered(m), \A d \in Clients : ~Building(d, m)
          PROVE  Shows(m, breakersSyncMap[m])'
      <4>1. Shows(m, breakersSyncMap[m])
        BY <2>0, <3>2 DEF IInv, GaugesFollow
      <4> QED
        BY <1>2, <1>7, <1>8, <2>2, <3>2, <4>1 DEF Shows, setThresholdsMetrics
    <3>3. ASSUME NEW d \in Clients, ~Registered(m), Building(d, m),
                 \A e \in Clients : e # d => ~Building(e, m)
          PROVE  Shows(m, job[d].breaker)'
      <4>1. Shows(m, job[d].breaker)
        BY <2>0, <3>3 DEF IInv, GaugesFollow
      <4>2. job'[d] = job[d] /\ job[d].breaker \in BreakerRefs
        BY <1>5, <3>1, <3>3 DEF OnlyMoves, Building, IInv, ClientFits, JobFits
      <4>3. InUse(job[d].breaker)'
        BY <4>2 DEF InUse
      <4> QED
        BY <1>2, <1>6, <4>1, <4>2, <4>3 DEF Shows, setThresholdsMetrics
    <3> QED
      BY <1>8, <2>2, <3>1, <3>2, <3>3
  <2> QED
    BY <2>1, <2>2
<1> QED
  BY <1>5, <1>10, <1>11, <1>12, <1>13, <1>14, <1>15, <1>16 DEF IInv

-----------------------------------------------------------------------------
(* The invariant.                                                          *)

LEMMA InitInvariant == Init => IInv
<1> SUFFICES ASSUME Init PROVE IInv
  OBVIOUS
<1>1. /\ \A name \in Names : ~Registered(name)
      /\ \A c \in Clients : pc[c] = "idle" /\ job[c] = NoJob
  BY DEF Init, Registered
<1>2. TypeOK
  BY DEF Init, TypeOK, Gauges, PCs
<1>3. job \in [Clients -> Job]
  BY NoJobType DEF Init
<1>4. \A c \in Clients : ClientFits(c)
  <2>1. NoJob.breaker = Nil
    BY DEF NoJob
  <2> QED
    BY <1>1, <2>1 DEF ClientFits, JobFits, FoundFits, BatchFits, BatchHolds
<1>5. Live /\ Fresh
  BY <1>1 DEF Live, Fresh
<1>6. MutexHeld
  BY <1>1, RegistryAssumption DEF Init, MutexHeld, LockedPlaces
<1>7. Handed
  BY DEF Init, Handed
<1>8. GaugesFollow
  BY <1>1 DEF GaugesFollow, Building
<1> QED
  BY <1>2, <1>3, <1>4, <1>5, <1>6, <1>7, <1>8 DEF IInv

LEMMA StepInvariant == IInv /\ [Next]_vars => IInv'
<1> SUFFICES ASSUME IInv, [Next]_vars PROVE IInv'
  OBVIOUS
<1>1. CASE UNCHANGED vars
  BY <1>1
     DEF vars, IInv, TypeOK, ClientFits, JobFits, FoundFits, BatchFits, BatchHolds, Acceptable,
         Registered, SettingOf, Live, Fresh, MutexHeld, Handed, GaugesFollow, Building, Shows,
         setThresholdsMetrics
<1>2. ASSUME NEW c \in Clients, Start(c) PROVE IInv'
  BY <1>2, GetLoadStep, FindStep, LockForBatchStep, LockForResetStep DEF Start
<1>3. ASSUME NEW c \in Clients, Continue(c) PROVE IInv'
  BY <1>3, newCircuitBreakerStep, LoadOrStoreStep, ForceStateStep, UpdateConfigStep,
     RefuseConfigStep, CheckEntryStep, UpdateEntryStep, BatchDoneStep, ResetOneStep,
     DeleteOneStep, ResetDoneStep
     DEF Continue
<1> QED
  BY <1>1, <1>2, <1>3 DEF Next

(***************************************************************************)
(* What holds of the registry at every moment: what each client has in     *)
(* hand is alive and belongs to its name, a breaker that is being built is *)
(* nobody else's, and who holds breakersMutex finds nothing deleted.       *)
(***************************************************************************)
THEOREM Invariance == Spec => []IInv
BY InitInvariant, StepInvariant, PTL DEF Spec

(***************************************************************************)
(* Every variable keeps its type, however Get, the by-name operations,     *)
(* UpdateConfigs and resetBreakers interleave.                             *)
(***************************************************************************)
THEOREM TypeCorrect == Spec => []TypeOK
<1>1. IInv => TypeOK
  BY DEF IInv
<1> QED
  BY <1>1, Invariance, PTL

(***************************************************************************)
(* Get returns the same breaker for a name to all who ask (LoadOrStore),   *)
(* until resetBreakers deletes the name.                                   *)
(***************************************************************************)
THEOREM OneBreaker == Spec => []OneBreakerPerName
<1>1. IInv => OneBreakerPerName
  BY DEF IInv, Handed, OneBreakerPerName
<1> QED
  BY <1>1, Invariance, PTL

(***************************************************************************)
(* breakersMutex makes UpdateConfigs atomic to all other updates of        *)
(* configurations and to resets.                                           *)
(***************************************************************************)
THEOREM BatchAtomicity == Spec => []BatchIsAtomic
<1>1. IInv => BatchIsAtomic
  BY DEF IInv, ClientFits, BatchHolds, BatchIsAtomic
<1> QED
  BY <1>1, Invariance, PTL

(***************************************************************************)
(* The second loop of UpdateConfigs never meets a name whose breaker is    *)
(* gone since the first.                                                   *)
(***************************************************************************)
THEOREM NoPanic == Spec => []BatchNeverPanics
<1>1. IInv => BatchNeverPanics
  BY DEF IInv, ClientFits, BatchNeverPanics
<1> QED
  BY <1>1, Invariance, PTL

(***************************************************************************)
(* The gauges of a name that has had one breaker show that breaker, though *)
(* each is written by newCircuitBreaker before Get registers it.           *)
(***************************************************************************)
THEOREM GaugesCorrect == Spec => []GaugesShowBreaker
<1>1. IInv => GaugesShowBreaker
  BY DEF IInv, GaugesFollow, Shows, Building, GaugesShowBreaker
<1> QED
  BY <1>1, Invariance, PTL
=============================================================================
