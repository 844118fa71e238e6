------------------------------ MODULE Settings ------------------------------
(***************************************************************************)
(* config.go and health_checker.go: the raw Config a client passes, the    *)
(* setting a breaker derives from it, and the health check a state runs    *)
(* against a window.                                                       *)
(***************************************************************************)
EXTENDS Counters, Sequences

(* A Config as a client may write it.  Durations are numbers. *)
Config ==
  [ErrorPercentThreshold        : Int,
   TimeoutPercentThreshold      : Int,
   TimeoutThreshold             : Int,
   MinimumNumberOfCalls         : Int,
   NumberOfCallsInSemiOpenState : Int,
   WaitDurationInOpenState      : Int,
   MaxConcurrentCalls           : Int,
   MaxWaitDurationMillis        : Int,
   SlidingWindowSize            : Int,
   UseCachedTime                : BOOLEAN,
   MetricsDisabled              : BOOLEAN]

NewDefaultConfig ==
  [ErrorPercentThreshold        |-> 50,
   TimeoutPercentThreshold      |-> 0,
   TimeoutThreshold             |-> 0,
   MinimumNumberOfCalls         |-> 100,
   NumberOfCallsInSemiOpenState |-> 100,
   WaitDurationInOpenState      |-> 10000,
   MaxConcurrentCalls           |-> 10000,
   MaxWaitDurationMillis        |-> 0,
   SlidingWindowSize            |-> 10,
   UseCachedTime                |-> FALSE,
   MetricsDisabled              |-> FALSE]

(* IsValidConfig on a non-nil config. *)
IsValidConfig(config) ==
  /\ config.SlidingWindowSize >= 0
  /\ config.TimeoutThreshold >= 0
  /\ config.MinimumNumberOfCalls >= 0
  /\ config.TimeoutPercentThreshold <= 100
  /\ config.ErrorPercentThreshold <= 100
  /\ config.WaitDurationInOpenState >= 0
  /\ config.NumberOfCallsInSemiOpenState >= 0

ErrorPercentChecker   == "errorPercentChecker"
TimeoutPercentChecker == "timeoutPercentChecker"
Checkers == {ErrorPercentChecker, TimeoutPercentChecker}

(* A setting: the filled-in Config and the checks that are switched on.    *)
Setting == [Config : Config, checkers : SUBSET Checkers]

(***************************************************************************)
(* The slice of checkers is a set here: its order decides only the reason  *)
(* a transition is given, and no step of the breaker depends on which      *)
(* threshold was exceeded.                                                 *)
(***************************************************************************)
EnabledCheckers(config) ==
  {ch \in Checkers :
     \/ ch = ErrorPercentChecker /\ config.ErrorPercentThreshold > 0
     \/ ch = TimeoutPercentChecker /\ config.TimeoutPercentThreshold > 0
     \/ /\ ch = ErrorPercentChecker
        /\ config.ErrorPercentThreshold = 0
        /\ config.TimeoutPercentThreshold <= 0}

fillDefaultsAndGetSetting(config) ==
  LET Positive(f) == IF config[f] > 0 THEN config[f] ELSE NewDefaultConfig[f]
      NonZero(f)  == IF config[f] # 0 THEN config[f] ELSE NewDefaultConfig[f]
  IN  [Config |->
         [ErrorPercentThreshold        |-> Positive("ErrorPercentThreshold"),
          TimeoutPercentThreshold      |-> Positive("TimeoutPercentThreshold"),
          TimeoutThreshold             |-> NonZero("TimeoutThreshold"),
          MinimumNumberOfCalls         |-> NonZero("MinimumNumberOfCalls"),
          NumberOfCallsInSemiOpenState |-> NonZero("NumberOfCallsInSemiOpenState"),
          WaitDurationInOpenState      |-> NonZero("WaitDurationInOpenState"),
          MaxConcurrentCalls           |-> NonZero("MaxConcurrentCalls"),
          MaxWaitDurationMillis        |-> Positive("MaxWaitDurationMillis"),
          SlidingWindowSize            |-> NonZero("SlidingWindowSize"),
          UseCachedTime                |-> config.UseCachedTime,
          MetricsDisabled              |-> config.MetricsDisabled],
       checkers |-> EnabledCheckers(config)]

isThresholdExceed(checker, k, config) ==
  \/ /\ checker = TimeoutPercentChecker
     /\ TimeoutPercent(k) >= config.TimeoutPercentThreshold
  \/ /\ checker = ErrorPercentChecker
     /\ ErrorPercent(k) >= config.ErrorPercentThreshold

isThresholdsExceed(setting, k) ==
  \E checker \in setting.checkers : isThresholdExceed(checker, k, setting.Config)
=============================================================================
