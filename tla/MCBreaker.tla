----------------------------- MODULE MCBreaker -----------------------------
(* Constants for model checking Breaker.                                   *)
EXTENDS Breaker, TLC

CONSTANTS c1, c2, c3

CallerSymmetry == Permutations(Callers)

BaseConfig ==
  [NewDefaultConfig EXCEPT
     !.MinimumNumberOfCalls = 1,
     !.NumberOfCallsInSemiOpenState = 1,
     !.MaxConcurrentCalls = 1]

(* Two probes must both report; two calls may run at a time.               *)
CallsConfigs ==
  {[BaseConfig EXCEPT !.MinimumNumberOfCalls = 2,
                      !.NumberOfCallsInSemiOpenState = 2,
                      !.MaxConcurrentCalls = 2]}

(* Two configurations that differ in the limiter and the metrics switch,   *)
(* and one that IsValidConfig refuses.                                     *)
UpdateConfigs ==
  {BaseConfig,
   [BaseConfig EXCEPT !.MaxConcurrentCalls = -1, !.MetricsDisabled = TRUE],
   [BaseConfig EXCEPT !.MinimumNumberOfCalls = -1]}

(* Timeouts are what opens the breaker, and calls may wait for the limiter. *)
TimeoutConfigs ==
  {[BaseConfig EXCEPT !.ErrorPercentThreshold = 0, !.TimeoutPercentThreshold = 50,
                      !.TimeoutThreshold = 1, !.MaxWaitDurationMillis = 5]}

(* Both probes must report, and at most one call runs at a time.           *)
LivenessConfigs ==
  {[BaseConfig EXCEPT !.MinimumNumberOfCalls = 2, !.NumberOfCallsInSemiOpenState = 2]}

OneConfig == {BaseConfig}

TwoLimits == {BaseConfig, [BaseConfig EXCEPT !.MaxConcurrentCalls = 2]}

(* Error checking at its default, and error checking switched off.         *)
ErrorCheckOnAndOff == {BaseConfig, [BaseConfig EXCEPT !.ErrorPercentThreshold = -1]}
=============================================================================
