----------------------------- MODULE MCRegistry -----------------------------
(* Constants for model checking Registry.                                  *)
EXTENDS Registry, TLC

CONSTANTS c1, c2, n1, n2

Symmetry == Permutations(Clients) \cup Permutations(Names)

(* Two valid configurations, the second without metrics, and an invalid one. *)
ThreeConfigs ==
  {NewDefaultConfig,
   [NewDefaultConfig EXCEPT !.MaxConcurrentCalls = 5, !.MetricsDisabled = TRUE],
   [NewDefaultConfig EXCEPT !.MinimumNumberOfCalls = -1]}
=============================================================================
