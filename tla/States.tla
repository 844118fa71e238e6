------------------------------- MODULE States -------------------------------
(* The states of a breaker and the table of its automatic transitions      *)
(* (state.go, constant.go).                                                *)

Kinds == {"Closed", "Open", "SemiOpen", "ForcedOpen", "ForcedClosed"}

validAutomaticStateTransitions ==
  {<<"Closed", "Open">>, <<"Open", "SemiOpen">>, <<"SemiOpen", "Closed">>,
   <<"SemiOpen", "Open">>}
=============================================================================
