---------------------------- MODULE StateMachine ----------------------------
(***************************************************************************)
(* What a breaker promises about its state, with no callers, no objects    *)
(* and no locks: it moves by itself only along the table, it leaves        *)
(* SEMI_OPEN only when enough of the calls it let through have reported,   *)
(* and otherwise only clients move it.  Breaker is shown to implement it,  *)
(* whichever state object each of its calls is holding.                    *)
(***************************************************************************)
EXTENDS States, Integers

VARIABLES
  mode,      (* the state                                                  *)
  limits,    (* of SEMI_OPEN: calls let through, results needed to decide  *)
  permits,   (* of SEMI_OPEN: calls let through so far                     *)
  results    (* of SEMI_OPEN: those of them that have reported             *)

machineVars == <<mode, limits, permits, results>>

Init ==
  /\ mode = "Closed"
  /\ limits \in [calls : Int, needed : Int]
  /\ permits = 0
  /\ results = 0

Enter(to) ==
  /\ mode' = to
  /\ permits' = 0
  /\ results' = 0

Automatic(to) ==
  /\ <<mode, to>> \in validAutomaticStateTransitions
  /\ mode = "SemiOpen" => results >= limits.needed
  /\ Enter(to)
  /\ UNCHANGED limits

Force(to) == Enter(to) /\ UNCHANGED limits

Reconfigure ==
  /\ Enter("Closed")
  /\ limits' \in [calls : Int, needed : Int]

Permit ==
  /\ mode = "SemiOpen" /\ permits < limits.calls
  /\ permits' = permits + 1
  /\ UNCHANGED <<mode, limits, results>>

(* Only a call that has not reported gives its permit back.                *)
GiveBack ==
  /\ mode = "SemiOpen" /\ results < permits
  /\ permits' = permits - 1
  /\ UNCHANGED <<mode, limits, results>>

Result ==
  /\ mode = "SemiOpen" /\ results < permits
  /\ results' = results + 1
  /\ UNCHANGED <<mode, limits, permits>>

Next ==
  \/ \E to \in Kinds : Automatic(to)
  \/ \E to \in {"ForcedOpen", "ForcedClosed", "Closed"} : Force(to)
  \/ Reconfigure
  \/ Permit
  \/ GiveBack
  \/ Result

Spec == Init /\ [][Next]_machineVars
=============================================================================
