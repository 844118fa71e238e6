------------------------- MODULE ConcurrencyLimiter -------------------------
(***************************************************************************)
(* What the concurrencyLimiter interface promises to its callers, and all  *)
(* that Breaker assumes of it: a call asks, is admitted when there is room *)
(* or refused when it may be, and gives back what it holds.                *)
(***************************************************************************)
EXTENDS Limiters

CONSTANTS Callers, Factors

VARIABLES
  limiter,   (* a Limiter                                              *)
  asking,    (* the calls inside acquire                               *)
  admitted,  (* the calls that hold their share                        *)
  weight     (* what each call asked for                               *)

limiterVars == <<limiter, asking, admitted, weight>>

Init ==
  /\ limiter \in Limiter
  /\ limiter.cur = 0
  /\ asking = {}
  /\ admitted = {}
  /\ weight \in [Callers -> Factors]

Ask(c) ==
  /\ c \notin asking \cup admitted
  /\ asking' = asking \cup {c}
  /\ \E n \in Factors : weight' = [weight EXCEPT ![c] = n]
  /\ UNCHANGED <<limiter, admitted>>

Admit(c) ==
  /\ c \in asking
  /\ HasRoom(limiter, weight[c])
  /\ limiter' = Acquired(limiter, weight[c])
  /\ asking' = asking \ {c}
  /\ admitted' = admitted \cup {c}
  /\ UNCHANGED weight

Refuse(c) ==
  /\ c \in asking
  /\ MayRefuse(limiter, weight[c])
  /\ asking' = asking \ {c}
  /\ UNCHANGED <<limiter, admitted, weight>>

GiveBack(c) ==
  /\ c \in admitted
  /\ limiter' = Released(limiter, weight[c])
  /\ admitted' = admitted \ {c}
  /\ UNCHANGED <<asking, weight>>

Next == \E c \in Callers : Ask(c) \/ Admit(c) \/ Refuse(c) \/ GiveBack(c)

Spec == Init /\ [][Next]_limiterVars
=============================================================================
