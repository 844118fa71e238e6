------------------------------ MODULE Counters ------------------------------
(***************************************************************************)
(* The arithmetic of window.go: the counter a window keeps, and the        *)
(* percentages newSnapshot derives from it.  Both the time window and the  *)
(* count window are built from these operators.                            *)
(***************************************************************************)
EXTENDS Integers

(* windowOutcome: what onSuccess and onError tell a window. *)
Outcomes == {"success", "error", "timeoutSuccess", "timeoutError"}

ErrorOutcomes   == {"error", "timeoutError"}
TimeoutOutcomes == {"timeoutSuccess", "timeoutError"}

(* A counter in which a part never exceeds the whole. *)
Counter == {k \in [total : Nat, errors : Nat, timeouts : Nat] :
              k.errors <= k.total /\ k.timeouts <= k.total}

NoCounts == [total |-> 0, errors |-> 0, timeouts |-> 0]

add(k, outcome) ==
  [total    |-> k.total + 1,
   errors   |-> k.errors + (IF outcome \in ErrorOutcomes THEN 1 ELSE 0),
   timeouts |-> k.timeouts + (IF outcome \in TimeoutOutcomes THEN 1 ELSE 0)]

subtract(k, bucket) ==
  [total    |-> k.total - bucket.total,
   errors   |-> k.errors - bucket.errors,
   timeouts |-> k.timeouts - bucket.timeouts]

(***************************************************************************)
(* The units that the members of S have when each has its weight: there    *)
(* are as many as the weights add up to.  Sums are stated as the number of *)
(* units, about which more can be proved than about a recursive sum.       *)
(***************************************************************************)
Units(weight, S) == UNION {{c} \X (1..weight[c]) : c \in S}

(***************************************************************************)
(* int(float64(part) / float64(total) * 100) of newSnapshot.  Unless the   *)
(* quotient is an exact number p of percent, rounding cannot reach the     *)
(* next integer and the conversion is the integer quotient.  When it is,   *)
(* the value depends on p alone, and IEEE-754 double rounding leaves       *)
(* p/100*100 just below p for exactly these three.                         *)
(***************************************************************************)
RoundedDown == {29, 57, 58}

Percent(part, total) ==
  LET exact    == (100 * part) % total = 0
      quotient == (100 * part) \div total
  IN  IF total = 0 THEN 0
      ELSE IF exact /\ quotient \in RoundedDown THEN quotient - 1 ELSE quotient

ErrorPercent(k)   == Percent(k.errors, k.total)
TimeoutPercent(k) == Percent(k.timeouts, k.total)
=============================================================================
