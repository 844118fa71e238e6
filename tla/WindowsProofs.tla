---------------------------- MODULE WindowsProofs ----------------------------
(***************************************************************************)
(* Theorems about Windows, for every size of window, every sequence of     *)
(* outcomes and every way the clock moves.                                 *)
(***************************************************************************)
EXTENDS Windows, CommonLemmas, SequenceTheorems

-----------------------------------------------------------------------------
(* Sums over disjoint sets.                                                *)

LEMMA UnitsFinite ==
  ASSUME NEW w, NEW S, IsFiniteSet(S), \A c \in S : w[c] \in Nat
  PROVE  IsFiniteSet(Units(w, S)) /\ Cardinality(Units(w, S)) \in Nat
<1> DEFINE part == [c \in S |-> {c} \X (1..w[c])]
           parts == {part[c] : c \in S}
<1>1. part \in Surjection(S, parts)
  BY DEF Surjection
<1>2. IsFiniteSet(parts)
  <2> HIDE DEF part, parts
  <2> QED
    BY <1>1, FS_Surjection
<1>3. ASSUME NEW P \in parts PROVE IsFiniteSet(P)
  <2>1. PICK c \in S : P = {c} \X (1..w[c])
    OBVIOUS
  <2>2. IsFiniteSet({c})
    BY FS_Singleton
  <2>3. IsFiniteSet(1..w[c])
    BY FS_Interval
  <2> QED
    BY <2>1, <2>2, <2>3, FS_Product
<1>4. Units(w, S) = UNION parts
  BY DEF Units
<1>5. IsFiniteSet(UNION parts)
  <2> HIDE DEF part, parts
  <2> QED
    BY <1>2, <1>3, FS_UNION
<1> QED
  BY <1>4, <1>5, FS_CardinalityType, Zenon

LEMMA UnitsUnion ==
  ASSUME NEW w, NEW S, NEW T, IsFiniteSet(S), IsFiniteSet(T), S \cap T = {},
         \A c \in S \cup T : w[c] \in Nat
  PROVE  /\ Cardinality(Units(w, S \cup T)) =
              Cardinality(Units(w, S)) + Cardinality(Units(w, T))
         /\ Cardinality(Units(w, S)) \in Nat
         /\ Cardinality(Units(w, T)) \in Nat
<1>1. /\ IsFiniteSet(Units(w, S)) /\ Cardinality(Units(w, S)) \in Nat
      /\ IsFiniteSet(Units(w, T)) /\ Cardinality(Units(w, T)) \in Nat
  BY UnitsFinite
<1>2. /\ Units(w, S \cup T) = Units(w, S) \cup Units(w, T)
      /\ Units(w, S) \cap Units(w, T) = {}
  BY DEF Units
<1>3. Cardinality(Units(w, S) \cup Units(w, T)) =
        Cardinality(Units(w, S)) + Cardinality(Units(w, T))
          - Cardinality(Units(w, S) \cap Units(w, T))
  BY <1>1, FS_Union
<1>4. Cardinality(Units(w, S) \cap Units(w, T)) = 0
  BY <1>2, FS_EmptySet
<1> QED
  BY <1>1, <1>2, <1>3, <1>4

(* No weight, no units.                                                    *)
LEMMA UnitsNone ==
  ASSUME NEW w, NEW S, \A c \in S : w[c] = 0
  PROVE  Cardinality(Units(w, S)) = 0
<1>1. Units(w, S) = {}
  BY DEF Units
<1> QED
  BY <1>1, FS_EmptySet

(* A heavier weight has as many units or more.                             *)
LEMMA UnitsMonotone ==
  ASSUME NEW v, NEW w, NEW S, IsFiniteSet(S),
         \A c \in S : v[c] \in Nat /\ w[c] \in Nat /\ v[c] <= w[c]
  PROVE  Cardinality(Units(v, S)) <= Cardinality(Units(w, S))
<1>1. IsFiniteSet(Units(w, S))
  BY UnitsFinite
<1>2. Units(v, S) \in SUBSET Units(w, S)
  BY DEF Units
<1> QED
  BY <1>1, <1>2, FS_Subset

(* The number of elements of disjoint sets, as a sum.                      *)
LEMMA UnitsOfDisjoint ==
  ASSUME NEW S, NEW J, NEW w, IsFiniteSet(S),
         \A c \in S : IsFiniteSet(J[c]) /\ w[c] = Cardinality(J[c]),
         \A c, d \in S : c # d => J[c] \cap J[d] = {}
  PROVE  Cardinality(UNION {J[c] : c \in S}) = Cardinality(Units(w, S))
<1> DEFINE U == UNION {J[c] : c \in S}
           numbering == [c \in S |-> CHOOSE f : f \in Bijection(1..w[c], J[c])]
           name == [u \in Units(w, S) |-> numbering[u[1]][u[2]]]
<1>1. ASSUME NEW c \in S
      PROVE  w[c] \in Nat /\ numbering[c] \in Bijection(1..w[c], J[c])
  <2>1. w[c] \in Nat /\ ExistsBijection(1..w[c], J[c])
    BY FS_CardinalityType
  <2>2. \E f : f \in Bijection(1..w[c], J[c])
    BY <2>1 DEF ExistsBijection
  <2> QED
    BY <2>1, <2>2
<1>2. IsFiniteSet(Units(w, S))
  BY <1>1, UnitsFinite
<1> HIDE DEF numbering
<1>3. ASSUME NEW u \in Units(w, S)
      PROVE  /\ u[1] \in S /\ u[2] \in 1..w[u[1]] /\ u = <<u[1], u[2]>>
             /\ name[u] = numbering[u[1]][u[2]]
             /\ name[u] \in J[u[1]]
  <2>1. u[1] \in S /\ u[2] \in 1..w[u[1]] /\ u = <<u[1], u[2]>>
    BY DEF Units
  <2>2. numbering[u[1]] \in [1..w[u[1]] -> J[u[1]]]
    BY <1>1, <2>1 DEF Bijection, Injection
  <2> QED
    BY <2>1, <2>2
<1>4. name \in Bijection(Units(w, S), U)
  <2>1. name \in [Units(w, S) -> U]
    <3>1. \A u \in Units(w, S) : name[u] \in U
      BY <1>3
    <3> QED
      BY <3>1
  <2>2. ASSUME NEW u \in Units(w, S), NEW v \in Units(w, S), name[u] = name[v]
        PROVE  u = v
    <3>1. /\ u[1] \in S /\ u[2] \in 1..w[u[1]] /\ u = <<u[1], u[2]>>
          /\ v[1] \in S /\ v[2] \in 1..w[v[1]] /\ v = <<v[1], v[2]>>
          /\ name[u] \in J[u[1]] /\ name[v] \in J[v[1]]
          /\ numbering[u[1]][u[2]] = numbering[v[1]][v[2]]
      BY <1>3, <2>2
    <3>2. u[1] = v[1]
      BY <3>1, <2>2
    <3>3. \A i, j \in 1..w[u[1]] : numbering[u[1]][i] = numbering[u[1]][j] => i = j
      BY <1>1, <3>1 DEF Bijection, Injection, IsInjective
    <3>4. u[2] = v[2]
      BY <3>1, <3>2, <3>3
    <3> QED
      BY <3>1, <3>2, <3>4
  <2>3. ASSUME NEW t \in U
        PROVE  \E u \in Units(w, S) : name[u] = t
    <3>1. PICK c \in S : t \in J[c]
      OBVIOUS
    <3>2. PICK i \in 1..w[c] : numbering[c][i] = t
      BY <1>1, <3>1 DEF Bijection, Surjection
    <3>3. <<c, i>> \in Units(w, S)
      BY DEF Units
    <3>4. name[<<c, i>>] = t
      BY <3>2, <3>3
    <3> QED
      BY <3>3, <3>4
  <2> HIDE DEF name, U
  <2>4. DOMAIN name = Units(w, S)
    BY <2>1
  <2>5. IsInjective(name)
    BY <2>2, <2>4 DEF IsInjective
  <2> QED
    BY <2>1, <2>3, <2>5 DEF Bijection, Injection, Surjection
<1>5. ExistsBijection(Units(w, S), U)
  BY <1>4 DEF ExistsBijection
<1> HIDE DEF U
<1>6. Cardinality(U) = Cardinality(Units(w, S))
  BY <1>2, <1>5, FS_Bijection
<1> QED
  BY <1>6 DEF U

-----------------------------------------------------------------------------
(* The ring.                                                               *)

(* How many buckets i is behind e.                                         *)
AgeFrom(e, i) == IF i <= e THEN e - i ELSE e - i + capacity

LEMMA CapacityPositive ==
  ASSUME TypeOK
  PROVE  capacity \in Nat /\ capacity >= 1
BY WindowAssumption DEF TypeOK

LEMMA Remainder ==
  ASSUME NEW n \in Nat, n >= 1, NEW q \in Int, NEW r \in 0..(n - 1)
  PROVE  (n * q + r) % n = r
OBVIOUS

LEMMA AheadIs ==
  ASSUME TypeOK, NEW k \in 0..capacity
  PROVE  /\ Ahead(k) = IF endIndex + k < capacity THEN endIndex + k
                       ELSE endIndex + k - capacity
         /\ Ahead(k) \in Ring
<1>1. capacity \in Nat /\ capacity >= 1 /\ endIndex \in 0..(capacity - 1)
  BY CapacityPositive DEF TypeOK, Ring
<1>2. CASE endIndex + k < capacity
  <2>1. (capacity * 0 + (endIndex + k)) % capacity = endIndex + k
    BY <1>1, <1>2, Remainder
  <2> QED
    BY <1>1, <1>2, <2>1 DEF Ahead, Ring
<1>3. CASE ~(endIndex + k < capacity)
  <2>1. endIndex + k - capacity \in 0..(capacity - 1)
    BY <1>1, <1>3
  <2>2. (capacity * 1 + (endIndex + k - capacity)) % capacity = endIndex + k - capacity
    BY <1>1, <2>1, Remainder
  <2>3. capacity * 1 + (endIndex + k - capacity) = endIndex + k
    BY <1>1
  <2> QED
    BY <1>1, <1>3, <2>1, <2>2, <2>3 DEF Ahead, Ring
<1> QED
  BY <1>2, <1>3

(* The buckets passed are the oldest ones.                                 *)
LEMMA PassedAreOldest ==
  ASSUME TypeOK, NEW s \in 0..capacity
  PROVE  /\ Passed(s) \subseteq Ring
         /\ \A i \in Ring : i \in Passed(s) <=> AgeFrom(endIndex, i) + s >= capacity
<1>1. capacity \in Nat /\ capacity >= 1 /\ endIndex \in 0..(capacity - 1)
  BY CapacityPositive DEF TypeOK, Ring
<1>2. \A k \in 1..s : k \in 0..capacity
  BY <1>1
<1>3. Passed(s) \subseteq Ring
  BY <1>2, AheadIs DEF Passed
<1>4. ASSUME NEW i \in Ring, i \in Passed(s)
      PROVE  AgeFrom(endIndex, i) + s >= capacity
  <2>1. PICK k \in 1..s : i = Ahead(k)
    BY <1>4 DEF Passed
  <2>2. i = IF endIndex + k < capacity THEN endIndex + k ELSE endIndex + k - capacity
    BY <1>2, <2>1, AheadIs
  <2> QED
    BY <1>1, <2>1, <2>2 DEF AgeFrom
<1>5. ASSUME NEW i \in Ring, AgeFrom(endIndex, i) + s >= capacity
      PROVE  i \in Passed(s)
  <2> DEFINE k == capacity - AgeFrom(endIndex, i)
  <2>1. /\ k \in 1..s
        /\ i = IF endIndex + k < capacity THEN endIndex + k ELSE endIndex + k - capacity
    BY <1>1, <1>5 DEF AgeFrom, Ring
  <2>2. i = Ahead(k)
    BY <1>2, <2>1, AheadIs
  <2> QED
    BY <2>1, <2>2 DEF Passed
<1> QED
  BY <1>3, <1>4, <1>5

(* How old each bucket is after s steps.                                   *)
LEMMA AgesAfter ==
  ASSUME TypeOK, NEW s \in 0..capacity, NEW i \in Ring
  PROVE  /\ AgeFrom(endIndex, i) \in 0..(capacity - 1)
         /\ AgeFrom(Ahead(s), i) =
              IF i \in Passed(s) THEN AgeFrom(endIndex, i) + s - capacity
              ELSE AgeFrom(endIndex, i) + s
         /\ AgeFrom(Ahead(s), i) \in 0..(capacity - 1)
         /\ i \in Passed(s) <=> AgeFrom(Ahead(s), i) < s
<1>1. /\ capacity \in Nat /\ capacity >= 1 /\ endIndex \in 0..(capacity - 1)
      /\ i \in 0..(capacity - 1)
  BY CapacityPositive DEF TypeOK, Ring
<1>2. i \in Passed(s) <=> AgeFrom(endIndex, i) + s >= capacity
  BY PassedAreOldest
<1>3. /\ Ahead(s) = IF endIndex + s < capacity THEN endIndex + s
                    ELSE endIndex + s - capacity
      /\ Ahead(s) \in 0..(capacity - 1)
  BY AheadIs DEF Ring
<1> QED
  BY <1>1, <1>2, <1>3 DEF AgeFrom

(* Ages tell the buckets of the ring apart, and take every value.          *)
LEMMA AgesDiffer ==
  ASSUME TypeOK, NEW e \in Ring
  PROVE  /\ \A i, j \in Ring : AgeFrom(e, i) = AgeFrom(e, j) => i = j
         /\ \A a \in 0..(capacity - 1) : \E i \in Ring : AgeFrom(e, i) = a
         /\ \A i \in Ring : AgeFrom(e, i) = 0 <=> i = e
<1>1. capacity \in Nat /\ capacity >= 1 /\ e \in 0..(capacity - 1)
  BY CapacityPositive DEF Ring
<1>2. ASSUME NEW a \in 0..(capacity - 1)
      PROVE  \E i \in Ring : AgeFrom(e, i) = a
  <2>1. CASE a <= e
    <3>1. e - a \in Ring /\ AgeFrom(e, e - a) = a
      BY <1>1, <2>1 DEF AgeFrom, Ring
    <3> QED
      BY <3>1
  <2>2. CASE ~(a <= e)
    <3>1. e - a + capacity \in Ring /\ AgeFrom(e, e - a + capacity) = a
      BY <1>1, <2>2 DEF AgeFrom, Ring
    <3> QED
      BY <3>1
  <2> QED
    BY <2>1, <2>2
<1>3. \A i, j \in Ring : AgeFrom(e, i) = AgeFrom(e, j) => i = j
  BY <1>1 DEF AgeFrom, Ring
<1>4. \A i \in Ring : AgeFrom(e, i) = 0 <=> i = e
  BY <1>1 DEF AgeFrom, Ring
<1> QED
  BY <1>2, <1>3, <1>4

(* The window never goes further than once around.                         *)
LEMMA StepsRange ==
  ASSUME TypeOK
  PROVE  /\ Steps \in 0..capacity
         /\ metric = "count" => Steps = 1
<1>1. /\ capacity \in Nat /\ capacity >= 1
      /\ endIndex \in Ring /\ startTime[endIndex] \in Int /\ nowInMs \in Int
      /\ metric \in {"time", "count"}
  BY CapacityPositive, WindowAssumption DEF TypeOK
<1> QED
  BY <1>1 DEF Steps, secondsToMoveWindow, differenceInSeconds, SmallerOf

-----------------------------------------------------------------------------
(* The counters of the ring added up.                                      *)

LEMMA ResetUnits ==
  ASSUME NEW R, NEW P \in SUBSET R, NEW w, NEW v, IsFiniteSet(R),
         \A i \in R : w[i] \in Nat,
         \A i \in R : v[i] = IF i \in P THEN 0 ELSE w[i]
  PROVE  Cardinality(Units(v, R)) = Cardinality(Units(w, R)) - Cardinality(Units(w, P))
<1> DEFINE Q == R \ P
<1>1. IsFiniteSet(P) /\ IsFiniteSet(Q)
  BY FS_Subset
<1>2. P \cup Q = R /\ P \cap Q = {}
  OBVIOUS
<1>3. /\ \A i \in P : v[i] = 0
      /\ \A i \in Q : v[i] = w[i]
      /\ \A i \in P \cup Q : w[i] \in Nat
      /\ \A i \in P \cup Q : v[i] \in Nat
  BY <1>2
<1> HIDE DEF Q
<1>4. /\ Cardinality(Units(w, P \cup Q)) =
           Cardinality(Units(w, P)) + Cardinality(Units(w, Q))
      /\ Cardinality(Units(w, P)) \in Nat /\ Cardinality(Units(w, Q)) \in Nat
  BY <1>1, <1>2, <1>3, UnitsUnion
<1>5. Cardinality(Units(v, P \cup Q)) =
        Cardinality(Units(v, P)) + Cardinality(Units(v, Q))
  BY <1>1, <1>2, <1>3, UnitsUnion
<1>6. Cardinality(Units(v, P)) = 0
  BY <1>3, UnitsNone
<1>7. Units(v, Q) = Units(w, Q)
  BY <1>3, UnitsSame
<1> QED
  BY <1>2, <1>4, <1>5, <1>6, <1>7

LEMMA RaisedUnits ==
  ASSUME NEW R, NEW c \in R, NEW d \in Nat, NEW w, NEW v, IsFiniteSet(R),
         \A i \in R : w[i] \in Nat,
         \A i \in R : v[i] = IF i = c THEN w[i] + d ELSE w[i]
  PROVE  Cardinality(Units(v, R)) = Cardinality(Units(w, R)) + d
<1>1. \A i \in R : v[i] \in Nat
  OBVIOUS
<1>2. IsFiniteSet(Units(w, R)) /\ Cardinality(Units(w, R)) \in Nat
  BY UnitsFinite
<1>3. IsFiniteSet(Units(v, R)) /\ Cardinality(Units(v, R)) \in Nat
  BY <1>1, UnitsFinite
<1>4. Cardinality(Units(w, R \ {c})) = Cardinality(Units(w, R)) - w[c]
  BY <1>2, UnitsRemove
<1>5. Cardinality(Units(v, R \ {c})) = Cardinality(Units(v, R)) - v[c]
  BY <1>1, <1>3, UnitsRemove
<1>6. Units(v, R \ {c}) = Units(w, R \ {c})
  <2>1. \A i \in R \ {c} : v[i] = w[i]
    OBVIOUS
  <2> QED
    BY <2>1, UnitsSame
<1>7. w[c] \in Nat /\ v[c] = w[c] + d
  OBVIOUS
<1> QED
  BY <1>2, <1>3, <1>4, <1>5, <1>6, <1>7

(* The field of every counter in b, as a function.                         *)
Totals(b, S)   == [i \in S |-> b[i].total]
Errors(b, S)   == [i \in S |-> b[i].errors]
Timeouts(b, S) == [i \in S |-> b[i].timeouts]

LEMMA SumOfPart ==
  ASSUME NEW b, NEW R, NEW P \in SUBSET R
  PROVE  Sum(b, P) = [total    |-> Cardinality(Units(Totals(b, R), P)),
                      errors   |-> Cardinality(Units(Errors(b, R), P)),
                      timeouts |-> Cardinality(Units(Timeouts(b, R), P))]
<1>1. Units(Totals(b, P), P) = Units(Totals(b, R), P)
  <2>1. \A i \in P : Totals(b, P)[i] = Totals(b, R)[i]
    BY DEF Totals
  <2> QED
    BY <2>1, UnitsSame
<1>2. Units(Errors(b, P), P) = Units(Errors(b, R), P)
  <2>1. \A i \in P : Errors(b, P)[i] = Errors(b, R)[i]
    BY DEF Errors
  <2> QED
    BY <2>1, UnitsSame
<1>3. Units(Timeouts(b, P), P) = Units(Timeouts(b, R), P)
  <2>1. \A i \in P : Timeouts(b, P)[i] = Timeouts(b, R)[i]
    BY DEF Timeouts
  <2> QED
    BY <2>1, UnitsSame
<1> QED
  BY <1>1, <1>2, <1>3 DEF Sum, Totals, Errors, Timeouts

LEMMA CounterFields ==
  ASSUME NEW R, NEW b \in [R -> Counter]
  PROVE  /\ \A i \in R : /\ Totals(b, R)[i] \in Nat /\ Totals(b, R)[i] = b[i].total
                         /\ Errors(b, R)[i] \in Nat /\ Errors(b, R)[i] = b[i].errors
                         /\ Timeouts(b, R)[i] \in Nat /\ Timeouts(b, R)[i] = b[i].timeouts
                         /\ Errors(b, R)[i] <= Totals(b, R)[i]
                         /\ Timeouts(b, R)[i] <= Totals(b, R)[i]
BY DEF Totals, Errors, Timeouts, Counter

LEMMA SumType ==
  ASSUME NEW R, NEW P \in SUBSET R, NEW b \in [R -> Counter], IsFiniteSet(R)
  PROVE  Sum(b, P) \in Counter
<1>1. IsFiniteSet(P)
  BY FS_Subset
<1>2. \A i \in P : /\ Totals(b, R)[i] \in Nat
                   /\ Errors(b, R)[i] \in Nat
                   /\ Timeouts(b, R)[i] \in Nat
                   /\ Errors(b, R)[i] <= Totals(b, R)[i]
                   /\ Timeouts(b, R)[i] <= Totals(b, R)[i]
  BY CounterFields
<1>3. /\ Cardinality(Units(Totals(b, R), P)) \in Nat
      /\ Cardinality(Units(Errors(b, R), P)) \in Nat
      /\ Cardinality(Units(Timeouts(b, R), P)) \in Nat
  BY <1>1, <1>2, UnitsFinite
<1>4. Cardinality(Units(Errors(b, R), P)) <= Cardinality(Units(Totals(b, R), P))
  BY <1>1, <1>2, UnitsMonotone
<1>5. Cardinality(Units(Timeouts(b, R), P)) <= Cardinality(Units(Totals(b, R), P))
  BY <1>1, <1>2, UnitsMonotone
<1> QED
  BY <1>3, <1>4, <1>5, SumOfPart DEF Counter

(* Resetting some counters takes them from the sum.                        *)
LEMMA SumReset ==
  ASSUME NEW R, NEW P \in SUBSET R, NEW b \in [R -> Counter], NEW m \in [R -> Counter],
         IsFiniteSet(R),
         \A i \in R : m[i] = IF i \in P THEN NoCounts ELSE b[i]
  PROVE  Sum(m, R) = subtract(Sum(b, R), Sum(b, P))
<1>1. Cardinality(Units(Totals(m, R), R)) =
        Cardinality(Units(Totals(b, R), R)) - Cardinality(Units(Totals(b, R), P))
  <2>1. \A i \in R : Totals(m, R)[i] = IF i \in P THEN 0 ELSE Totals(b, R)[i]
    BY CounterFields DEF NoCounts
  <2>2. \A i \in R : Totals(b, R)[i] \in Nat
    BY CounterFields
  <2> QED
    BY <2>1, <2>2, ResetUnits
<1>2. Cardinality(Units(Errors(m, R), R)) =
        Cardinality(Units(Errors(b, R), R)) - Cardinality(Units(Errors(b, R), P))
  <2>1. \A i \in R : Errors(m, R)[i] = IF i \in P THEN 0 ELSE Errors(b, R)[i]
    BY CounterFields DEF NoCounts
  <2>2. \A i \in R : Errors(b, R)[i] \in Nat
    BY CounterFields
  <2> QED
    BY <2>1, <2>2, ResetUnits
<1>3. Cardinality(Units(Timeouts(m, R), R)) =
        Cardinality(Units(Timeouts(b, R), R)) - Cardinality(Units(Timeouts(b, R), P))
  <2>1. \A i \in R : Timeouts(m, R)[i] = IF i \in P THEN 0 ELSE Timeouts(b, R)[i]
    BY CounterFields DEF NoCounts
  <2>2. \A i \in R : Timeouts(b, R)[i] \in Nat
    BY CounterFields
  <2> QED
    BY <2>1, <2>2, ResetUnits
<1> QED
  BY <1>1, <1>2, <1>3, SumOfPart DEF subtract

(* An outcome told to one counter is told to the sum.                      *)
LEMMA SumAdd ==
  ASSUME NEW R, NEW c \in R, NEW b \in [R -> Counter], NEW m \in [R -> Counter],
         NEW outcome, IsFiniteSet(R),
         \A i \in R : m[i] = IF i = c THEN add(b[i], outcome) ELSE b[i]
  PROVE  Sum(m, R) = add(Sum(b, R), outcome)
<1> DEFINE e == IF outcome \in ErrorOutcomes THEN 1 ELSE 0
           t == IF outcome \in TimeoutOutcomes THEN 1 ELSE 0
<1>1. e \in Nat /\ t \in Nat /\ e <= 1 /\ t <= 1
  OBVIOUS
<1>2. \A i \in R : /\ m[i].total = IF i = c THEN b[i].total + 1 ELSE b[i].total
                   /\ m[i].errors = IF i = c THEN b[i].errors + e ELSE b[i].errors
                   /\ m[i].timeouts = IF i = c THEN b[i].timeouts + t ELSE b[i].timeouts
  BY DEF add
<1>3. add(Sum(b, R), outcome) = [total    |-> Sum(b, R).total + 1,
                                 errors   |-> Sum(b, R).errors + e,
                                 timeouts |-> Sum(b, R).timeouts + t]
  BY DEF add
<1> HIDE DEF e, t
<1>4. Cardinality(Units(Totals(m, R), R)) = Cardinality(Units(Totals(b, R), R)) + 1
  <2>1. \A i \in R : Totals(m, R)[i] =
          IF i = c THEN Totals(b, R)[i] + 1 ELSE Totals(b, R)[i]
    BY <1>2, CounterFields
  <2>2. \A i \in R : Totals(b, R)[i] \in Nat
    BY CounterFields
  <2> QED
    BY <2>1, <2>2, RaisedUnits
<1>5. Cardinality(Units(Errors(m, R), R)) = Cardinality(Units(Errors(b, R), R)) + e
  <2>1. \A i \in R : Errors(m, R)[i] =
          IF i = c THEN Errors(b, R)[i] + e ELSE Errors(b, R)[i]
    BY <1>2, CounterFields
  <2>2. \A i \in R : Errors(b, R)[i] \in Nat
    BY CounterFields
  <2> QED
    BY <1>1, <2>1, <2>2, RaisedUnits
<1>6. Cardinality(Units(Timeouts(m, R), R)) = Cardinality(Units(Timeouts(b, R), R)) + t
  <2>1. \A i \in R : Timeouts(m, R)[i] =
          IF i = c THEN Timeouts(b, R)[i] + t ELSE Timeouts(b, R)[i]
    BY <1>2, CounterFields
  <2>2. \A i \in R : Timeouts(b, R)[i] \in Nat
    BY CounterFields
  <2> QED
    BY <1>1, <2>1, <2>2, RaisedUnits
<1> QED
  BY <1>3, <1>4, <1>5, <1>6, SumOfPart

-----------------------------------------------------------------------------
(* What sets of calls amount to.                                           *)

Among(l, S, kind) == {j \in S : l[j].outcome \in kind}

TallyOf(l, S) ==
  [total    |-> Cardinality(S),
   errors   |-> Cardinality(Among(l, S, ErrorOutcomes)),
   timeouts |-> Cardinality(Among(l, S, TimeoutOutcomes))]

LEMMA TallyNone ==
  ASSUME NEW l
  PROVE  TallyOf(l, {}) = NoCounts
<1>1. Cardinality({}) = 0
  BY FS_EmptySet
<1>2. Among(l, {}, ErrorOutcomes) = {} /\ Among(l, {}, TimeoutOutcomes) = {}
  BY DEF Among
<1> QED
  BY <1>1, <1>2 DEF TallyOf, NoCounts

(* Counters that each hold the calls of a set of their own hold, together, *)
(* the calls of all the sets.                                              *)
LEMMA SumOfTallies ==
  ASSUME NEW R, NEW b, NEW l, NEW D, NEW J \in [R -> SUBSET D],
         IsFiniteSet(R), IsFiniteSet(D),
         \A i, k \in R : i # k => J[i] \cap J[k] = {},
         \A i \in R : b[i] = TallyOf(l, J[i])
  PROVE  Sum(b, R) = TallyOf(l, UNION {J[i] : i \in R})
<1> DEFINE A == UNION {J[i] : i \in R}
           E == [i \in R |-> Among(l, J[i], ErrorOutcomes)]
           T == [i \in R |-> Among(l, J[i], TimeoutOutcomes)]
<1>1. /\ \A i \in R : Totals(b, R)[i] = Cardinality(J[i])
      /\ \A i \in R : Errors(b, R)[i] = Cardinality(E[i])
      /\ \A i \in R : Timeouts(b, R)[i] = Cardinality(T[i])
  <2> SUFFICES ASSUME NEW i \in R
               PROVE  /\ Totals(b, R)[i] = Cardinality(J[i])
                      /\ Errors(b, R)[i] = Cardinality(E[i])
                      /\ Timeouts(b, R)[i] = Cardinality(T[i])
    OBVIOUS
  <2>1. /\ b[i].total = Cardinality(J[i])
        /\ b[i].errors = Cardinality(Among(l, J[i], ErrorOutcomes))
        /\ b[i].timeouts = Cardinality(Among(l, J[i], TimeoutOutcomes))
    <3>1. b[i] = TallyOf(l, J[i])
      OBVIOUS
    <3> QED
      BY ONLY <3>1 DEF TallyOf
  <2> QED
    BY <2>1 DEF Totals, Errors, Timeouts
<1>2. /\ \A i \in R : J[i] \in SUBSET D /\ E[i] \in SUBSET D /\ T[i] \in SUBSET D
      /\ \A i, k \in R : i # k => E[i] \cap E[k] = {}
      /\ \A i, k \in R : i # k => T[i] \cap T[k] = {}
  BY DEF Among
<1>3. /\ UNION {E[i] : i \in R} = Among(l, A, ErrorOutcomes)
      /\ UNION {T[i] : i \in R} = Among(l, A, TimeoutOutcomes)
  BY DEF Among
<1>4. \A i \in R : IsFiniteSet(J[i])
  BY <1>2, FS_Subset
<1> HIDE DEF E, T, A
<1>5. \A i \in R : IsFiniteSet(E[i]) /\ IsFiniteSet(T[i])
  BY <1>2, FS_Subset
<1>6. Cardinality(A) = Cardinality(Units(Totals(b, R), R))
  BY <1>1, <1>4, UnitsOfDisjoint DEF A
<1>7. Cardinality(UNION {E[i] : i \in R}) = Cardinality(Units(Errors(b, R), R))
  BY <1>1, <1>2, <1>5, UnitsOfDisjoint
<1>8. Cardinality(UNION {T[i] : i \in R}) = Cardinality(Units(Timeouts(b, R), R))
  BY <1>1, <1>2, <1>5, UnitsOfDisjoint
<1>9. Sum(b, R) = TallyOf(l, A)
  <2>1. Sum(b, R) = [total    |-> Cardinality(Units(Totals(b, R), R)),
                     errors   |-> Cardinality(Units(Errors(b, R), R)),
                     timeouts |-> Cardinality(Units(Timeouts(b, R), R))]
    BY SumOfPart
  <2> QED
    BY <1>3, <1>6, <1>7, <1>8, <2>1 DEF TallyOf
<1> QED
  BY <1>9 DEF A

LEMMA TallyAppend ==
  ASSUME NEW E, NEW l \in Seq(E), NEW e, NEW S \in SUBSET (1..Len(l))
  PROVE  /\ TallyOf(Append(l, e), S) = TallyOf(l, S)
         /\ TallyOf(Append(l, e), S \cup {Len(l) + 1}) = add(TallyOf(l, S), e.outcome)
<1> DEFINE m == Append(l, e)
           n == Len(l) + 1
<1>1. /\ Len(l) \in Nat
      /\ \A j \in 1..Len(l) : m[j] = l[j]
      /\ m[n] = e
  BY AppendProperties, LenProperties
<1>2. IsFiniteSet(S)
  <2>1. IsFiniteSet(1..Len(l))
    BY <1>1, FS_Interval
  <2> QED
    BY <2>1, FS_Subset
<1>3. n \notin S
  BY <1>1
<1> HIDE DEF m, n
<1>4. ASSUME NEW O
      PROVE  /\ Among(m, S, O) = Among(l, S, O)
             /\ Cardinality(Among(m, S \cup {n}, O)) =
                  Cardinality(Among(l, S, O)) + (IF e.outcome \in O THEN 1 ELSE 0)
  <2>1. Among(m, S, O) = Among(l, S, O)
    BY <1>1 DEF Among
  <2>2. IsFiniteSet(Among(l, S, O)) /\ Cardinality(Among(l, S, O)) \in Nat
    <3>1. Among(l, S, O) \in SUBSET S
      BY DEF Among
    <3> QED
      BY <1>2, <3>1, FS_Subset, FS_CardinalityType
  <2>3. CASE e.outcome \in O
    <3>1. Among(m, S \cup {n}, O) = Among(l, S, O) \cup {n}
      BY <1>1, <2>3 DEF Among
    <3>2. n \notin Among(l, S, O)
      BY <1>3 DEF Among
    <3>3. Cardinality(Among(l, S, O) \cup {n}) = Cardinality(Among(l, S, O)) + 1
      BY <2>2, <3>2, FS_AddElement
    <3> QED
      BY <2>1, <2>3, <3>1, <3>3
  <2>4. CASE e.outcome \notin O
    <3>1. Among(m, S \cup {n}, O) = Among(l, S, O)
      BY <1>1, <2>4 DEF Among
    <3> QED
      BY <2>1, <2>2, <2>4, <3>1
  <2> QED
    BY <2>3, <2>4
<1>5. Cardinality(S \cup {n}) = Cardinality(S) + 1
  BY <1>2, <1>3, FS_AddElement
<1>6. TallyOf(m, S) = TallyOf(l, S)
  BY <1>4 DEF TallyOf
<1>7. TallyOf(m, S \cup {n}) = add(TallyOf(l, S), e.outcome)
  <2>1. Cardinality(Among(m, S \cup {n}, ErrorOutcomes)) =
          Cardinality(Among(l, S, ErrorOutcomes))
            + (IF e.outcome \in ErrorOutcomes THEN 1 ELSE 0)
    BY <1>4
  <2>2. Cardinality(Among(m, S \cup {n}, TimeoutOutcomes)) =
          Cardinality(Among(l, S, TimeoutOutcomes))
            + (IF e.outcome \in TimeoutOutcomes THEN 1 ELSE 0)
    BY <1>4
  <2> QED
    BY <1>5, <2>1, <2>2 DEF TallyOf, add
<1> QED
  BY <1>6, <1>7 DEF m, n

-----------------------------------------------------------------------------
(***************************************************************************)
(* A bucket that is a buckets behind the current one holds the calls whose *)
(* age is a: ages are seconds in a time window, later calls in a count     *)
(* window.  Moving on makes every call older by the same amount, "jump",   *)
(* also when that is more than once around the ring.                       *)
(***************************************************************************)
OfAge(ages, a) == {j \in DOMAIN ages : ages[j] = a}

LEMMA MovedHolds ==
  ASSUME TypeOK, NEW s, NEW jump \in Nat, s = SmallerOf(jump, capacity),
         NEW n \in Nat, NEW ages \in [1..n -> Nat], NEW older,
         older = [j \in 1..n |-> ages[j] + jump],
         \A i \in Ring : buckets[i] = TallyOf(log, OfAge(ages, AgeFrom(endIndex, i))),
         NEW i \in Ring
  PROVE  MovedBuckets(s)[i] = TallyOf(log, OfAge(older, AgeFrom(Ahead(s), i)))
<1>1. capacity \in Nat /\ capacity >= 1 /\ s \in 0..capacity /\ s <= jump
  BY CapacityPositive DEF SmallerOf
<1>2. /\ AgeFrom(endIndex, i) \in 0..(capacity - 1)
      /\ AgeFrom(Ahead(s), i) =
           IF i \in Passed(s) THEN AgeFrom(endIndex, i) + s - capacity
           ELSE AgeFrom(endIndex, i) + s
      /\ AgeFrom(Ahead(s), i) \in 0..(capacity - 1)
      /\ i \in Passed(s) <=> AgeFrom(Ahead(s), i) < s
  BY <1>1, AgesAfter
<1>3. CASE i \in Passed(s)
  <2>1. OfAge(older, AgeFrom(Ahead(s), i)) = {}
    <3>1. \A j \in 1..n : older[j] >= jump
      OBVIOUS
    <3>2. AgeFrom(Ahead(s), i) < jump
      BY <1>1, <1>2, <1>3
    <3> QED
      BY <3>1, <3>2, <1>2 DEF OfAge
  <2>2. MovedBuckets(s)[i] = NoCounts
    BY <1>3 DEF MovedBuckets
  <2> QED
    BY <2>1, <2>2, TallyNone
<1>4. CASE i \notin Passed(s)
  <2>1. s = jump
    BY <1>1, <1>2, <1>4 DEF SmallerOf
  <2>2. OfAge(older, AgeFrom(Ahead(s), i)) = OfAge(ages, AgeFrom(endIndex, i))
    <3>1. AgeFrom(Ahead(s), i) = AgeFrom(endIndex, i) + jump
      BY <1>2, <1>4, <2>1
    <3>2. \A j \in 1..n : older[j] = AgeFrom(endIndex, i) + jump
                            <=> ages[j] = AgeFrom(endIndex, i)
      BY <1>2
    <3> QED
      BY <3>1, <3>2 DEF OfAge
  <2>3. MovedBuckets(s)[i] = buckets[i]
    BY <1>4 DEF MovedBuckets
  <2> QED
    BY <2>2, <2>3
<1> QED
  BY <1>3, <1>4

(* Together the buckets hold the calls younger than the window is long.    *)
LEMMA RingHolds ==
  ASSUME TypeOK, NEW e \in Ring, NEW n \in Nat, NEW ages \in [1..n -> Nat], NEW b,
         \A i \in Ring : b[i] = TallyOf(log, OfAge(ages, AgeFrom(e, i)))
  PROVE  Sum(b, Ring) = TallyOf(log, {j \in 1..n : ages[j] < capacity})
<1> DEFINE J == [i \in Ring |-> OfAge(ages, AgeFrom(e, i))]
<1>1. capacity \in Nat /\ capacity >= 1
  BY CapacityPositive
<1>2. J \in [Ring -> SUBSET (1..n)]
  BY DEF OfAge
<1>3. IsFiniteSet(Ring) /\ IsFiniteSet(1..n)
  BY <1>1, FS_Interval DEF Ring
<1>4. /\ \A i, k \in Ring : AgeFrom(e, i) = AgeFrom(e, k) => i = k
      /\ \A a \in 0..(capacity - 1) : \E i \in Ring : AgeFrom(e, i) = a
  BY AgesDiffer
<1>5. \A i, k \in Ring : i # k => J[i] \cap J[k] = {}
  BY <1>4 DEF OfAge
<1>6. UNION {J[i] : i \in Ring} = {j \in 1..n : ages[j] < capacity}
  <2>1. ASSUME NEW i \in Ring, NEW j \in J[i]
        PROVE  j \in 1..n /\ ages[j] < capacity
    <3>1. AgeFrom(e, i) < capacity
      <4>1. e \in 0..(capacity - 1) /\ i \in 0..(capacity - 1)
        BY DEF Ring
      <4> QED
        BY <1>1, <4>1 DEF AgeFrom
    <3> QED
      BY <2>1, <3>1 DEF OfAge
  <2>2. ASSUME NEW j \in 1..n, ages[j] < capacity
        PROVE  \E i \in Ring : j \in J[i]
    <3>1. ages[j] \in 0..(capacity - 1)
      BY <1>1, <2>2
    <3> QED
      BY <1>4, <3>1 DEF OfAge
  <2> HIDE DEF J
  <2> QED
    BY <2>1, <2>2
<1>7. \A i \in Ring : b[i] = TallyOf(log, J[i])
  OBVIOUS
<1> HIDE DEF J
<1>8. Sum(b, Ring) = TallyOf(log, UNION {J[i] : i \in Ring})
  BY <1>2, <1>3, <1>5, <1>7, SumOfTallies
<1> QED
  BY <1>6, <1>8

(* An update puts its outcome into the current bucket, where it has age 0. *)
LEMMA UpdateHolds ==
  ASSUME TypeOK, NEW outcome \in Outcomes, update(outcome),
         NEW jump \in Nat, Steps = SmallerOf(jump, capacity),
         NEW ages \in [1..Len(log) -> Nat], NEW now,
         now = [j \in 1..(Len(log) + 1) |-> IF j = Len(log) + 1 THEN 0 ELSE ages[j] + jump],
         \A i \in Ring : buckets[i] = TallyOf(log, OfAge(ages, AgeFrom(endIndex, i))),
         NEW i \in Ring
  PROVE  buckets'[i] = TallyOf(log', OfAge(now, AgeFrom(endIndex', i)))
<1> DEFINE n == Len(log) + 1
<1>1. PICK s \in 0..capacity : s = Steps
  BY StepsRange
<1>2. PICK latest \in Ring : latest = Ahead(s)
  BY AheadIs
<1>3. PICK entry : entry = [at |-> nowInMs, outcome |-> outcome]
  OBVIOUS
<1>4. /\ endIndex' = latest
      /\ buckets' = [MovedBuckets(s) EXCEPT ![latest] = add(@, outcome)]
      /\ log' = Append(log, entry)
  BY <1>1, <1>2, <1>3 DEF update
<1>5. /\ log \in Seq([at : Nat, outcome : Outcomes]) /\ Len(log) \in Nat
      /\ entry.outcome = outcome
  BY <1>3, LenProperties DEF TypeOK
<1>6. PICK older : older = [j \in 1..Len(log) |-> ages[j] + jump]
  OBVIOUS
<1>7. MovedBuckets(s)[i] = TallyOf(log, OfAge(older, AgeFrom(latest, i)))
  <2>1. s = SmallerOf(jump, capacity) /\ Len(log) \in Nat
    BY <1>1, <1>5
  <2>2. MovedBuckets(s)[i] = TallyOf(log, OfAge(older, AgeFrom(Ahead(s), i)))
    BY <1>6, <2>1, MovedHolds, Zenon
  <2> QED
    BY <1>2, <2>2
<1>8. OfAge(older, AgeFrom(latest, i)) \in SUBSET (1..Len(log))
  BY <1>6 DEF OfAge
<1>9. AgeFrom(latest, i) = 0 <=> i = latest
  BY AgesDiffer
<1>10. CASE i = latest
  <2>1. OfAge(now, AgeFrom(latest, i)) = OfAge(older, AgeFrom(latest, i)) \cup {n}
    BY <1>5, <1>6, <1>9, <1>10 DEF OfAge
  <2>2. buckets'[i] = add(MovedBuckets(s)[i], outcome)
    BY <1>4, <1>10 DEF MovedBuckets
  <2>3. TallyOf(Append(log, entry), OfAge(older, AgeFrom(latest, i)) \cup {n}) =
          add(TallyOf(log, OfAge(older, AgeFrom(latest, i))), outcome)
    BY <1>5, <1>8, TallyAppend
  <2> QED
    BY <1>4, <1>7, <2>1, <2>2, <2>3
<1>11. CASE i # latest
  <2>1. OfAge(now, AgeFrom(latest, i)) = OfAge(older, AgeFrom(latest, i))
    BY <1>5, <1>6, <1>9, <1>11 DEF OfAge
  <2>2. buckets'[i] = MovedBuckets(s)[i]
    BY <1>4, <1>11 DEF MovedBuckets
  <2>3. TallyOf(Append(log, entry), OfAge(older, AgeFrom(latest, i))) =
          TallyOf(log, OfAge(older, AgeFrom(latest, i)))
    BY <1>5, <1>8, TallyAppend
  <2> QED
    BY <1>4, <1>7, <2>1, <2>2, <2>3
<1> QED
  BY <1>10, <1>11

-----------------------------------------------------------------------------
(***************************************************************************)
(* The inductive invariants.  That the total is the sum of the ring says   *)
(* nothing of which calls the ring holds: that is CountHolds, and TimeHolds*)
(* when no window is made ahead of the cached clock.  A time window is     *)
(* never ahead of that clock then, and holds no call later than its        *)
(* current bucket.                                                         *)
(***************************************************************************)
CountAges == [j \in 1..Len(log) |-> Len(log) - j]
TimeAges  == [j \in 1..Len(log) |-> startTime[endIndex] - log[j].at]

CountHolds ==
  metric = "count" =>
    \A i \in Ring : buckets[i] = TallyOf(log, OfAge(CountAges, AgeFrom(endIndex, i)))

TimeHolds ==
  metric = "time" =>
    /\ startTime[endIndex] <= nowInMs
    /\ \A j \in 1..Len(log) : log[j].at <= startTime[endIndex]
    /\ \A i \in Ring : buckets[i] = TallyOf(log, OfAge(TimeAges, AgeFrom(endIndex, i)))

IInv == TypeOK /\ TotalIsSumOfRing /\ CountHolds

-----------------------------------------------------------------------------
(* What one move of the window leaves.                                     *)

LEMMA RingFinite ==
  ASSUME TypeOK
  PROVE  IsFiniteSet(Ring)
BY CapacityPositive, FS_Interval DEF Ring

LEMMA MovedTotalIs ==
  ASSUME TypeOK, TotalIsSumOfRing, NEW s \in 0..capacity
  PROVE  /\ MovedBuckets(s) \in [Ring -> Counter]
         /\ MovedTotal(s) = Sum(MovedBuckets(s), Ring)
         /\ MovedTotal(s) \in Counter
         /\ Sum(buckets, Passed(s)) \in Counter
<1>1. Passed(s) \in SUBSET Ring
  BY PassedAreOldest
<1>2. buckets \in [Ring -> Counter] /\ IsFiniteSet(Ring)
  BY RingFinite DEF TypeOK
<1>3. NoCounts \in Counter
  BY DEF NoCounts, Counter
<1>4. MovedBuckets(s) \in [Ring -> Counter]
  BY <1>2, <1>3 DEF MovedBuckets
<1>5. \A i \in Ring : MovedBuckets(s)[i] = IF i \in Passed(s) THEN NoCounts ELSE buckets[i]
  BY DEF MovedBuckets
<1>6. Sum(MovedBuckets(s), Ring) = subtract(Sum(buckets, Ring), Sum(buckets, Passed(s)))
  BY <1>1, <1>2, <1>4, <1>5, SumReset
<1>7. Sum(MovedBuckets(s), Ring) \in Counter /\ Sum(buckets, Passed(s)) \in Counter
  BY <1>1, <1>2, <1>4, SumType
<1> QED
  BY <1>4, <1>6, <1>7 DEF MovedTotal, TotalIsSumOfRing

LEMMA MovedStartTimeIs ==
  ASSUME TypeOK
  PROVE  /\ MovedStartTime(Steps) \in [Ring -> Int]
         /\ metric = "time" /\ differenceInSeconds >= 0 =>
              MovedStartTime(Steps)[Ahead(Steps)] = nowInMs
<1>1. /\ Steps \in 0..capacity /\ startTime \in [Ring -> Int] /\ nowInMs \in Int
      /\ capacity \in Nat /\ capacity >= 1 /\ endIndex \in Ring
      /\ metric \in {"time", "count"}
  BY StepsRange, CapacityPositive, WindowAssumption DEF TypeOK
<1>2. secondsToMoveWindow \in Int
  BY <1>1 DEF secondsToMoveWindow, differenceInSeconds, SmallerOf
<1>3. PICK s \in 0..capacity : s = Steps
  BY <1>1
<1>4. \A i \in Passed(s) :
        /\ (CHOOSE k \in 1..s : Ahead(k) = i) \in 1..s
        /\ Ahead(CHOOSE k \in 1..s : Ahead(k) = i) = i
  BY DEF Passed
<1>5. MovedStartTime(s) \in [Ring -> Int]
  <2>1. CASE metric = "count"
    BY <1>1, <2>1 DEF MovedStartTime
  <2>2. CASE metric # "count"
    <3>1. \A i \in Passed(s) : (CHOOSE k \in 1..s : Ahead(k) = i) \in Int
      BY <1>4
    <3> QED
      BY <1>1, <1>2, <2>2, <3>1 DEF MovedStartTime
  <2> QED
    BY <2>1, <2>2
<1>6. ASSUME metric = "time", differenceInSeconds >= 0
      PROVE  MovedStartTime(s)[Ahead(s)] = nowInMs
  <2>1. Ahead(s) \in Ring
    BY AheadIs
  <2>2. CASE differenceInSeconds = 0
    <3>1. s = 0
      BY <1>3, <1>6, <2>2 DEF Steps
    <3>2. Ahead(s) = endIndex
      BY <1>1, <3>1, AheadIs DEF Ring
    <3>3. Passed(s) = {}
      BY <3>1 DEF Passed
    <3>4. startTime[endIndex] = nowInMs
      BY <1>1, <2>2 DEF differenceInSeconds
    <3> QED
      BY <1>6, <2>1, <3>2, <3>3, <3>4 DEF MovedStartTime
  <2>3. CASE differenceInSeconds # 0
    <3>1. differenceInSeconds \in Int /\ differenceInSeconds > 0
      BY <1>1, <1>6, <2>3 DEF differenceInSeconds
    <3>2. s = secondsToMoveWindow /\ s \in 1..capacity
      BY <1>1, <1>3, <1>6, <3>1 DEF Steps, secondsToMoveWindow, SmallerOf
    <3>3. Ahead(s) \in Passed(s)
      BY <3>2 DEF Passed
    <3>4. PICK k \in 1..s : k = (CHOOSE m \in 1..s : Ahead(m) = Ahead(s)) /\ Ahead(k) = Ahead(s)
      BY <1>4, <3>3
    <3>5. k = s
      <4>1. k \in 1..capacity /\ k \in 0..capacity
        BY <1>1, <3>2, <3>4
      <4>2. Ahead(k) = IF endIndex + k < capacity THEN endIndex + k
                       ELSE endIndex + k - capacity
        BY <4>1, AheadIs
      <4>3. Ahead(s) = IF endIndex + s < capacity THEN endIndex + s
                       ELSE endIndex + s - capacity
        BY AheadIs
      <4>4. endIndex \in 0..(capacity - 1)
        BY <1>1 DEF Ring
      <4> QED
        BY <1>1, <3>2, <3>4, <4>1, <4>2, <4>3, <4>4
    <3>6. MovedStartTime(s)[Ahead(s)] = nowInMs - secondsToMoveWindow + k
      BY <1>6, <2>1, <3>3, <3>4 DEF MovedStartTime
    <3> QED
      BY <1>1, <3>2, <3>5, <3>6
  <2> QED
    BY <2>2, <2>3
<1> QED
  BY <1>3, <1>5, <1>6

-----------------------------------------------------------------------------
(* The invariant holds of a new window and is kept by every step.          *)

LEMMA NewWindow ==
  ASSUME Init
  PROVE  /\ TypeOK /\ TotalIsSumOfRing
         /\ Len(log) = 0
         /\ \A i \in Ring : buckets[i] = NoCounts
         /\ metric = "time" => startTime[endIndex] = created
<1>1. /\ capacity \in Nat /\ capacity >= 1 /\ created \in Nat
      /\ metric \in {"time", "count"} /\ LastSecond \in Nat
  BY WindowAssumption DEF Init
<1>2. endIndex \in Ring
  BY <1>1 DEF Init, Ring
<1>3. NoCounts \in Counter
  BY DEF NoCounts, Counter
<1>4. startTime \in [Ring -> Int]
  <2>1. Ring \subseteq Int
    BY <1>1 DEF Ring
  <2>2. \A i \in Ring : (IF metric = "time" THEN created - (capacity - 1) + i ELSE 0) \in Int
    BY <1>1, <2>1
  <2> QED
    BY <2>2 DEF Init
<1>5. TypeOK
  <2>1. buckets \in [Ring -> Counter] /\ total \in Counter
    BY <1>3 DEF Init
  <2>2. nowInMs \in 0..LastSecond
    BY <1>1 DEF Init
  <2>3. log \in Seq([at : Nat, outcome : Outcomes])
    BY DEF Init
  <2> QED
    BY <1>2, <1>4, <2>1, <2>2, <2>3 DEF Init, TypeOK
<1>6. \A i \in Ring : buckets[i] = NoCounts
  BY DEF Init
<1>7. Sum(buckets, Ring) = NoCounts
  <2>1. /\ \A i \in Ring : Totals(buckets, Ring)[i] = 0
        /\ \A i \in Ring : Errors(buckets, Ring)[i] = 0
        /\ \A i \in Ring : Timeouts(buckets, Ring)[i] = 0
    BY <1>6 DEF Totals, Errors, Timeouts, NoCounts
  <2>2. /\ Cardinality(Units(Totals(buckets, Ring), Ring)) = 0
        /\ Cardinality(Units(Errors(buckets, Ring), Ring)) = 0
        /\ Cardinality(Units(Timeouts(buckets, Ring), Ring)) = 0
    BY <2>1, UnitsNone
  <2> QED
    BY <2>2, SumOfPart DEF NoCounts
<1>8. Len(log) = 0
  BY DEF Init
<1>9. metric = "time" => startTime[endIndex] = created
  BY <1>1, <1>2 DEF Init
<1>10. TotalIsSumOfRing
  BY <1>7 DEF Init, TotalIsSumOfRing
<1> QED
  BY <1>5, <1>6, <1>8, <1>9, <1>10

LEMMA InitIInv ==
  ASSUME Init
  PROVE  IInv
<1>1. \A i \in Ring : OfAge(CountAges, AgeFrom(endIndex, i)) = {}
  BY NewWindow DEF OfAge, CountAges
<1> QED
  BY <1>1, NewWindow, TallyNone DEF IInv, CountHolds

LEMMA UpdateKeepsTotal ==
  ASSUME TypeOK, TotalIsSumOfRing, NEW outcome \in Outcomes, update(outcome)
  PROVE  TypeOK' /\ TotalIsSumOfRing'
<1>1. PICK s \in 0..capacity : s = Steps
  BY StepsRange
<1>2. PICK latest \in Ring : latest = Ahead(s)
  BY AheadIs
<1>3. PICK m \in [Ring -> Counter] :
        m = MovedBuckets(s) /\ MovedTotal(s) = Sum(m, Ring) /\ MovedTotal(s) \in Counter
  BY MovedTotalIs
<1>4. /\ endIndex' = latest
      /\ buckets' = [m EXCEPT ![latest] = add(@, outcome)]
      /\ startTime' = MovedStartTime(Steps)
      /\ total' = add(Sum(m, Ring), outcome)
      /\ log' = Append(log, [at |-> nowInMs, outcome |-> outcome])
      /\ UNCHANGED <<metric, capacity, nowInMs, created>>
  BY <1>1, <1>2, <1>3 DEF update
<1>5. Ring' = Ring /\ IsFiniteSet(Ring)
  BY <1>4, RingFinite DEF Ring
<1>6. buckets' \in [Ring -> Counter] /\ Sum(buckets', Ring) = total'
  <2>1. add(m[latest], outcome) \in Counter
    BY DEF add, Counter
  <2>2. PICK b \in [Ring -> Counter] : b = [m EXCEPT ![latest] = add(@, outcome)]
    BY <2>1
  <2>3. \A i \in Ring : b[i] = IF i = latest THEN add(m[i], outcome) ELSE m[i]
    BY <2>2
  <2>4. Sum(b, Ring) = add(Sum(m, Ring), outcome)
    <3> HIDE <2>2
    <3> QED
      BY <1>5, <2>3, SumAdd
  <2> QED
    BY <1>4, <2>2, <2>4
<1>7. total' \in Counter
  BY <1>5, <1>6, SumType
<1>8. log' \in Seq([at : Nat, outcome : Outcomes])
  <2>1. log \in Seq([at : Nat, outcome : Outcomes]) /\ nowInMs \in Nat
    BY WindowAssumption DEF TypeOK
  <2>2. [at |-> nowInMs, outcome |-> outcome] \in [at : Nat, outcome : Outcomes]
    BY <2>1
  <2> QED
    BY <1>4, <2>1, <2>2, AppendProperties
<1>9. startTime' \in [Ring -> Int]
  BY <1>4, MovedStartTimeIs
<1>10. TypeOK'
  BY <1>4, <1>5, <1>6, <1>7, <1>8, <1>9 DEF TypeOK
<1> QED
  BY <1>5, <1>6, <1>10 DEF TotalIsSumOfRing

LEMMA SnapshotKeepsTotal ==
  ASSUME TypeOK, TotalIsSumOfRing, getSnapshot
  PROVE  TypeOK' /\ TotalIsSumOfRing'
<1>1. PICK s \in 0..capacity : s = Steps
  BY StepsRange
<1>2. /\ endIndex' = Ahead(s)
      /\ buckets' = MovedBuckets(s)
      /\ startTime' = MovedStartTime(Steps)
      /\ total' = MovedTotal(s)
      /\ UNCHANGED <<metric, capacity, nowInMs, created, log>>
  BY <1>1 DEF getSnapshot
<1>3. Ring' = Ring /\ endIndex' \in Ring
  BY <1>2, AheadIs DEF Ring
<1>4. buckets' \in [Ring -> Counter] /\ Sum(buckets', Ring) = total' /\ total' \in Counter
  BY <1>2, MovedTotalIs
<1>5. startTime' \in [Ring -> Int]
  BY <1>2, MovedStartTimeIs
<1>6. TypeOK'
  BY <1>2, <1>3, <1>4, <1>5 DEF TypeOK
<1> QED
  BY <1>3, <1>4, <1>6 DEF TotalIsSumOfRing

LEMMA ClockKeepsTotal ==
  ASSUME TypeOK, TotalIsSumOfRing, RefreshClock
  PROVE  TypeOK' /\ TotalIsSumOfRing' /\ nowInMs' > nowInMs
<1>1. Ring' = Ring
  BY DEF RefreshClock, Ring
<1>2. nowInMs' \in 0..LastSecond /\ nowInMs' > nowInMs
  BY WindowAssumption DEF RefreshClock, TypeOK
<1> QED
  BY <1>1, <1>2 DEF RefreshClock, TypeOK, TotalIsSumOfRing

LEMMA UpdateKeepsCount ==
  ASSUME IInv, NEW outcome \in Outcomes, update(outcome)
  PROVE  CountHolds'
<1> SUFFICES ASSUME metric' = "count" PROVE CountHolds'
  BY DEF CountHolds
<1>1. TypeOK /\ metric = "count" /\ capacity' = capacity
  BY DEF IInv, update
<1>2. PICK n \in Nat : n = Len(log)
  BY <1>1, LenProperties DEF TypeOK
<1>3. PICK ages \in [1..n -> Nat] : ages = CountAges
  <2>1. CountAges = [j \in 1..n |-> n - j]
    BY <1>2 DEF CountAges
  <2>2. \A j \in 1..n : n - j \in Nat
    OBVIOUS
  <2> QED
    BY <2>1, <2>2
<1>4. \A i \in Ring : buckets[i] = TallyOf(log, OfAge(ages, AgeFrom(endIndex, i)))
  BY <1>1, <1>3 DEF IInv, CountHolds
<1>5. Steps = SmallerOf(1, capacity)
  BY <1>1, StepsRange, CapacityPositive DEF SmallerOf
<1>6. PICK now : now = [j \in 1..(n + 1) |-> IF j = n + 1 THEN 0 ELSE ages[j] + 1]
  OBVIOUS
<1>7. \A i \in Ring : buckets'[i] = TallyOf(log', OfAge(now, AgeFrom(endIndex', i)))
  BY <1>1, <1>2, <1>4, <1>5, <1>6, UpdateHolds, 1 \in Nat
<1>8. Len(log') = n + 1
  BY <1>1, <1>2, AppendProperties DEF update, TypeOK
<1>9. CountAges' = now
  <2>1. CountAges' = [j \in 1..(n + 1) |-> n + 1 - j]
    BY <1>8 DEF CountAges
  <2>2. \A j \in 1..(n + 1) : now[j] = n + 1 - j
    BY <1>2, <1>3, <1>6 DEF CountAges
  <2> QED
    BY <1>6, <2>1, <2>2
<1>10. Ring' = Ring /\ \A i : AgeFrom(endIndex, i)' = AgeFrom(endIndex', i)
  BY <1>1 DEF Ring, AgeFrom
<1> QED
  BY <1>7, <1>9, <1>10 DEF CountHolds

LEMMA StepIInv ==
  ASSUME IInv, [Next]_vars
  PROVE  IInv'
<1> USE DEF IInv
<1>1. ASSUME NEW outcome \in Outcomes, update(outcome)
      PROVE  IInv'
  BY <1>1, UpdateKeepsTotal, UpdateKeepsCount
<1>2. CASE getSnapshot
  BY <1>2, SnapshotKeepsTotal DEF getSnapshot, CountHolds
<1>3. CASE RefreshClock
  <2>1. CountHolds'
    BY <1>3 DEF RefreshClock, CountHolds, CountAges, Ring, AgeFrom
  <2> QED
    BY <1>3, <2>1, ClockKeepsTotal
<1>4. CASE UNCHANGED vars
  BY <1>4 DEF vars, TypeOK, TotalIsSumOfRing, CountHolds, CountAges, Ring, AgeFrom
<1> QED
  BY <1>1, <1>2, <1>3, <1>4 DEF Next

LEMMA Invariance == Spec => []IInv
<1>1. Init => IInv
  BY InitIInv
<1>2. IInv /\ [Next]_vars => IInv'
  BY StepIInv
<1> QED
  BY <1>1, <1>2, PTL DEF Spec

(* The types of the fields of both windows; a part of a counter never      *)
(* exceeds its whole, so no snapshot shows more than 100 percent.          *)
THEOREM TypeCorrect == Spec => []TypeOK
<1>1. IInv => TypeOK
  BY DEF IInv
<1> QED
  BY <1>1, Invariance, PTL

(* The running total that moveForwardOneStep and moveWindowToCurrentSecond *)
(* keep is always the sum of the ring, also when the clock jumps past the  *)
(* whole window or is behind it.                                           *)
THEOREM TotalsAddUp == Spec => []TotalIsSumOfRing
<1>1. IInv => TotalIsSumOfRing
  BY DEF IInv
<1> QED
  BY <1>1, Invariance, PTL

-----------------------------------------------------------------------------
(* What Breaker assumes of its windows.                                    *)

LEMMA CountTotal ==
  ASSUME IInv, metric = "count"
  PROVE  total = TallyOf(log, {j \in 1..Len(log) : Len(log) - j < capacity})
<1>1. PICK n \in Nat : n = Len(log)
  BY LenProperties DEF IInv, TypeOK
<1>2. CountAges = [j \in 1..n |-> n - j]
  BY <1>1 DEF CountAges
<1>3. PICK ages \in [1..n -> Nat] : ages = CountAges
  <2>1. \A j \in 1..n : n - j \in Nat
    OBVIOUS
  <2> QED
    BY <1>2, <2>1
<1>4. \A i \in Ring : buckets[i] = TallyOf(log, OfAge(ages, AgeFrom(endIndex, i)))
  BY <1>3 DEF IInv, CountHolds
<1>5. endIndex \in Ring /\ TypeOK /\ total = Sum(buckets, Ring)
  BY DEF IInv, TypeOK, TotalIsSumOfRing
<1>6. Sum(buckets, Ring) = TallyOf(log, {j \in 1..n : ages[j] < capacity})
  BY <1>4, <1>5, RingHolds
<1>7. {j \in 1..n : ages[j] < capacity} = {j \in 1..n : n - j < capacity}
  BY <1>2, <1>3
<1> QED
  BY <1>1, <1>5, <1>6, <1>7

(* A count window with room left passes over a bucket that is empty.       *)
LEMMA RoomLeft ==
  ASSUME IInv, metric = "count", total.total < capacity
  PROVE  MovedTotal(Steps) = total
<1>1. /\ TypeOK /\ capacity \in Nat /\ capacity >= 1 /\ Steps = 1 /\ 1 \in 0..capacity
      /\ total \in Counter
  BY CapacityPositive, StepsRange DEF IInv, TypeOK
<1>2. PICK n \in Nat : n = Len(log)
  BY <1>1, LenProperties DEF TypeOK
<1>3. n < capacity
  <2> SUFFICES ASSUME n >= capacity PROVE FALSE
    BY <1>1
  <2>1. {j \in 1..n : n - j < capacity} = (n - capacity + 1)..n
    BY <1>1
  <2>2. Cardinality((n - capacity + 1)..n) = capacity
    <3>1. Cardinality((n - capacity + 1)..n) =
            IF n - capacity + 1 > n THEN 0 ELSE n - (n - capacity + 1) + 1
      BY <1>1, FS_Interval
    <3> QED
      BY <1>1, <3>1
  <2>3. total.total = Cardinality({j \in 1..n : n - j < capacity})
    BY <1>2, CountTotal DEF TallyOf
  <2>4. total.total = capacity
    BY <2>1, <2>2, <2>3, Zenon
  <2> QED
    BY <1>1, <2>4
<1>4. ASSUME NEW i \in Passed(1)
      PROVE  buckets[i] = NoCounts
  <2>1. i \in Ring /\ AgeFrom(endIndex, i) + 1 >= capacity
    BY <1>1, <1>4, PassedAreOldest
  <2>2. AgeFrom(endIndex, i) = capacity - 1
    <3>1. AgeFrom(endIndex, i) \in 0..(capacity - 1)
      BY <1>1, <2>1, AgesAfter
    <3> QED
      BY <1>1, <2>1, <3>1
  <2>3. OfAge(CountAges, AgeFrom(endIndex, i)) = {}
    BY <1>1, <1>2, <1>3, <2>2 DEF OfAge, CountAges
  <2>4. buckets[i] = TallyOf(log, OfAge(CountAges, AgeFrom(endIndex, i)))
    BY <2>1 DEF IInv, CountHolds
  <2> QED
    BY <2>3, <2>4, TallyNone
<1>5. Sum(buckets, Passed(1)) = NoCounts
  <2> DEFINE P == Passed(1)
  <2>1. /\ \A i \in P : Totals(buckets, P)[i] = 0
        /\ \A i \in P : Errors(buckets, P)[i] = 0
        /\ \A i \in P : Timeouts(buckets, P)[i] = 0
    BY <1>4 DEF Totals, Errors, Timeouts, NoCounts
  <2>2. /\ Cardinality(Units(Totals(buckets, P), P)) = 0
        /\ Cardinality(Units(Errors(buckets, P), P)) = 0
        /\ Cardinality(Units(Timeouts(buckets, P), P)) = 0
    BY <2>1, UnitsNone
  <2> QED
    BY <2>2, SumOfPart DEF NoCounts
<1>6. subtract(total, NoCounts) = total
  BY <1>1 DEF subtract, NoCounts, Counter
<1> QED
  BY <1>1, <1>5, <1>6 DEF MovedTotal

(* What is left of the total after a move is a part of it.                 *)
LEMMA MoveKeepsPart ==
  ASSUME IInv
  PROVE  Kept(MovedTotal(Steps))
<1>1. PICK s \in 0..capacity : s = Steps
  BY StepsRange DEF IInv
<1>2. MovedTotal(s) \in Counter /\ Sum(buckets, Passed(s)) \in Counter
  BY MovedTotalIs DEF IInv
<1>3. total \in Counter
  BY DEF IInv, TypeOK
<1>4. subtract(total, MovedTotal(s)) = Sum(buckets, Passed(s))
  <2>1. PICK k \in Counter : k = Sum(buckets, Passed(s))
    BY <1>2
  <2>2. subtract(total, subtract(total, k)) = k
    BY <1>3 DEF subtract, Counter
  <2> QED
    BY <2>1, <2>2 DEF MovedTotal
<1> QED
  BY <1>1, <1>2, <1>4, RoomLeft DEF Kept

LEMMA StepMoves ==
  ASSUME IInv, [Next]_vars
  PROVE  [\/ Kept(total')
          \/ \E outcome \in Outcomes :
               LET one == add(NoCounts, outcome)
               IN  Kept(subtract(total', one))]_vars
<1>1. ASSUME NEW outcome \in Outcomes, update(outcome)
      PROVE  Kept(subtract(total', add(NoCounts, outcome)))
  <2>1. PICK s \in 0..capacity : s = Steps
    BY StepsRange DEF IInv
  <2>2. PICK k \in Counter : k = MovedTotal(Steps)
    BY <2>1, MovedTotalIs DEF IInv
  <2>3. total' = add(k, outcome)
    BY <1>1, <2>2 DEF update
  <2>4. subtract(add(k, outcome), add(NoCounts, outcome)) = k
    BY DEF subtract, add, NoCounts, Counter
  <2> QED
    BY <2>2, <2>3, <2>4, MoveKeepsPart
<1>2. CASE getSnapshot
  BY <1>2, MoveKeepsPart DEF getSnapshot
<1>3. CASE RefreshClock
  <2>1. total \in Counter /\ total' = total
    BY <1>3 DEF RefreshClock, IInv, TypeOK
  <2>2. subtract(total, total) \in Counter
    BY <2>1 DEF subtract, Counter
  <2>3. Kept(total)
    BY <2>1, <2>2 DEF Kept
  <2> QED
    BY <2>1, <2>3
<1> QED
  BY <1>1, <1>2, <1>3 DEF Next

(* Breaker lets a window forget any part of what it holds, but a count     *)
(* window that is not full nothing, before it adds the outcome of a call:  *)
(* the windows of window.go do no more than that.                          *)
THEOREM MovesAsAssumed == Spec => TotalsMoveAsBreakerAssumes
<1>1. IInv /\ [Next]_vars =>
        [\/ Kept(total')
         \/ \E outcome \in Outcomes :
              LET one == add(NoCounts, outcome)
              IN  Kept(subtract(total', one))]_vars
  BY StepMoves
<1> QED
  BY <1>1, Invariance, PTL DEF Spec, TotalsMoveAsBreakerAssumes

-----------------------------------------------------------------------------
(***************************************************************************)
(* Time windows none of which is made ahead of the cached clock.  One that *)
(* is forgets the call it was just told (CallsOfThisSecondCounted is       *)
(* refuted), so the hypothesis cannot be dropped.                          *)
(***************************************************************************)

LEMMA InitTimeHolds ==
  ASSUME Lags \subseteq {0}, Init
  PROVE  TimeHolds
<1>1. created = 0 /\ nowInMs = 0
  BY DEF Init
<1>2. \A i \in Ring : OfAge(TimeAges, AgeFrom(endIndex, i)) = {}
  BY NewWindow DEF OfAge, TimeAges
<1>3. \A i \in Ring : buckets[i] = TallyOf(log, OfAge(TimeAges, AgeFrom(endIndex, i)))
  BY <1>2, NewWindow, TallyNone
<1>4. metric = "time" => startTime[endIndex] <= nowInMs
  BY <1>1, NewWindow
<1>5. \A j \in 1..Len(log) : log[j].at <= startTime[endIndex]
  BY NewWindow
<1> QED
  BY <1>3, <1>4, <1>5 DEF TimeHolds

(* The ages before a move, how much older it makes every call, and where   *)
(* it leaves the current bucket.                                           *)
LEMMA TimeMove ==
  ASSUME TypeOK, TimeHolds, metric = "time"
  PROVE  \E n \in Nat, jump \in Nat : \E ages \in [1..n -> Nat] :
           /\ n = Len(log) /\ ages = TimeAges
           /\ jump = differenceInSeconds
           /\ Steps = SmallerOf(jump, capacity)
           /\ \A i \in Ring : buckets[i] = TallyOf(log, OfAge(ages, AgeFrom(endIndex, i)))
           /\ \A j \in 1..n : log[j].at \in Nat /\ ages[j] + jump = nowInMs - log[j].at
           /\ MovedStartTime(Steps)[Ahead(Steps)] = nowInMs
<1>1. PICK n \in Nat : n = Len(log)
  BY LenProperties DEF TypeOK
<1>2. /\ capacity \in Nat /\ capacity >= 1 /\ endIndex \in Ring
      /\ startTime[endIndex] \in Int /\ nowInMs \in Int
      /\ startTime[endIndex] <= nowInMs
  BY CapacityPositive, WindowAssumption DEF TypeOK, TimeHolds
<1>3. \A j \in 1..n : log[j].at \in Nat /\ log[j].at <= startTime[endIndex]
  <2>1. \A j \in 1..n : log[j] \in [at : Nat, outcome : Outcomes]
    BY <1>1, ElementOfSeq DEF TypeOK
  <2> QED
    BY <1>1, <2>1 DEF TimeHolds
<1>4. PICK jump \in Nat : jump = differenceInSeconds
  BY <1>2 DEF differenceInSeconds
<1>5. TimeAges = [j \in 1..n |-> startTime[endIndex] - log[j].at]
  BY <1>1 DEF TimeAges
<1>6. PICK ages \in [1..n -> Nat] : ages = TimeAges
  <2>1. \A j \in 1..n : startTime[endIndex] - log[j].at \in Nat
    BY <1>2, <1>3
  <2> QED
    BY <1>5, <2>1
<1>7. Steps = SmallerOf(jump, capacity)
  BY <1>2, <1>4 DEF Steps, secondsToMoveWindow, SmallerOf
<1>8. \A i \in Ring : buckets[i] = TallyOf(log, OfAge(ages, AgeFrom(endIndex, i)))
  BY <1>6 DEF TimeHolds
<1>9. \A j \in 1..n : ages[j] + jump = nowInMs - log[j].at
  <2> SUFFICES ASSUME NEW j \in 1..n PROVE ages[j] + jump = nowInMs - log[j].at
    OBVIOUS
  <2>1. ages[j] = startTime[endIndex] - log[j].at /\ log[j].at \in Int
    BY <1>3, <1>5, <1>6
  <2>2. jump = nowInMs - startTime[endIndex]
    BY <1>4 DEF differenceInSeconds
  <2> QED
    BY <1>2, <2>1, <2>2
<1>10. MovedStartTime(Steps)[Ahead(Steps)] = nowInMs
  BY <1>4, MovedStartTimeIs
<1> QED
  BY <1>1, <1>3, <1>4, <1>6, <1>7, <1>8, <1>9, <1>10

LEMMA UpdateKeepsTime ==
  ASSUME TypeOK, TotalIsSumOfRing, TimeHolds, NEW outcome \in Outcomes, update(outcome)
  PROVE  TimeHolds'
<1> SUFFICES ASSUME metric' = "time" PROVE TimeHolds'
  BY DEF TimeHolds
<1>1. /\ metric = "time" /\ capacity' = capacity /\ nowInMs' = nowInMs
      /\ endIndex' = Ahead(Steps) /\ startTime' = MovedStartTime(Steps)
      /\ log' = Append(log, [at |-> nowInMs, outcome |-> outcome])
  BY DEF update
<1>2. PICK n \in Nat, jump \in Nat : \E ages \in [1..n -> Nat] :
           /\ n = Len(log) /\ ages = TimeAges
           /\ jump = differenceInSeconds
           /\ Steps = SmallerOf(jump, capacity)
           /\ \A i \in Ring : buckets[i] = TallyOf(log, OfAge(ages, AgeFrom(endIndex, i)))
           /\ \A j \in 1..n : log[j].at \in Nat /\ ages[j] + jump = nowInMs - log[j].at
           /\ MovedStartTime(Steps)[Ahead(Steps)] = nowInMs
  BY <1>1, TimeMove, Zenon
<1>3. PICK ages \in [1..n -> Nat] :
           /\ n = Len(log)
           /\ Steps = SmallerOf(jump, capacity)
           /\ \A i \in Ring : buckets[i] = TallyOf(log, OfAge(ages, AgeFrom(endIndex, i)))
           /\ \A j \in 1..n : log[j].at \in Nat /\ ages[j] + jump = nowInMs - log[j].at
           /\ MovedStartTime(Steps)[Ahead(Steps)] = nowInMs
  BY <1>2
<1>4. PICK now : now = [j \in 1..(n + 1) |-> IF j = n + 1 THEN 0 ELSE ages[j] + jump]
  OBVIOUS
<1>5. \A i \in Ring : buckets'[i] = TallyOf(log', OfAge(now, AgeFrom(endIndex', i)))
  BY <1>3, <1>4, UpdateHolds
<1>6. /\ Len(log') = n + 1
      /\ \A j \in 1..n : log'[j] = log[j]
      /\ log'[n + 1].at = nowInMs
  BY <1>1, <1>3, AppendProperties DEF TypeOK
<1>7. startTime'[endIndex'] = nowInMs /\ nowInMs \in Nat
  BY <1>1, <1>3, WindowAssumption DEF TypeOK
<1>8. \A j \in 1..(n + 1) : log'[j].at \in Nat /\ now[j] = nowInMs - log'[j].at /\ now[j] \in Nat
  BY <1>3, <1>4, <1>6, <1>7
<1>9. TimeAges' = now
  <2>1. TimeAges' = [j \in 1..(n + 1) |-> nowInMs - log'[j].at]
    BY <1>6, <1>7 DEF TimeAges
  <2> QED
    BY <1>4, <1>8, <2>1
<1>10. \A j \in 1..Len(log') : log'[j].at <= startTime'[endIndex']
  <2>1. ASSUME NEW j \in 1..(n + 1)
        PROVE  log'[j].at <= nowInMs
    <3>1. log'[j].at \in Nat /\ nowInMs - log'[j].at >= 0
      BY <1>8
    <3> QED
      BY <1>7, <3>1
  <2> QED
    BY <1>6, <1>7, <2>1
<1>11. Ring' = Ring /\ \A i : AgeFrom(endIndex, i)' = AgeFrom(endIndex', i)
  BY <1>1 DEF Ring, AgeFrom
<1> QED
  BY <1>1, <1>5, <1>7, <1>9, <1>10, <1>11 DEF TimeHolds

LEMMA SnapshotKeepsTime ==
  ASSUME TypeOK, TotalIsSumOfRing, TimeHolds, getSnapshot
  PROVE  TimeHolds'
<1>1. /\ metric = "time" /\ capacity' = capacity /\ nowInMs' = nowInMs
      /\ endIndex' = Ahead(Steps) /\ startTime' = MovedStartTime(Steps)
      /\ buckets' = MovedBuckets(Steps) /\ log' = log
  BY DEF getSnapshot
<1>2. PICK n \in Nat, jump \in Nat : \E ages \in [1..n -> Nat] :
           /\ n = Len(log) /\ ages = TimeAges
           /\ jump = differenceInSeconds
           /\ Steps = SmallerOf(jump, capacity)
           /\ \A i \in Ring : buckets[i] = TallyOf(log, OfAge(ages, AgeFrom(endIndex, i)))
           /\ \A j \in 1..n : log[j].at \in Nat /\ ages[j] + jump = nowInMs - log[j].at
           /\ MovedStartTime(Steps)[Ahead(Steps)] = nowInMs
  BY <1>1, TimeMove, Zenon
<1>3. PICK ages \in [1..n -> Nat] :
           /\ n = Len(log)
           /\ Steps = SmallerOf(jump, capacity)
           /\ \A i \in Ring : buckets[i] = TallyOf(log, OfAge(ages, AgeFrom(endIndex, i)))
           /\ \A j \in 1..n : log[j].at \in Nat /\ ages[j] + jump = nowInMs - log[j].at
           /\ MovedStartTime(Steps)[Ahead(Steps)] = nowInMs
  BY <1>2
<1>4. PICK older : older = [j \in 1..n |-> ages[j] + jump]
  OBVIOUS
<1>5. PICK s : s = Steps /\ s = SmallerOf(jump, capacity)
  BY <1>3
<1>6. \A i \in Ring : MovedBuckets(s)[i] = TallyOf(log, OfAge(older, AgeFrom(Ahead(s), i)))
  <2> SUFFICES ASSUME NEW i \in Ring
               PROVE  MovedBuckets(s)[i] = TallyOf(log, OfAge(older, AgeFrom(Ahead(s), i)))
    OBVIOUS
  <2>1. \A k \in Ring : buckets[k] = TallyOf(log, OfAge(ages, AgeFrom(endIndex, k)))
    BY <1>3
  <2>2. s = SmallerOf(jump, capacity)
    BY <1>5
  <2> QED
    BY <1>4, <2>1, <2>2, MovedHolds, Zenon
<1>7. startTime'[endIndex'] = nowInMs /\ nowInMs \in Nat
  BY <1>1, <1>3, WindowAssumption DEF TypeOK
<1>8. TimeAges' = older
  <2>1. TimeAges' = [j \in 1..n |-> nowInMs - log[j].at]
    BY <1>1, <1>3, <1>7 DEF TimeAges
  <2> QED
    BY <1>3, <1>4, <2>1
<1>9. \A j \in 1..Len(log') : log'[j].at <= startTime'[endIndex']
  BY <1>1, <1>3, <1>7
<1>10. Ring' = Ring /\ \A i : AgeFrom(endIndex, i)' = AgeFrom(endIndex', i)
  BY <1>1 DEF Ring, AgeFrom
<1> QED
  BY <1>1, <1>5, <1>6, <1>7, <1>8, <1>9, <1>10 DEF TimeHolds

LEMMA StepTimeHolds ==
  ASSUME IInv, TimeHolds, [Next]_vars
  PROVE  TimeHolds'
<1>1. ASSUME NEW outcome \in Outcomes, update(outcome)
      PROVE  TimeHolds'
  BY <1>1, UpdateKeepsTime DEF IInv
<1>2. CASE getSnapshot
  BY <1>2, SnapshotKeepsTime DEF IInv
<1>3. CASE RefreshClock
  <2>1. nowInMs' > nowInMs /\ nowInMs \in Int /\ nowInMs' \in Int
    BY <1>3, ClockKeepsTotal, WindowAssumption DEF IInv, TypeOK, RefreshClock
  <2>2. /\ UNCHANGED <<metric, capacity, endIndex, buckets, startTime, log>>
        /\ Ring' = Ring /\ TimeAges' = TimeAges
        /\ \A i : AgeFrom(endIndex, i)' = AgeFrom(endIndex, i)
    BY <1>3 DEF RefreshClock, Ring, TimeAges, AgeFrom
  <2>3. metric = "time" => startTime[endIndex] <= nowInMs'
    <3>1. startTime[endIndex] \in Int
      BY DEF IInv, TypeOK
    <3> QED
      BY <2>1, <3>1 DEF TimeHolds
  <2> QED
    BY <2>2, <2>3 DEF TimeHolds
<1>4. CASE UNCHANGED vars
  BY <1>4 DEF vars, TimeHolds, TimeAges, Ring, AgeFrom
<1> QED
  BY <1>1, <1>2, <1>3, <1>4 DEF Next

(* What a snapshot of a time window would count now.                       *)
LEMMA SnapshotCounts ==
  ASSUME IInv, TimeHolds, metric = "time"
  PROVE  MovedTotal(Steps) = Tally({j \in DOMAIN log : log[j].at > nowInMs - capacity})
<1>1. TypeOK /\ TotalIsSumOfRing
  BY DEF IInv
<1>2. PICK n \in Nat, jump \in Nat : \E ages \in [1..n -> Nat] :
           /\ n = Len(log) /\ ages = TimeAges
           /\ jump = differenceInSeconds
           /\ Steps = SmallerOf(jump, capacity)
           /\ \A i \in Ring : buckets[i] = TallyOf(log, OfAge(ages, AgeFrom(endIndex, i)))
           /\ \A j \in 1..n : log[j].at \in Nat /\ ages[j] + jump = nowInMs - log[j].at
           /\ MovedStartTime(Steps)[Ahead(Steps)] = nowInMs
  BY <1>1, TimeMove, Zenon
<1>3. PICK ages \in [1..n -> Nat] :
           /\ n = Len(log)
           /\ Steps = SmallerOf(jump, capacity)
           /\ \A i \in Ring : buckets[i] = TallyOf(log, OfAge(ages, AgeFrom(endIndex, i)))
           /\ \A j \in 1..n : log[j].at \in Nat /\ ages[j] + jump = nowInMs - log[j].at
  BY <1>2
<1>4. PICK older \in [1..n -> Nat] : older = [j \in 1..n |-> ages[j] + jump]
  <2>1. \A j \in 1..n : ages[j] + jump \in Nat
    OBVIOUS
  <2> QED
    BY <2>1
<1>5. PICK s \in 0..capacity : s = Steps /\ s = SmallerOf(jump, capacity)
  BY <1>1, <1>3, StepsRange
<1>6. PICK latest \in Ring : latest = Ahead(s)
  BY <1>1, AheadIs
<1>7. \A i \in Ring : MovedBuckets(s)[i] = TallyOf(log, OfAge(older, AgeFrom(latest, i)))
  <2>1. \A i \in Ring : MovedBuckets(s)[i] = TallyOf(log, OfAge(older, AgeFrom(Ahead(s), i)))
    <3> SUFFICES ASSUME NEW i \in Ring
                 PROVE  MovedBuckets(s)[i] = TallyOf(log, OfAge(older, AgeFrom(Ahead(s), i)))
      OBVIOUS
    <3>1. \A k \in Ring : buckets[k] = TallyOf(log, OfAge(ages, AgeFrom(endIndex, k)))
      BY <1>3
    <3>2. s = SmallerOf(jump, capacity)
      BY <1>5
    <3>3. TypeOK /\ older = [j \in 1..n |-> ages[j] + jump]
      BY <1>1, <1>4
    <3> HIDE <1>4
    <3> QED
      BY <3>1, <3>2, <3>3, MovedHolds, ZenonT(30)
  <2> QED
    BY <1>6, <2>1
<1>8. PICK b : b = MovedBuckets(s)
  OBVIOUS
<1>9. Sum(b, Ring) = TallyOf(log, {j \in 1..n : older[j] < capacity})
  BY <1>1, <1>7, <1>8, RingHolds
<1>10. {j \in 1..n : older[j] < capacity} = {j \in DOMAIN log : log[j].at > nowInMs - capacity}
  <2>1. capacity \in Int /\ nowInMs \in Int /\ DOMAIN log = 1..n
    BY <1>1, <1>3, CapacityPositive, WindowAssumption, LenProperties DEF TypeOK
  <2> QED
    BY <1>3, <1>4, <2>1
<1>11. MovedTotal(s) = Sum(b, Ring)
  BY <1>1, <1>8, MovedTotalIs
<1>12. MovedTotal(s) = TallyOf(log, {j \in DOMAIN log : log[j].at > nowInMs - capacity})
  BY <1>9, <1>10, <1>11, Zenon
<1> QED
  BY <1>5, <1>12 DEF TallyOf, Tally, Among

LEMMA CountsRecent ==
  ASSUME IInv, TimeHolds
  PROVE  RecentCallsCounted
<1>1. ASSUME metric = "count"
      PROVE  total = Tally({j \in DOMAIN log : j > Len(log) - capacity})
  <2>1. /\ capacity \in Int /\ Len(log) \in Nat /\ DOMAIN log = 1..Len(log)
    BY CapacityPositive, LenProperties DEF IInv, TypeOK
  <2>2. {j \in 1..Len(log) : Len(log) - j < capacity}
          = {j \in DOMAIN log : j > Len(log) - capacity}
    BY <2>1
  <2>3. total = TallyOf(log, {j \in DOMAIN log : j > Len(log) - capacity})
    BY <1>1, <2>2, CountTotal, Zenon
  <2> QED
    BY <2>3 DEF TallyOf, Tally, Among
<1> QED
  BY <1>1, SnapshotCounts DEF RecentCallsCounted

LEMMA WithinSecond ==
  ASSUME IInv, TimeHolds
  PROVE  CallsOfThisSecondCounted
<1> SUFFICES ASSUME metric = "time"
             PROVE  MovedTotal(Steps).total >= Cardinality({j \in DOMAIN log : log[j].at = nowInMs})
  BY DEF CallsOfThisSecondCounted
<1> DEFINE recent == {j \in DOMAIN log : log[j].at > nowInMs - capacity}
           burst  == {j \in DOMAIN log : log[j].at = nowInMs}
<1>1. MovedTotal(Steps).total = Cardinality(recent)
  BY SnapshotCounts DEF Tally
<1>2. burst \in SUBSET recent
  <2>1. capacity \in Nat /\ capacity >= 1 /\ nowInMs \in Int
    BY CapacityPositive, WindowAssumption DEF IInv, TypeOK
  <2> QED
    BY <2>1
<1>3. IsFiniteSet(recent)
  <2>1. Len(log) \in Nat /\ DOMAIN log = 1..Len(log)
    BY LenProperties DEF IInv, TypeOK
  <2>2. IsFiniteSet(1..Len(log))
    BY <2>1, FS_Interval
  <2> QED
    BY <2>1, <2>2, FS_Subset
<1> HIDE DEF recent, burst
<1>4. /\ Cardinality(burst) <= Cardinality(recent)
      /\ Cardinality(burst) \in Nat /\ Cardinality(recent) \in Nat
  BY <1>2, <1>3, FS_Subset, FS_CardinalityType
<1>5. MovedTotal(Steps).total >= Cardinality(burst)
  BY <1>1, <1>4
<1> QED
  BY <1>5 DEF burst

(* When no window is made ahead of the cached clock, a snapshot of a time  *)
(* window counts the calls of the last capacity seconds and that of a      *)
(* count window the last capacity calls, however many seconds or calls     *)
(* passed between two moves.                                               *)
THEOREM RecentCalls ==
  ASSUME Lags \subseteq {0}
  PROVE  Spec => []RecentCallsCounted
<1>1. Init => TimeHolds
  BY InitTimeHolds
<1>2. IInv /\ TimeHolds /\ [Next]_vars => TimeHolds'
  BY StepTimeHolds
<1>3. IInv /\ TimeHolds => RecentCallsCounted
  BY CountsRecent
<1> QED
  BY <1>1, <1>2, <1>3, Invariance, PTL DEF Spec

(* Under the same hypothesis a burst of calls within a second is counted   *)
(* in full: the refuted CallsOfThisSecondCounted fails for no other reason *)
(* than the clock that is behind.                                          *)
THEOREM BurstsCounted ==
  ASSUME Lags \subseteq {0}
  PROVE  Spec => []CallsOfThisSecondCounted
<1>1. Init => TimeHolds
  BY InitTimeHolds
<1>2. IInv /\ TimeHolds /\ [Next]_vars => TimeHolds'
  BY StepTimeHolds
<1>3. IInv /\ TimeHolds => CallsOfThisSecondCounted
  BY WithinSecond
<1> QED
  BY <1>1, <1>2, <1>3, Invariance, PTL DEF Spec

-----------------------------------------------------------------------------
(* The percentages of newSnapshot: between 0 and 100, never above the      *)
(* exact one, less than two below it, and 100 for a window in which every  *)
(* call counts and for no other, so that a threshold of 100 percent is     *)
(* reached exactly then, whatever the float division rounds.               *)
THEOREM PercentBounds ==
  ASSUME NEW part \in Nat, NEW whole \in Nat, part <= whole
  PROVE  /\ Percent(part, whole) \in 0..100
         /\ whole > 0 => /\ Percent(part, whole) = 100 <=> part = whole
                         /\ Percent(part, whole) * whole <= 100 * part
                         /\ 100 * part < (Percent(part, whole) + 2) * whole
<1>1. CASE whole = 0
  BY <1>1 DEF Percent
<1>2. CASE whole > 0
  <2>1. PICK q \in Int, r \in Int :
          /\ q = (100 * part) \div whole /\ r = (100 * part) % whole
          /\ 100 * part = whole * q + r /\ 0 <= r /\ r < whole
    <3>1. 100 * part \in Int
      OBVIOUS
    <3> QED
      BY <1>2, <3>1
  <2>2. PICK p \in Int : p = Percent(part, whole)
    BY <1>2, <2>1 DEF Percent, RoundedDown
  <2>3. \/ p = q /\ ~(r = 0 /\ q \in RoundedDown)
        \/ p = q - 1 /\ r = 0 /\ q \in RoundedDown
    BY <1>2, <2>1, <2>2 DEF Percent
  <2>4. q >= 0 /\ q <= 100
    <3>1. q >= 0
      <4> SUFFICES ASSUME q <= -1 PROVE FALSE
        BY <2>1
      <4>1. whole * q <= whole * (-1)
        BY <1>2, <2>1
      <4> QED
        BY <1>2, <2>1, <4>1
    <3>2. q <= 100
      <4> SUFFICES ASSUME q >= 101 PROVE FALSE
        BY <2>1
      <4>1. whole * q >= whole * 101
        BY <1>2, <2>1
      <4> QED
        BY <1>2, <2>1, <4>1
    <3> QED
      BY <3>1, <3>2
  <2>5. p \in 0..100
    BY <2>1, <2>3, <2>4 DEF RoundedDown
  <2>6. p = 100 <=> part = whole
    <3>1. ASSUME p = 100 PROVE part = whole
      <4>1. q = 100
        BY <2>3, <2>4, <3>1 DEF RoundedDown
      <4> QED
        BY <1>2, <2>1, <4>1
    <3>2. ASSUME part = whole PROVE p = 100
      <4>1. q = 100
        <5> SUFFICES ASSUME q <= 99 PROVE FALSE
          BY <2>1, <2>4
        <5>1. whole * q <= whole * 99
          BY <1>2, <2>1
        <5> QED
          BY <1>2, <2>1, <3>2, <5>1
      <4> QED
        BY <2>3, <4>1 DEF RoundedDown
    <3> QED
      BY <3>1, <3>2
  <2>7. p * whole <= 100 * part /\ 100 * part < (p + 2) * whole
    <3>1. CASE p = q
      <4>1. p * whole = whole * q /\ (p + 2) * whole = whole * q + 2 * whole
        BY <1>2, <2>1, <3>1
      <4> QED
        BY <1>2, <2>1, <4>1
    <3>2. CASE p = q - 1
      <4>1. p * whole = whole * q - whole /\ (p + 2) * whole = whole * q + whole
        BY <1>2, <2>1, <3>2
      <4> QED
        BY <1>2, <2>1, <2>3, <3>2, <4>1
    <3> QED
      BY <2>3, <3>1, <3>2
  <2> QED
    BY <2>2, <2>5, <2>6, <2>7
<1> QED
  BY <1>1, <1>2
=============================================================================
