---------------------------- MODULE CommonLemmas ----------------------------
(***************************************************************************)
(* Facts about settings and sums that the proofs about breakers, the       *)
(* semaphore, the registry and the windows share.                          *)
(***************************************************************************)
EXTENDS Limiters, FiniteSetTheorems, TLAPS

(* What a breaker derives from a valid Config is a setting, and one in     *)
(* which no state decides on an empty window.                              *)
LEMMA SettingType ==
  ASSUME NEW config \in Config, IsValidConfig(config)
  PROVE  LET s == fillDefaultsAndGetSetting(config)
         IN  /\ s \in Setting
             /\ s.Config.NumberOfCallsInSemiOpenState >= 1
             /\ s.Config.MinimumNumberOfCalls >= 1
<1>1. NewDefaultConfig \in Config
  BY DEF NewDefaultConfig, Config
<1>2. EnabledCheckers(config) \in SUBSET Checkers
  BY DEF EnabledCheckers
<1> DEFINE s == fillDefaultsAndGetSetting(config)
<1>3. s \in Setting
  BY <1>1, <1>2 DEF fillDefaultsAndGetSetting, Setting, Config
<1>4. s.Config.NumberOfCallsInSemiOpenState >= 1 /\ s.Config.MinimumNumberOfCalls >= 1
  BY DEF fillDefaultsAndGetSetting, Config, IsValidConfig, NewDefaultConfig
<1> QED
  BY <1>3, <1>4

-----------------------------------------------------------------------------
(* Sums, as the number of units.                                           *)

LEMMA UnitsAdd ==
  ASSUME NEW w, NEW S, NEW c, c \notin S, w[c] \in Nat, IsFiniteSet(Units(w, S))
  PROVE  /\ IsFiniteSet(Units(w, S \cup {c}))
         /\ Cardinality(Units(w, S \cup {c})) = Cardinality(Units(w, S)) + w[c]
<1> DEFINE mine == {c} \X (1..w[c])
<1>1. IsFiniteSet({c}) /\ Cardinality({c}) = 1
  BY FS_Singleton
<1>2. IsFiniteSet(mine) /\ Cardinality(mine) = w[c]
  <2>1. IsFiniteSet(1..w[c]) /\ Cardinality(1..w[c]) = IF 1 > w[c] THEN 0 ELSE w[c] - 1 + 1
    BY FS_Interval
  <2>2. Cardinality(1..w[c]) = w[c]
    BY <2>1
  <2>3. IsFiniteSet(mine) /\ Cardinality(mine) = Cardinality({c}) * Cardinality(1..w[c])
    BY <1>1, <2>1, FS_Product, Zenon
  <2> QED
    BY <1>1, <2>2, <2>3
<1>3. /\ Units(w, S \cup {c}) = Units(w, S) \cup mine
      /\ Units(w, S) \cap mine = {}
  BY DEF Units
<1>4. Cardinality(Units(w, S)) \in Nat
  BY FS_CardinalityType
<1> HIDE DEF mine
<1>5. /\ IsFiniteSet(Units(w, S) \cup mine)
      /\ Cardinality(Units(w, S) \cup mine) =
           Cardinality(Units(w, S)) + Cardinality(mine) - Cardinality(Units(w, S) \cap mine)
  BY <1>2, FS_Union
<1>6. Cardinality(Units(w, S) \cap mine) = 0
  BY <1>3, FS_EmptySet
<1>7. Cardinality(Units(w, S) \cup mine) = Cardinality(Units(w, S)) + w[c]
  BY <1>2, <1>4, <1>5, <1>6
<1> QED
  BY <1>3, <1>5, <1>7, Zenon

LEMMA UnitsRemove ==
  ASSUME NEW w, NEW S, NEW c \in S, w[c] \in Nat, IsFiniteSet(Units(w, S))
  PROVE  /\ IsFiniteSet(Units(w, S \ {c}))
         /\ Cardinality(Units(w, S \ {c})) = Cardinality(Units(w, S)) - w[c]
         /\ Cardinality(Units(w, S \ {c})) \in Nat
<1> DEFINE R == S \ {c}
<1>1. Units(w, R) \subseteq Units(w, S)
  BY DEF Units
<1>2. IsFiniteSet(Units(w, R)) /\ Cardinality(Units(w, R)) \in Nat
  BY <1>1, FS_Subset, FS_CardinalityType
<1>3. R \cup {c} = S /\ c \notin R
  OBVIOUS
<1> HIDE DEF R
<1>4. Cardinality(Units(w, S)) = Cardinality(Units(w, R)) + w[c]
  BY <1>2, <1>3, UnitsAdd
<1> QED
  BY <1>2, <1>4 DEF R

LEMMA UnitsSame ==
  ASSUME NEW v, NEW w, NEW S, \A c \in S : v[c] = w[c]
  PROVE  Units(v, S) = Units(w, S)
BY DEF Units
=============================================================================
