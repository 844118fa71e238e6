--------------------------- MODULE SemaphoreProofs ---------------------------
(***************************************************************************)
(* Theorems about WeightedSemaphore, for every number of callers, all      *)
(* weights and every size.                                                 *)
(***************************************************************************)
EXTENDS WeightedSemaphore, CommonLemmas, SequenceTheorems

-----------------------------------------------------------------------------
(* Queues in which nobody stands twice.                                    *)

LEMMA AppendFacts ==
  ASSUME NEW S, NEW s \in Seq(S), NEW c \in S, IsInjective(s), c \notin ToSet(s)
  PROVE  /\ Append(s, c) \in Seq(S)
         /\ Append(s, c) # <<>>
         /\ ToSet(Append(s, c)) = ToSet(s) \cup {c}
         /\ IsInjective(Append(s, c))
         /\ Head(Append(s, c)) = IF s = <<>> THEN c ELSE Head(s)
<1> DEFINE t == Append(s, c)
<1>1. /\ t \in Seq(S) /\ t # <<>> /\ Len(t) = Len(s) + 1
      /\ \A i \in 1..Len(s) : t[i] = s[i]
      /\ t[Len(s) + 1] = c
  BY AppendProperties
<1>2. /\ Len(s) \in Nat /\ DOMAIN s = 1..Len(s) /\ DOMAIN t = 1..(Len(s) + 1)
  BY <1>1, LenProperties
<1>3. Head(t) = IF s = <<>> THEN c ELSE Head(s)
  BY HeadTailAppend
<1> HIDE DEF t
<1>4. ToSet(t) = ToSet(s) \cup {c}
  BY <1>1, <1>2 DEF ToSet
<1>5. IsInjective(t)
  BY <1>1, <1>2 DEF IsInjective, ToSet
<1> QED
  BY <1>1, <1>3, <1>4, <1>5 DEF t

LEMMA TailFacts ==
  ASSUME NEW S, NEW s \in Seq(S), IsInjective(s), s # <<>>
  PROVE  /\ Tail(s) \in Seq(S)
         /\ Head(s) \in ToSet(s)
         /\ ToSet(Tail(s)) = ToSet(s) \ {Head(s)}
         /\ IsInjective(Tail(s))
         /\ Head(s) = s[1]
<1> DEFINE t == Tail(s)
<1>1. /\ t \in Seq(S) /\ Len(t) = Len(s) - 1
      /\ \A i \in 1..Len(t) : t[i] = s[i + 1]
  BY HeadTailProperties
<1>2. /\ Len(s) \in Nat \ {0} /\ DOMAIN s = 1..Len(s) /\ DOMAIN t = 1..(Len(s) - 1)
  BY <1>1, LenProperties, EmptySeq
<1>3. Head(s) = s[1]
  OBVIOUS
<1> HIDE DEF t
<1>4. \A j \in 1..Len(s) : j # 1 => j - 1 \in 1..Len(t) /\ s[j] = t[j - 1]
  BY <1>1, <1>2
<1>5. ToSet(t) = ToSet(s) \ {Head(s)}
  <2>1. \A j \in 1..(Len(s) - 1) : t[j] = s[j + 1] /\ j + 1 \in 1..Len(s) /\ j + 1 # 1
    BY <1>1, <1>2
  <2>2. \A x \in ToSet(t) : x \in ToSet(s) /\ x # s[1]
    <3> SUFFICES ASSUME NEW j \in 1..(Len(s) - 1)
                 PROVE  t[j] \in ToSet(s) /\ t[j] # s[1]
      BY <1>2 DEF ToSet
    <3> QED
      BY <1>2, <2>1 DEF ToSet, IsInjective
  <2>3. \A x \in ToSet(s) : x # s[1] => x \in ToSet(t)
    <3> SUFFICES ASSUME NEW j \in 1..Len(s), s[j] # s[1]
                 PROVE  s[j] \in ToSet(t)
      BY <1>2 DEF ToSet
    <3>1. j - 1 \in DOMAIN t /\ s[j] = t[j - 1]
      BY <1>1, <1>2, <1>4
    <3> QED
      BY <3>1 DEF ToSet
  <2> QED
    BY <1>3, <2>2, <2>3
<1>6. IsInjective(t) /\ Head(s) \in ToSet(s)
  BY <1>1, <1>2, <1>3 DEF IsInjective, ToSet
<1> QED
  BY <1>1, <1>3, <1>5, <1>6 DEF t

LEMMA RemoveFacts ==
  ASSUME NEW S, NEW s \in Seq(S), IsInjective(s), NEW i \in DOMAIN s
  PROVE  /\ RemoveAt(s, i) \in Seq(S)
         /\ ToSet(RemoveAt(s, i)) = ToSet(s) \ {s[i]}
         /\ IsInjective(RemoveAt(s, i))
         /\ i # 1 => RemoveAt(s, i) # <<>> /\ Head(RemoveAt(s, i)) = Head(s)
<1> DEFINE a == SubSeq(s, 1, i - 1)
           b == SubSeq(s, i + 1, Len(s))
           t == a \o b
<1>1. /\ Len(s) \in Nat /\ DOMAIN s = 1..Len(s) /\ i \in 1..Len(s)
      /\ \A j \in 1..Len(s) : s[j] \in S
  BY LenProperties, ElementOfSeq
<1>2. /\ a \in Seq(S) /\ Len(a) = i - 1 /\ \A j \in 1..(i - 1) : a[j] = s[j]
  <2>1. \A j \in 1..(i - 1) : s[j] \in S
    BY <1>1
  <2>2. /\ a \in Seq(S)
        /\ Len(a) = IF 1 <= i - 1 THEN i - 1 - 1 + 1 ELSE 0
        /\ \A j \in 1..(i - 1 - 1 + 1) : a[j] = s[1 + j - 1]
    BY <1>1, <2>1, SubSeqProperties
  <2> QED
    BY <1>1, <2>2
<1>3. /\ b \in Seq(S) /\ Len(b) = Len(s) - i
      /\ \A j \in 1..(Len(s) - i) : b[j] = s[i + j]
  <2>1. \A j \in (i + 1)..Len(s) : s[j] \in S
    BY <1>1
  <2>2. /\ b \in Seq(S)
        /\ Len(b) = IF i + 1 <= Len(s) THEN Len(s) - (i + 1) + 1 ELSE 0
        /\ \A j \in 1..(Len(s) - (i + 1) + 1) : b[j] = s[i + 1 + j - 1]
    BY <1>1, <2>1, SubSeqProperties
  <2>3. Len(s) - (i + 1) + 1 = Len(s) - i /\ \A j \in Int : i + 1 + j - 1 = i + j
    BY <1>1
  <2>4. Len(b) = Len(s) - i
    BY <1>1, <2>2
  <2> HIDE DEF b
  <2>5. \A j \in 1..(Len(s) - i) : b[j] = s[i + j]
    <3> SUFFICES ASSUME NEW j \in 1..(Len(s) - i) PROVE b[j] = s[i + j]
      OBVIOUS
    <3>1. j \in 1..(Len(s) - (i + 1) + 1) /\ i + 1 + j - 1 = i + j
      BY <1>1, <2>3
    <3>2. b[j] = s[i + 1 + j - 1]
      BY <2>2, <3>1
    <3> QED
      BY <3>1, <3>2
  <2> QED
    BY <2>2, <2>4, <2>5
<1> HIDE DEF a, b
<1>4. /\ t \in Seq(S)
      /\ DOMAIN t = 1..(Len(s) - 1)
      /\ \A j \in 1..(Len(s) - 1) : t[j] = IF j < i THEN s[j] ELSE s[j + 1]
  <2>1. /\ t \in Seq(S) /\ Len(t) = Len(a) + Len(b)
        /\ \A j \in 1..(Len(a) + Len(b)) :
             t[j] = IF j <= Len(a) THEN a[j] ELSE b[j - Len(a)]
    BY <1>2, <1>3, ConcatProperties
  <2>2. DOMAIN t = 1..Len(t)
    BY <2>1, LenProperties
  <2> HIDE DEF t
  <2>3. Len(a) + Len(b) = Len(s) - 1
    BY <1>1, <1>2, <1>3
  <2>4. ASSUME NEW j \in 1..(Len(s) - 1)
        PROVE  t[j] = IF j < i THEN s[j] ELSE s[j + 1]
    <3>1. t[j] = IF j <= i - 1 THEN a[j] ELSE b[j - (i - 1)]
      BY <1>2, <2>1, <2>3
    <3>2. CASE j < i
      BY <1>1, <1>2, <3>1, <3>2
    <3>3. CASE ~(j < i)
      <4>1. j - (i - 1) \in 1..(Len(s) - i) /\ i + (j - (i - 1)) = j + 1 /\ ~(j <= i - 1)
        BY <1>1, <3>3
      <4>2. b[j - (i - 1)] = s[i + (j - (i - 1))]
        BY <1>3, <4>1
      <4> QED
        BY <3>1, <3>3, <4>1, <4>2
    <3> QED
      BY <3>2, <3>3
  <2> QED
    BY <2>1, <2>2, <2>3, <2>4
<1> HIDE DEF t
<1>5. \A j \in 1..Len(s) : j # i =>
        \E k \in 1..(Len(s) - 1) : t[k] = s[j]
  <2> SUFFICES ASSUME NEW j \in 1..Len(s), j # i
               PROVE  \E k \in 1..(Len(s) - 1) : t[k] = s[j]
    OBVIOUS
  <2>1. CASE j < i
    BY <1>1, <1>4, <2>1
  <2>2. CASE j > i
    <3>1. j - 1 \in 1..(Len(s) - 1) /\ t[j - 1] = s[j]
      BY <1>1, <1>4, <2>2
    <3> QED
      BY <3>1
  <2> QED
    BY <1>1, <2>1, <2>2
<1>6. ToSet(t) = ToSet(s) \ {s[i]}
  <2>1. \A k \in 1..(Len(s) - 1) : t[k] \in ToSet(s) \ {s[i]}
    BY <1>1, <1>4 DEF ToSet, IsInjective
  <2>2. \A x \in ToSet(s) \ {s[i]} : x \in ToSet(t)
    <3> SUFFICES ASSUME NEW j \in 1..Len(s), s[j] # s[i] PROVE s[j] \in ToSet(t)
      BY <1>1 DEF ToSet
    <3>1. PICK k \in 1..(Len(s) - 1) : t[k] = s[j]
      BY <1>5
    <3> QED
      BY <1>4, <3>1 DEF ToSet
  <2> QED
    BY <1>4, <2>1, <2>2 DEF ToSet
<1>7. IsInjective(t)
  <2> SUFFICES ASSUME NEW j \in 1..(Len(s) - 1), NEW k \in 1..(Len(s) - 1), t[j] = t[k]
               PROVE  j = k
    BY <1>4 DEF IsInjective
  <2> DEFINE at(m) == IF m < i THEN m ELSE m + 1
  <2>1. at(j) \in 1..Len(s) /\ at(k) \in 1..Len(s) /\ s[at(j)] = s[at(k)]
    BY <1>1, <1>4
  <2>2. at(j) = at(k)
    BY <1>1, <2>1 DEF IsInjective
  <2> QED
    BY <1>1, <2>2
<1>8. ASSUME i # 1 PROVE t # <<>> /\ Head(t) = Head(s)
  <2>1. 1 \in DOMAIN t /\ t[1] = s[1]
    BY <1>1, <1>4, <1>8
  <2>2. t # <<>>
    BY <1>4, <2>1, EmptySeq, LenProperties
  <2>3. s # <<>>
    BY <1>1, EmptySeq
  <2> QED
    BY <1>4, <2>1, <2>2, <2>3
<1> QED
  BY <1>4, <1>6, <1>7, <1>8 DEF t, a, b, RemoveAt

-----------------------------------------------------------------------------
(* Counts that wrap.                                                       *)

LEMMA WrapType ==
  ASSUME NEW a \in Int
  PROVE  Wrap(a) \in 0..(CountWidth - 1)
BY SemaphoreAssumption DEF Wrap

LEMMA Division ==
  ASSUME NEW a \in Int
  PROVE  \E q \in Int, r \in 0..(CountWidth - 1) : a = CountWidth * q + r /\ Wrap(a) = r
<1>1. /\ a \div CountWidth \in Int /\ a % CountWidth \in 0..(CountWidth - 1)
      /\ a = CountWidth * (a \div CountWidth) + (a % CountWidth)
  BY SemaphoreAssumption
<1> QED
  BY <1>1 DEF Wrap

LEMMA Remainder ==
  ASSUME NEW q \in Int, NEW r \in 0..(CountWidth - 1)
  PROVE  Wrap(CountWidth * q + r) = r
BY SemaphoreAssumption DEF Wrap

(* To wrap before adding makes no difference.                              *)
LEMMA WrapAdd ==
  ASSUME NEW a \in Int, NEW b \in Int
  PROVE  Wrap(Wrap(a) + b) = Wrap(a + b)
<1>1. PICK q \in Int, r \in 0..(CountWidth - 1) : a = CountWidth * q + r /\ Wrap(a) = r
  BY Division
<1>2. PICK p \in Int, s \in 0..(CountWidth - 1) :
        r + b = CountWidth * p + s /\ Wrap(r + b) = s
  <2>1. r + b \in Int
    BY SemaphoreAssumption
  <2> QED
    BY <2>1, Division
<1>3. a + b = CountWidth * (q + p) + s /\ q + p \in Int
  BY <1>1, <1>2, SemaphoreAssumption
<1>4. Wrap(a + b) = s
  <2> HIDE <1>1, <1>2
  <2> QED
    BY <1>3, Remainder
<1> QED
  BY <1>1, <1>2, <1>4

-----------------------------------------------------------------------------
(* The inductive invariant.                                                *)

(* Whoever is in the loop of notifyWaiters has the mutex.                  *)
MutexOfNotifier == \A c \in Callers : pc[c] = "notifying" <=> mu = c

(* Only who may wait and can ever be served gets into the queue.           *)
QueuedMayWait ==
  \A c \in Callers :
    pc[c] \in {"waiting", "expired"} => maxWaitDuration > 0 /\ n[c] <= Size

TokensFinite == IsFiniteSet(Units(n, Charged)) /\ IsFiniteSet(Units(n, Counted))

IInv ==
  /\ TypeOK
  /\ QueueIsTheWaiting
  /\ MutexOfNotifier
  /\ QueuedMayWait
  /\ TokensFinite
  /\ TokensConserved
  /\ CountDriftsByFailuresOnly
  /\ NoWaiterLeftAsleep

-----------------------------------------------------------------------------
(* What becomes of the tokens and of the count.                            *)

LEMMA Numbers ==
  ASSUME IInv
  PROVE  /\ cur \in Nat
         /\ failed \in Nat
         /\ \A c \in Callers : n[c] \in Nat
<1>1. cur \in Nat /\ failed \in 0..(CountWidth - 1) /\ n \in [Callers -> Factors]
  BY Zenon DEF IInv, TypeOK
<1>2. failed \in Nat
  BY <1>1, SemaphoreAssumption
<1>3. \A c \in Callers : n[c] \in Nat
  BY <1>1, SemaphoreAssumption
<1> QED
  BY <1>1, <1>2, <1>3

TokensRight == TokensConserved /\ IsFiniteSet(Units(n, Charged))

CountRight == CountDriftsByFailuresOnly /\ IsFiniteSet(Units(n, Counted))

LEMMA TokensUnmoved ==
  ASSUME IInv, Charged' = Charged, cur' = cur, \A c \in Charged : n'[c] = n[c]
  PROVE  TokensRight'
<1>1. Units(n', Charged') = Units(n, Charged)
  BY UnitsSame
<1> QED
  BY <1>1 DEF IInv, TokensFinite, TokensConserved, TokensRight

LEMMA TokensTaken ==
  ASSUME IInv, NEW c \in Callers, c \notin Charged,
         Charged' = Charged \cup {c}, n' = n, cur' = cur + n[c], Fits(c)
  PROVE  TokensRight'
<1>1. n[c] \in Nat /\ cur \in Nat
  BY Numbers
<1>2. /\ IsFiniteSet(Units(n, Charged \cup {c}))
      /\ Cardinality(Units(n, Charged \cup {c})) = Cardinality(Units(n, Charged)) + n[c]
  BY <1>1, UnitsAdd DEF IInv, TokensFinite
<1>3. cur = Cardinality(Units(n, Charged))
  BY DEF IInv, TokensConserved
<1>4. cur' <= Size
  BY <1>1, SemaphoreAssumption DEF Fits
<1> QED
  BY <1>2, <1>3, <1>4 DEF TokensRight, TokensConserved

LEMMA TokensReturned ==
  ASSUME IInv, NEW c \in Callers, c \in Charged,
         Charged' = Charged \ {c}, n' = n,
         cur' = IF cur - n[c] < 0 THEN 0 ELSE cur - n[c]
  PROVE  TokensRight'
<1>1. n[c] \in Nat /\ cur \in Nat
  BY Numbers
<1>2. /\ IsFiniteSet(Units(n, Charged \ {c}))
      /\ Cardinality(Units(n, Charged \ {c})) = Cardinality(Units(n, Charged)) - n[c]
      /\ Cardinality(Units(n, Charged \ {c})) \in Nat
  BY <1>1, UnitsRemove DEF IInv, TokensFinite
<1>3. cur = Cardinality(Units(n, Charged)) /\ cur <= Size
  BY DEF IInv, TokensConserved
<1>4. cur' = cur - n[c] /\ cur' <= Size
  BY <1>1, <1>2, <1>3, SemaphoreAssumption
<1> QED
  BY <1>2, <1>3, <1>4 DEF TokensRight, TokensConserved

LEMMA CountUnmoved ==
  ASSUME IInv, Counted' = Counted, n' = n, failed' = failed,
         uncappedConcurrencyCount' = uncappedConcurrencyCount
  PROVE  CountRight'
BY DEF IInv, TokensFinite, CountDriftsByFailuresOnly, CountRight

LEMMA CountEntered ==
  ASSUME IInv, NEW c \in Callers, NEW weight \in Factors, c \notin Counted,
         Counted' = Counted \cup {c}, n' = [n EXCEPT ![c] = weight], failed' = failed,
         uncappedConcurrencyCount' = Wrap(uncappedConcurrencyCount + weight)
  PROVE  CountRight'
<1>1. n'[c] = weight /\ weight \in Nat /\ failed \in Nat
  BY SemaphoreAssumption DEF IInv, TypeOK
<1>2. Units(n', Counted) = Units(n, Counted)
  <2>1. \A d \in Counted : n'[d] = n[d]
    BY DEF IInv, TypeOK, Counted
  <2> QED
    BY <2>1, UnitsSame
<1>3. IsFiniteSet(Units(n', Counted))
  BY <1>2 DEF IInv, TokensFinite
<1>4. /\ IsFiniteSet(Units(n', Counted \cup {c}))
      /\ Cardinality(Units(n', Counted \cup {c})) = Cardinality(Units(n, Counted)) + weight
  BY <1>1, <1>2, <1>3, UnitsAdd
<1> DEFINE k == Cardinality(Units(n, Counted))
<1>5. k \in Nat
  BY FS_CardinalityType DEF IInv, TokensFinite
<1>6. uncappedConcurrencyCount = Wrap(failed + k)
  BY DEF IInv, CountDriftsByFailuresOnly
<1> HIDE DEF k
<1>7. Wrap(Wrap(failed + k) + weight) = Wrap(failed + k + weight)
  BY <1>1, <1>5, WrapAdd
<1>8. failed + k + weight = failed + (k + weight)
  BY <1>1, <1>5
<1>9. uncappedConcurrencyCount' = Wrap(failed' + (k + weight))
  BY <1>6, <1>7, <1>8
<1> QED
  BY <1>4, <1>9 DEF CountRight, CountDriftsByFailuresOnly, k

(* The count does not change when an acquire fails, and failed does.       *)
LEMMA CountFailed ==
  ASSUME IInv, NEW c \in Callers, c \in Counted,
         Counted' = Counted \ {c}, n' = n, Fail(c),
         uncappedConcurrencyCount' = uncappedConcurrencyCount
  PROVE  CountRight'
<1>1. n[c] \in Nat /\ failed \in Nat
  BY Numbers
<1> DEFINE k == Cardinality(Units(n, Counted))
           l == Cardinality(Units(n, Counted \ {c}))
<1>2. IsFiniteSet(Units(n, Counted \ {c})) /\ l = k - n[c] /\ l \in Nat
  BY <1>1, UnitsRemove DEF IInv, TokensFinite
<1>3. k \in Nat
  BY FS_CardinalityType DEF IInv, TokensFinite
<1>4. uncappedConcurrencyCount = Wrap(failed + k)
  BY DEF IInv, CountDriftsByFailuresOnly
<1>5. uncappedConcurrencyCount' = Wrap(failed' + l)
  <2> HIDE DEF k, l
  <2>1. failed' = Wrap(failed + n[c])
    BY DEF Fail
  <2>2. Wrap(Wrap(failed + n[c]) + l) = Wrap(failed + n[c] + l)
    BY <1>1, <1>2, WrapAdd
  <2>3. failed + n[c] + l = failed + k
    BY <1>1, <1>2, <1>3
  <2> QED
    BY <1>4, <2>1, <2>2, <2>3
<1> QED
  BY <1>2, <1>5 DEF CountRight, CountDriftsByFailuresOnly

LEMMA CountLeft ==
  ASSUME IInv, NEW c \in Callers, c \in Counted,
         Counted' = Counted \ {c}, n' = n, failed' = failed,
         uncappedConcurrencyCount' = Wrap(uncappedConcurrencyCount - n[c])
  PROVE  CountRight'
<1>1. n[c] \in Nat /\ failed \in Nat
  BY Numbers
<1> DEFINE k == Cardinality(Units(n, Counted))
           l == Cardinality(Units(n, Counted \ {c}))
<1>2. IsFiniteSet(Units(n, Counted \ {c})) /\ l = k - n[c]
  BY <1>1, UnitsRemove DEF IInv, TokensFinite
<1>3. k \in Nat
  BY FS_CardinalityType DEF IInv, TokensFinite
<1>4. uncappedConcurrencyCount = Wrap(failed + k)
  BY DEF IInv, CountDriftsByFailuresOnly
<1>5. uncappedConcurrencyCount' = Wrap(failed' + l)
  <2> HIDE DEF k, l
  <2>0. failed + k \in Int /\ -n[c] \in Int
    BY <1>1, <1>3
  <2>1. Wrap(Wrap(failed + k) + (-n[c])) = Wrap(failed + k + (-n[c]))
    BY <2>0, WrapAdd
  <2>2. Wrap(failed + k) \in Int
    BY <1>1, <1>3, WrapType
  <2>3. /\ failed + k + (-n[c]) = failed + l
        /\ Wrap(failed + k) + (-n[c]) = uncappedConcurrencyCount - n[c]
    BY <1>1, <1>2, <1>3, <1>4, <2>2
  <2> QED
    BY <2>1, <2>3
<1> QED
  BY <1>2, <1>5 DEF CountRight, CountDriftsByFailuresOnly

-----------------------------------------------------------------------------
(* The queue and its front.                                                *)

LEMMA FrontFacts ==
  ASSUME IInv, waiters # <<>>
  PROVE  /\ Head(waiters) \in Callers /\ Head(waiters) \in ToSet(waiters)
         /\ pc[Head(waiters)] \in {"waiting", "expired"}
         /\ Head(waiters) \notin ready
         /\ Tail(waiters) \in Seq(Callers)
         /\ ToSet(Tail(waiters)) = ToSet(waiters) \ {Head(waiters)}
         /\ IsInjective(Tail(waiters))
<1>1. waiters \in Seq(Callers) /\ IsInjective(waiters)
  BY DEF IInv, TypeOK, QueueIsTheWaiting
<1>2. /\ Head(waiters) \in ToSet(waiters) /\ Tail(waiters) \in Seq(Callers)
      /\ ToSet(Tail(waiters)) = ToSet(waiters) \ {Head(waiters)}
      /\ IsInjective(Tail(waiters))
  BY <1>1, TailFacts
<1>3. ToSet(waiters) = {c \in Callers : pc[c] \in {"waiting", "expired"}} \ ready
  BY DEF IInv, QueueIsTheWaiting
<1> QED
  BY <1>2, <1>3

(* A step that leaves the queue and the tokens alone, and does not unlock, *)
(* leaves nobody asleep.                                                   *)
LEMMA FrontUnmoved ==
  ASSUME IInv, waiters' = waiters, cur' = cur, mu' = NoOne => mu = NoOne,
         \A c \in ToSet(waiters) : n'[c] = n[c]
  PROVE  NoWaiterLeftAsleep'
<1>1. waiters # <<>> => n'[Head(waiters)] = n[Head(waiters)]
  BY FrontFacts
<1> QED
  BY <1>1 DEF IInv, NoWaiterLeftAsleep, FrontFits, Fits

(* LeaveQueue takes its caller, who is in the queue, out of it.            *)
LEMMA LeaveQueueFacts ==
  ASSUME IInv, NEW c \in Callers, pc[c] = "expired", c \notin ready, LeaveQueue(c)
  PROVE  /\ waiters # <<>>
         /\ waiters' \in Seq(Callers)
         /\ ToSet(waiters') = ToSet(waiters) \ {c}
         /\ IsInjective(waiters')
         /\ Head(waiters) # c => waiters' # <<>> /\ Head(waiters') = Head(waiters)
<1>1. waiters \in Seq(Callers) /\ IsInjective(waiters)
  BY DEF IInv, TypeOK, QueueIsTheWaiting
<1>2. c \in ToSet(waiters)
  BY DEF IInv, QueueIsTheWaiting
<1>3. PICK i \in DOMAIN waiters : waiters[i] = c /\ waiters' = RemoveAt(waiters, i)
  BY <1>2 DEF LeaveQueue
<1>4. waiters # <<>>
  BY <1>2 DEF ToSet
<1>5. /\ waiters' \in Seq(Callers)
      /\ ToSet(waiters') = ToSet(waiters) \ {c}
      /\ IsInjective(waiters')
      /\ i # 1 => waiters' # <<>> /\ Head(waiters') = Head(waiters)
  BY <1>1, <1>3, RemoveFacts
<1>6. Head(waiters) = waiters[1]
  BY <1>1, <1>4, TailFacts
<1> QED
  BY <1>3, <1>4, <1>5, <1>6

-----------------------------------------------------------------------------
(* One lemma per action.                                                   *)

LEMMA CountStep ==
  ASSUME IInv, NEW c \in Callers, Count(c)
  PROVE  IInv'
<1>0. PICK weight \in Factors :
        /\ pc[c] = "idle"
        /\ n' = [n EXCEPT ![c] = weight]
        /\ uncappedConcurrencyCount' = Wrap(uncappedConcurrencyCount + weight)
        /\ pc' = [pc EXCEPT ![c] = "counted"]
        /\ UNCHANGED <<cur, waiters, ready, mu, failed>>
  BY DEF Count, Goto
<1>1. TypeOK'
  <2>1. uncappedConcurrencyCount + weight \in Int
    BY SemaphoreAssumption DEF IInv, TypeOK
  <2> QED
    BY <1>0, <2>1, WrapType DEF IInv, TypeOK, Places
<1>2. QueueIsTheWaiting'
  BY <1>0 DEF IInv, TypeOK, QueueIsTheWaiting
<1>3. MutexOfNotifier' /\ QueuedMayWait'
  BY <1>0 DEF IInv, TypeOK, MutexOfNotifier, QueuedMayWait
<1>4. TokensRight'
  <2>1. Charged' = Charged /\ \A d \in Charged : n'[d] = n[d]
    BY <1>0 DEF IInv, TypeOK, QueueIsTheWaiting, Charged
  <2> QED
    BY <1>0, <2>1, TokensUnmoved
<1>5. CountRight'
  <2>1. Counted' = Counted \cup {c} /\ c \notin Counted
    BY <1>0 DEF IInv, TypeOK, Counted
  <2> QED
    BY <1>0, <2>1, CountEntered
<1>6. NoWaiterLeftAsleep'
  <2>1. \A d \in ToSet(waiters) : n'[d] = n[d]
    BY <1>0 DEF IInv, TypeOK, QueueIsTheWaiting
  <2> QED
    BY <1>0, <2>1, FrontUnmoved
<1> QED
  BY <1>1, <1>2, <1>3, <1>4, <1>5, <1>6 DEF IInv, TokensRight, CountRight, TokensFinite

LEMMA TakeStep ==
  ASSUME IInv, NEW c \in Callers, Take(c)
  PROVE  IInv'
<1>0. /\ pc[c] = "counted" /\ Fits(c) /\ waiters = <<>>
      /\ cur' = cur + n[c]
      /\ pc' = [pc EXCEPT ![c] = "holding"]
      /\ UNCHANGED <<waiters, ready, mu, uncappedConcurrencyCount, n, failed>>
  BY DEF Take, Goto
<1>1. TypeOK'
  <2>1. cur + n[c] \in Nat
    BY Numbers
  <2> QED
    BY <1>0, <2>1 DEF IInv, TypeOK, Places
<1>2. QueueIsTheWaiting'
  BY <1>0 DEF IInv, TypeOK, QueueIsTheWaiting
<1>3. MutexOfNotifier' /\ QueuedMayWait'
  BY <1>0 DEF IInv, TypeOK, MutexOfNotifier, QueuedMayWait
<1>4. TokensRight'
  <2>1. Charged' = Charged \cup {c} /\ c \notin Charged
    BY <1>0 DEF IInv, TypeOK, QueueIsTheWaiting, Charged
  <2> QED
    BY <1>0, <2>1, TokensTaken
<1>5. CountRight'
  <2>1. Counted' = Counted
    BY <1>0 DEF IInv, TypeOK, Counted
  <2> QED
    BY <1>0, <2>1, CountUnmoved
<1>6. NoWaiterLeftAsleep'
  BY <1>0 DEF NoWaiterLeftAsleep, FrontFits
<1> QED
  BY <1>1, <1>2, <1>3, <1>4, <1>5, <1>6 DEF IInv, TokensRight, CountRight, TokensFinite

LEMMA FailAtOnceStep ==
  ASSUME IInv, NEW c \in Callers, FailAtOnce(c)
  PROVE  IInv'
<1>0. /\ pc[c] = "counted" /\ Fail(c)
      /\ pc' = [pc EXCEPT ![c] = "idle"]
      /\ UNCHANGED <<cur, waiters, ready, mu, uncappedConcurrencyCount, n>>
  BY DEF FailAtOnce, Goto
<1>1. TypeOK'
  <2>1. failed + n[c] \in Int
    BY Numbers
  <2> QED
    BY <1>0, <2>1, WrapType DEF IInv, TypeOK, Places, Fail
<1>2. QueueIsTheWaiting'
  BY <1>0 DEF IInv, TypeOK, QueueIsTheWaiting
<1>3. MutexOfNotifier' /\ QueuedMayWait'
  BY <1>0 DEF IInv, TypeOK, MutexOfNotifier, QueuedMayWait
<1>4. TokensRight'
  <2>1. Charged' = Charged
    BY <1>0 DEF IInv, TypeOK, Charged
  <2> QED
    BY <1>0, <2>1, TokensUnmoved
<1>5. CountRight'
  <2>1. Counted' = Counted \ {c} /\ c \in Counted
    BY <1>0 DEF IInv, TypeOK, Counted
  <2> QED
    BY <1>0, <2>1, CountFailed
<1>6. NoWaiterLeftAsleep'
  BY <1>0, FrontUnmoved
<1> QED
  BY <1>1, <1>2, <1>3, <1>4, <1>5, <1>6 DEF IInv, TokensRight, CountRight, TokensFinite

LEMMA EnqueueStep ==
  ASSUME IInv, NEW c \in Callers, Enqueue(c)
  PROVE  IInv'
<1>0. /\ pc[c] = "counted" /\ mu = NoOne
      /\ ~(Fits(c) /\ waiters = <<>>)
      /\ n[c] <= Size /\ maxWaitDuration > 0
      /\ waiters' = Append(waiters, c)
      /\ pc' = [pc EXCEPT ![c] = "waiting"]
      /\ UNCHANGED <<cur, ready, mu, uncappedConcurrencyCount, n, failed>>
  BY DEF Enqueue, Goto
<1>1. /\ waiters \in Seq(Callers) /\ IsInjective(waiters)
      /\ c \notin ToSet(waiters) /\ c \notin ready
  BY <1>0 DEF IInv, TypeOK, QueueIsTheWaiting
<1>2. /\ waiters' \in Seq(Callers) /\ waiters' # <<>>
      /\ ToSet(waiters') = ToSet(waiters) \cup {c}
      /\ IsInjective(waiters')
      /\ Head(waiters') = IF waiters = <<>> THEN c ELSE Head(waiters)
  BY <1>0, <1>1, AppendFacts
<1>3. TypeOK'
  BY <1>0, <1>2 DEF IInv, TypeOK, Places
<1>4. QueueIsTheWaiting'
  BY <1>0, <1>1, <1>2 DEF IInv, TypeOK, QueueIsTheWaiting
<1>5. MutexOfNotifier' /\ QueuedMayWait'
  BY <1>0 DEF IInv, TypeOK, MutexOfNotifier, QueuedMayWait
<1>6. TokensRight'
  <2>1. Charged' = Charged
    BY <1>0 DEF IInv, TypeOK, Charged
  <2> QED
    BY <1>0, <2>1, TokensUnmoved
<1>7. CountRight'
  <2>1. Counted' = Counted
    BY <1>0 DEF IInv, TypeOK, Counted
  <2> QED
    BY <1>0, <2>1, CountUnmoved
<1>8. NoWaiterLeftAsleep'
  BY <1>0, <1>2 DEF IInv, NoWaiterLeftAsleep, FrontFits, Fits
<1> QED
  BY <1>3, <1>4, <1>5, <1>6, <1>7, <1>8 DEF IInv, TokensRight, CountRight, TokensFinite

LEMMA TakeGrantStep ==
  ASSUME IInv, NEW c \in Callers, TakeGrant(c)
  PROVE  IInv'
<1>0. /\ pc[c] = "waiting" /\ c \in ready
      /\ ready' = ready \ {c}
      /\ pc' = [pc EXCEPT ![c] = "holding"]
      /\ UNCHANGED <<cur, waiters, mu, uncappedConcurrencyCount, n, failed>>
  BY DEF TakeGrant, Goto
<1>1. TypeOK'
  BY <1>0 DEF IInv, TypeOK, Places
<1>2. QueueIsTheWaiting'
  BY <1>0 DEF IInv, TypeOK, QueueIsTheWaiting
<1>3. MutexOfNotifier' /\ QueuedMayWait'
  BY <1>0 DEF IInv, TypeOK, MutexOfNotifier, QueuedMayWait
<1>4. TokensRight'
  <2>1. Charged' = Charged
    BY <1>0 DEF IInv, TypeOK, QueueIsTheWaiting, Charged
  <2> QED
    BY <1>0, <2>1, TokensUnmoved
<1>5. CountRight'
  <2>1. Counted' = Counted
    BY <1>0 DEF IInv, TypeOK, Counted
  <2> QED
    BY <1>0, <2>1, CountUnmoved
<1>6. NoWaiterLeftAsleep'
  BY <1>0, FrontUnmoved
<1> QED
  BY <1>1, <1>2, <1>3, <1>4, <1>5, <1>6 DEF IInv, TokensRight, CountRight, TokensFinite

LEMMA ExpireStep ==
  ASSUME IInv, NEW c \in Callers, Expire(c)
  PROVE  IInv'
<1>0. /\ pc[c] = "waiting"
      /\ pc' = [pc EXCEPT ![c] = "expired"]
      /\ UNCHANGED <<cur, waiters, ready, mu, uncappedConcurrencyCount, n, failed>>
  BY DEF Expire, Goto
<1>1. TypeOK'
  BY <1>0 DEF IInv, TypeOK, Places
<1>2. QueueIsTheWaiting'
  BY <1>0 DEF IInv, TypeOK, QueueIsTheWaiting
<1>3. MutexOfNotifier' /\ QueuedMayWait'
  BY <1>0 DEF IInv, TypeOK, MutexOfNotifier, QueuedMayWait
<1>4. TokensRight'
  <2>1. Charged' = Charged
    BY <1>0 DEF IInv, TypeOK, QueueIsTheWaiting, Charged
  <2> QED
    BY <1>0, <2>1, TokensUnmoved
<1>5. CountRight'
  <2>1. Counted' = Counted
    BY <1>0 DEF IInv, TypeOK, Counted
  <2> QED
    BY <1>0, <2>1, CountUnmoved
<1>6. NoWaiterLeftAsleep'
  BY <1>0, FrontUnmoved
<1> QED
  BY <1>1, <1>2, <1>3, <1>4, <1>5, <1>6 DEF IInv, TokensRight, CountRight, TokensFinite

LEMMA TakeLateGrantStep ==
  ASSUME IInv, NEW c \in Callers, TakeLateGrant(c)
  PROVE  IInv'
<1>0. /\ pc[c] = "expired" /\ c \in ready
      /\ ready' = ready \ {c}
      /\ pc' = [pc EXCEPT ![c] = "holding"]
      /\ UNCHANGED <<cur, waiters, mu, uncappedConcurrencyCount, n, failed>>
  BY DEF TakeLateGrant, Goto
<1>1. TypeOK'
  BY <1>0 DEF IInv, TypeOK, Places
<1>2. QueueIsTheWaiting'
  BY <1>0 DEF IInv, TypeOK, QueueIsTheWaiting
<1>3. MutexOfNotifier' /\ QueuedMayWait'
  BY <1>0 DEF IInv, TypeOK, MutexOfNotifier, QueuedMayWait
<1>4. TokensRight'
  <2>1. Charged' = Charged
    BY <1>0 DEF IInv, TypeOK, QueueIsTheWaiting, Charged
  <2> QED
    BY <1>0, <2>1, TokensUnmoved
<1>5. CountRight'
  <2>1. Counted' = Counted
    BY <1>0 DEF IInv, TypeOK, Counted
  <2> QED
    BY <1>0, <2>1, CountUnmoved
<1>6. NoWaiterLeftAsleep'
  BY <1>0, FrontUnmoved
<1> QED
  BY <1>1, <1>2, <1>3, <1>4, <1>5, <1>6 DEF IInv, TokensRight, CountRight, TokensFinite

LEMMA GiveUpStep ==
  ASSUME IInv, NEW c \in Callers, GiveUp(c)
  PROVE  IInv'
<1>0. /\ pc[c] = "expired" /\ mu = NoOne /\ c \notin ready
      /\ LeaveQueue(c) /\ Fail(c)
      /\ UNCHANGED <<cur, ready, uncappedConcurrencyCount, n>>
      /\ \/ /\ Head(waiters) = c /\ Size > cur
            /\ mu' = c
            /\ pc' = [pc EXCEPT ![c] = "notifying"]
         \/ /\ ~(Head(waiters) = c /\ Size > cur)
            /\ pc' = [pc EXCEPT ![c] = "idle"]
            /\ mu' = mu
  BY DEF GiveUp, Goto
<1>00. /\ waiters # <<>>
       /\ waiters' \in Seq(Callers)
       /\ ToSet(waiters') = ToSet(waiters) \ {c}
       /\ IsInjective(waiters')
       /\ Head(waiters) # c => waiters' # <<>> /\ Head(waiters') = Head(waiters)
  BY <1>0, LeaveQueueFacts
<1>1. TypeOK'
  <2>1. failed' \in 0..(CountWidth - 1)
    BY <1>0, Numbers, WrapType DEF Fail
  <2> QED
    BY <1>0, <1>00, <2>1 DEF IInv, TypeOK, Places
<1>2. QueueIsTheWaiting'
  BY <1>0, <1>00 DEF IInv, TypeOK, QueueIsTheWaiting
<1>3. MutexOfNotifier' /\ QueuedMayWait'
  BY <1>0, SemaphoreAssumption DEF IInv, TypeOK, MutexOfNotifier, QueuedMayWait
<1>4. TokensRight'
  <2>1. Charged' = Charged
    BY <1>0 DEF IInv, TypeOK, QueueIsTheWaiting, Charged
  <2> QED
    BY <1>0, <2>1, TokensUnmoved
<1>5. CountRight'
  <2>1. Counted' = Counted \ {c} /\ c \in Counted
    BY <1>0 DEF IInv, TypeOK, Counted
  <2> QED
    BY <1>0, <2>1, CountFailed
<1>6. NoWaiterLeftAsleep'
  <2>1. CASE Head(waiters) # c
    BY <1>0, <1>00, <2>1 DEF IInv, NoWaiterLeftAsleep, FrontFits, Fits
  <2>2. CASE Head(waiters) = c /\ Size > cur
    BY <1>0, <2>2, SemaphoreAssumption DEF NoWaiterLeftAsleep
  <2>3. CASE Head(waiters) = c /\ ~(Size > cur)
    <3> SUFFICES ASSUME waiters' # <<>>, Size - cur >= n[Head(waiters')]
                 PROVE  n[Head(waiters')] = 0
      BY <1>0 DEF NoWaiterLeftAsleep, FrontFits, Fits
    <3>1. Head(waiters') \in Callers
      BY <1>00
    <3>2. n[Head(waiters')] \in Nat /\ cur \in Nat
      BY <3>1, Numbers
    <3> QED
      BY <2>3, <3>2, SemaphoreAssumption
  <2> QED
    BY <2>1, <2>2, <2>3
<1> QED
  BY <1>1, <1>2, <1>3, <1>4, <1>5, <1>6 DEF IInv, TokensRight, CountRight, TokensFinite

LEMMA UncountStep ==
  ASSUME IInv, NEW c \in Callers, Uncount(c)
  PROVE  IInv'
<1>0. /\ pc[c] = "holding"
      /\ uncappedConcurrencyCount' = Wrap(uncappedConcurrencyCount - n[c])
      /\ pc' = [pc EXCEPT ![c] = "releasing"]
      /\ UNCHANGED <<cur, waiters, ready, mu, n, failed>>
  BY DEF Uncount, Goto
<1>1. TypeOK'
  <2>1. uncappedConcurrencyCount \in Int
    BY SemaphoreAssumption DEF IInv, TypeOK
  <2>2. uncappedConcurrencyCount - n[c] \in Int
    BY <2>1, Numbers
  <2> QED
    BY <1>0, <2>2, WrapType DEF IInv, TypeOK, Places
<1>2. QueueIsTheWaiting'
  BY <1>0 DEF IInv, TypeOK, QueueIsTheWaiting
<1>3. MutexOfNotifier' /\ QueuedMayWait'
  BY <1>0 DEF IInv, TypeOK, MutexOfNotifier, QueuedMayWait
<1>4. TokensRight'
  <2>1. Charged' = Charged
    BY <1>0 DEF IInv, TypeOK, QueueIsTheWaiting, Charged
  <2> QED
    BY <1>0, <2>1, TokensUnmoved
<1>5. CountRight'
  <2>1. Counted' = Counted \ {c} /\ c \in Counted
    BY <1>0 DEF IInv, TypeOK, Counted
  <2> QED
    BY <1>0, <2>1, CountLeft
<1>6. NoWaiterLeftAsleep'
  BY <1>0, FrontUnmoved
<1> QED
  BY <1>1, <1>2, <1>3, <1>4, <1>5, <1>6 DEF IInv, TokensRight, CountRight, TokensFinite

LEMMA releaseStep ==
  ASSUME IInv, NEW c \in Callers, release(c)
  PROVE  IInv'
<1>0. /\ pc[c] = "releasing" /\ mu = NoOne
      /\ cur' = IF cur - n[c] < 0 THEN 0 ELSE cur - n[c]
      /\ mu' = c
      /\ pc' = [pc EXCEPT ![c] = "notifying"]
      /\ UNCHANGED <<waiters, ready, uncappedConcurrencyCount, n, failed>>
  BY DEF release, Goto
<1>1. TypeOK'
  <2>1. cur' \in Nat
    BY <1>0, Numbers
  <2> QED
    BY <1>0, <2>1 DEF IInv, TypeOK, Places
<1>2. QueueIsTheWaiting'
  BY <1>0 DEF IInv, TypeOK, QueueIsTheWaiting
<1>3. MutexOfNotifier' /\ QueuedMayWait'
  BY <1>0, SemaphoreAssumption DEF IInv, TypeOK, MutexOfNotifier, QueuedMayWait
<1>4. TokensRight'
  <2>1. Charged' = Charged \ {c} /\ c \in Charged
    BY <1>0 DEF IInv, TypeOK, QueueIsTheWaiting, Charged
  <2> QED
    BY <1>0, <2>1, TokensReturned
<1>5. CountRight'
  <2>1. Counted' = Counted
    BY <1>0 DEF IInv, TypeOK, Counted
  <2> QED
    BY <1>0, <2>1, CountUnmoved
<1>6. NoWaiterLeftAsleep'
  BY <1>0, SemaphoreAssumption DEF NoWaiterLeftAsleep
<1> QED
  BY <1>1, <1>2, <1>3, <1>4, <1>5, <1>6 DEF IInv, TokensRight, CountRight, TokensFinite

LEMMA GrantStep ==
  ASSUME IInv, NEW c \in Callers, Grant(c)
  PROVE  IInv'
<1> DEFINE d == Head(waiters)
<1>0. /\ mu = c /\ waiters # <<>> /\ Fits(d)
      /\ cur' = cur + n[d]
      /\ ready' = ready \cup {d}
      /\ waiters' = Tail(waiters)
      /\ UNCHANGED <<mu, uncappedConcurrencyCount, n, pc, failed>>
  BY DEF Grant, FrontFits
<1>00. /\ d \in Callers /\ d \in ToSet(waiters) /\ d \notin ready
       /\ pc[d] \in {"waiting", "expired"}
       /\ waiters' \in Seq(Callers)
       /\ ToSet(waiters') = ToSet(waiters) \ {d}
       /\ IsInjective(waiters')
  BY <1>0, FrontFacts
<1> HIDE DEF d
<1>1. TypeOK'
  <2>1. cur' \in Nat
    BY <1>0, <1>00, Numbers
  <2> QED
    BY <1>0, <1>00, <2>1 DEF IInv, TypeOK
<1>2. QueueIsTheWaiting'
  BY <1>0, <1>00 DEF IInv, TypeOK, QueueIsTheWaiting
<1>3. MutexOfNotifier' /\ QueuedMayWait'
  BY <1>0 DEF IInv, TypeOK, MutexOfNotifier, QueuedMayWait
<1>4. TokensRight'
  <2>1. Charged' = Charged \cup {d} /\ d \notin Charged
    BY <1>0, <1>00 DEF Charged
  <2> QED
    BY <1>0, <1>00, <2>1, TokensTaken
<1>5. CountRight'
  <2>1. Counted' = Counted
    BY <1>0 DEF IInv, TypeOK, Counted
  <2> QED
    BY <1>0, <2>1, CountUnmoved
<1>6. NoWaiterLeftAsleep'
  BY <1>0, SemaphoreAssumption DEF NoWaiterLeftAsleep
<1> QED
  BY <1>1, <1>2, <1>3, <1>4, <1>5, <1>6 DEF IInv, TokensRight, CountRight, TokensFinite

LEMMA StopNotifyingStep ==
  ASSUME IInv, NEW c \in Callers, StopNotifying(c)
  PROVE  IInv'
<1>0. /\ mu = c /\ pc[c] = "notifying" /\ ~FrontFits
      /\ mu' = NoOne
      /\ pc' = [pc EXCEPT ![c] = "idle"]
      /\ UNCHANGED <<cur, waiters, ready, uncappedConcurrencyCount, n, failed>>
  BY DEF StopNotifying, Goto, IInv, MutexOfNotifier
<1>1. TypeOK'
  BY <1>0 DEF IInv, TypeOK, Places
<1>2. QueueIsTheWaiting'
  BY <1>0 DEF IInv, TypeOK, QueueIsTheWaiting
<1>3. MutexOfNotifier' /\ QueuedMayWait'
  BY <1>0, SemaphoreAssumption DEF IInv, TypeOK, MutexOfNotifier, QueuedMayWait
<1>4. TokensRight'
  <2>1. Charged' = Charged
    BY <1>0 DEF IInv, TypeOK, QueueIsTheWaiting, Charged
  <2> QED
    BY <1>0, <2>1, TokensUnmoved
<1>5. CountRight'
  <2>1. Counted' = Counted
    BY <1>0 DEF IInv, TypeOK, Counted
  <2> QED
    BY <1>0, <2>1, CountUnmoved
<1>6. NoWaiterLeftAsleep'
  BY <1>0 DEF NoWaiterLeftAsleep, FrontFits, Fits
<1> QED
  BY <1>1, <1>2, <1>3, <1>4, <1>5, <1>6 DEF IInv, TokensRight, CountRight, TokensFinite

-----------------------------------------------------------------------------
(* The invariant holds.                                                    *)

LEMMA InitInvariant == Init => IInv
<1> SUFFICES ASSUME Init PROVE IInv
  OBVIOUS
<1>1. TypeOK
  BY SemaphoreAssumption, EmptySeq DEF Init, TypeOK, Places
<1>2. QueueIsTheWaiting
  BY DEF Init, QueueIsTheWaiting, ToSet, IsInjective
<1>3. MutexOfNotifier /\ QueuedMayWait
  BY SemaphoreAssumption DEF Init, MutexOfNotifier, QueuedMayWait
<1>4. Units(n, Charged) = {} /\ Units(n, Counted) = {}
  BY DEF Init, Charged, Counted, Units
<1>5. TokensRight
  BY <1>4, FS_EmptySet, SemaphoreAssumption DEF Init, TokensRight, TokensConserved
<1>6. CountRight
  <2>1. Wrap(0 + 0) = 0
    BY SemaphoreAssumption DEF Wrap
  <2> QED
    BY <1>4, <2>1, FS_EmptySet DEF Init, CountRight, CountDriftsByFailuresOnly
<1>7. NoWaiterLeftAsleep
  BY DEF Init, NoWaiterLeftAsleep, FrontFits
<1> QED
  BY <1>1, <1>2, <1>3, <1>5, <1>6, <1>7 DEF IInv, TokensRight, CountRight, TokensFinite

LEMMA StepInvariant == IInv /\ [Next]_vars => IInv'
<1> SUFFICES ASSUME IInv, [Next]_vars PROVE IInv'
  OBVIOUS
<1>1. ASSUME NEW c \in Callers, Count(c) \/ Expire(c) \/ Progress(c)
      PROVE  IInv'
  BY <1>1, CountStep, ExpireStep, TakeStep, FailAtOnceStep, EnqueueStep, TakeGrantStep,
     TakeLateGrantStep, GiveUpStep, UncountStep, releaseStep, GrantStep, StopNotifyingStep
     DEF Progress
<1>2. CASE UNCHANGED vars
  BY <1>2 DEF vars, IInv, TypeOK, QueueIsTheWaiting, MutexOfNotifier, QueuedMayWait,
              TokensFinite, TokensConserved, CountDriftsByFailuresOnly, NoWaiterLeftAsleep,
              Charged, Counted, FrontFits, Fits
<1> QED
  BY <1>1, <1>2 DEF Next

(* In every state the tokens taken are those of the callers charged, the   *)
(* queue is that of the callers that wait, the mutex is that of the caller *)
(* in the loop, and the front of the queue is not asleep on free tokens.   *)
THEOREM Invariance == Spec => []IInv
BY InitInvariant, StepInvariant, PTL DEF Spec

-----------------------------------------------------------------------------
(* The properties.                                                         *)

(* Every variable keeps its type: the tokens taken are never below zero.   *)
THEOREM TypeCorrect == Spec => []TypeOK
BY Invariance, PTL DEF IInv

(* No interleaving of timeouts, grants and releases loses a token, gives   *)
(* one twice, or takes more than Size.                                     *)
THEOREM TokenConservation == Spec => []TokensConserved
BY Invariance, PTL DEF IInv

(* The queue holds each caller that waits without a grant once, and nobody *)
(* else: notifyWaiters cannot grant to a caller that gave up.              *)
THEOREM QueueCorrect == Spec => []QueueIsTheWaiting
BY Invariance, PTL DEF IInv

(* Whenever notifyWaiters is done, the waiter in front does not fit.       *)
THEOREM NobodyLeftAsleep == Spec => []NoWaiterLeftAsleep
BY Invariance, PTL DEF IInv

(* However the 64-bit count wraps, all it is off by is the weight of the   *)
(* calls that failed.                                                      *)
THEOREM CountDrift == Spec => []CountDriftsByFailuresOnly
BY Invariance, PTL DEF IInv

LEMMA HeadInFront ==
  ASSUME IInv, waiters # <<>>, NEW d \in ToSet(Tail(waiters))
  PROVE  InFrontOf(Head(waiters), d)
<1>1. waiters \in Seq(Callers) /\ IsInjective(waiters)
  BY DEF IInv, TypeOK, QueueIsTheWaiting
<1>2. Head(waiters) = waiters[1] /\ d # Head(waiters)
  BY <1>1, TailFacts
<1>3. DOMAIN waiters = 1..Len(waiters) /\ Len(waiters) \in Nat
  BY <1>1, LenProperties
<1>4. 1 \in DOMAIN waiters
  BY <1>1, <1>3, EmptySeq
<1> SUFFICES ASSUME NEW i \in DOMAIN waiters, NEW j \in DOMAIN waiters,
                    waiters[i] = Head(waiters), waiters[j] = d
             PROVE  i < j
  BY DEF InFrontOf
<1>5. i = 1 /\ j # 1
  BY <1>1, <1>2, <1>4 DEF IsInjective
<1> QED
  BY <1>3, <1>5

(* Units go to the front of the queue, or to who comes when nobody waits. *)
THEOREM FirstServed == Spec => FirstComeFirstServed
<1> DEFINE Fair ==
      \A c \in Charged' \ Charged :
        \A d \in ToSet(waiters) \cap ToSet(waiters') :
          c \in ToSet(waiters) /\ InFrontOf(c, d)
<1>1. ASSUME IInv, NEW c \in Callers, Count(c) \/ Expire(c) \/ Progress(c)
      PROVE  Fair
  <2>1. CASE Take(c)
    <3>1. ToSet(waiters) = {}
      BY <2>1 DEF Take, ToSet
    <3> QED
      BY <3>1
  <2>2. CASE Grant(c)
    <3>1. /\ waiters # <<>> /\ waiters' = Tail(waiters)
          /\ Charged' \ Charged \subseteq {Head(waiters)}
      BY <2>2 DEF Grant, FrontFits, Charged
    <3>2. Head(waiters) \in ToSet(waiters)
      BY <1>1, <3>1, FrontFacts
    <3>3. \A d \in ToSet(waiters') : InFrontOf(Head(waiters), d)
      BY <1>1, <3>1, HeadInFront
    <3> QED
      BY <3>1, <3>2, <3>3
  <2>3. CASE ~Take(c) /\ ~Grant(c)
    <3>1. Charged' \subseteq Charged
      <4>1. TypeOK /\ QueueIsTheWaiting
        BY <1>1 DEF IInv
      <4> QED
        BY <1>1, <2>3, <4>1
           DEF Progress, Count, Expire, FailAtOnce, Enqueue, TakeGrant, TakeLateGrant,
               GiveUp, Uncount, release, StopNotifying, Goto, Charged, TypeOK
    <3> QED
      BY <3>1
  <2> QED
    BY <2>1, <2>2, <2>3
<1>2. IInv /\ [Next]_vars => [Fair]_vars
  BY <1>1 DEF Next
<1> QED
  BY <1>2, Invariance, PTL DEF Spec, FirstComeFirstServed

-----------------------------------------------------------------------------
(* The semaphore implements the limiter that Breaker assumes.              *)

View == [size |-> Size, wait |-> maxWaitDuration, cur |-> cur]

Asking == {c \in Callers : pc[c] \in {"counted", "waiting", "expired"}} \ ready

LEMMA InitRefines == Init => Abstract!Init
BY SemaphoreAssumption DEF Init, Abstract!Init, Abstract!Limiter, Charged

LEMMA AbstractAdmit ==
  ASSUME NEW c \in Asking, n[c] \in Nat, cur \in Nat, Fits(c),
         cur' = cur + n[c], Asking' = Asking \ {c}, Charged' = Charged \cup {c}, n' = n
  PROVE  Abstract!Admit(c)
BY SemaphoreAssumption DEF Abstract!Admit, Abstract!HasRoom, Abstract!Acquired, Fits, Asking

LEMMA AbstractRefuse ==
  ASSUME NEW c \in Asking, maxWaitDuration > 0 \/ ~Fits(c),
         cur' = cur, Asking' = Asking \ {c}, Charged' = Charged, n' = n
  PROVE  Abstract!Refuse(c)
BY SemaphoreAssumption DEF Abstract!Refuse, Abstract!MayRefuse, Abstract!HasRoom, Fits, Asking

LEMMA AbstractStutter ==
  ASSUME cur' = cur, Asking' = Asking, Charged' = Charged, n' = n
  PROVE  UNCHANGED Abstract!limiterVars
BY DEF Abstract!limiterVars, Asking

LEMMA StepRefines ==
  ASSUME IInv, NEW c \in Callers, Count(c) \/ Expire(c) \/ Progress(c)
  PROVE  [Abstract!Next]_(Abstract!limiterVars)
<1>0. TypeOK /\ QueueIsTheWaiting /\ QueuedMayWait
  BY DEF IInv
<1>1. CASE Count(c)
  <2>1. PICK weight \in Factors :
          /\ pc[c] = "idle" /\ n' = [n EXCEPT ![c] = weight]
          /\ pc' = [pc EXCEPT ![c] = "counted"]
          /\ UNCHANGED <<cur, ready>>
    BY <1>1 DEF Count, Goto
  <2>2. /\ Asking' = Asking \cup {c} /\ c \notin Asking \cup Charged
        /\ Charged' = Charged
    BY <1>0, <2>1 DEF Asking, Charged, TypeOK, QueueIsTheWaiting
  <2>3. Abstract!Ask(c)
    BY <2>1, <2>2 DEF Abstract!Ask, Asking
  <2> QED
    BY <2>3 DEF Abstract!Next
<1>2. CASE Take(c)
  <2>1. /\ pc[c] = "counted" /\ Fits(c) /\ cur' = cur + n[c]
        /\ pc' = [pc EXCEPT ![c] = "holding"]
        /\ UNCHANGED <<ready, n>>
    BY <1>2 DEF Take, Goto
  <2>2. c \in Asking /\ Asking' = Asking \ {c} /\ Charged' = Charged \cup {c}
    BY <1>0, <2>1 DEF Asking, Charged, TypeOK, QueueIsTheWaiting
  <2>3. Abstract!Admit(c)
    BY <2>1, <2>2, Numbers, AbstractAdmit
  <2> QED
    BY <2>3 DEF Abstract!Next
<1>3. CASE FailAtOnce(c)
  <2>1. /\ pc[c] = "counted" /\ ~(Fits(c) /\ waiters = <<>>)
        /\ n[c] > Size \/ maxWaitDuration <= 0
        /\ pc' = [pc EXCEPT ![c] = "idle"]
        /\ UNCHANGED <<cur, ready, n>>
    BY <1>3 DEF FailAtOnce, Goto
  <2>2. c \in Asking /\ Asking' = Asking \ {c} /\ Charged' = Charged
    BY <1>0, <2>1 DEF Asking, Charged, TypeOK, QueueIsTheWaiting
  <2>3. maxWaitDuration > 0 \/ ~Fits(c)
    <3>1. CASE n[c] > Size
      BY <3>1, Numbers, SemaphoreAssumption DEF Fits
    <3>2. CASE maxWaitDuration <= 0 /\ waiters # <<>>
      <4>1. maxWaitDuration > 0
        BY <1>0, <3>2, FrontFacts DEF QueuedMayWait
      <4> QED
        BY <4>1
    <3>3. CASE maxWaitDuration <= 0 /\ waiters = <<>>
      BY <2>1, <3>3
    <3> QED
      BY <2>1, <3>1, <3>2, <3>3
  <2>4. Abstract!Refuse(c)
    BY <2>1, <2>2, <2>3, AbstractRefuse
  <2> QED
    BY <2>4 DEF Abstract!Next
<1>4. CASE GiveUp(c)
  <2>1. /\ pc[c] = "expired" /\ c \notin ready
        /\ pc' \in {[pc EXCEPT ![c] = "notifying"], [pc EXCEPT ![c] = "idle"]}
        /\ UNCHANGED <<cur, ready, n>>
    BY <1>4 DEF GiveUp, Goto
  <2>2. c \in Asking /\ Asking' = Asking \ {c} /\ Charged' = Charged
    BY <1>0, <2>1 DEF Asking, Charged, TypeOK, QueueIsTheWaiting
  <2>3. maxWaitDuration > 0
    BY <1>0, <2>1 DEF QueuedMayWait
  <2>4. Abstract!Refuse(c)
    BY <2>1, <2>2, <2>3, AbstractRefuse
  <2> QED
    BY <2>4 DEF Abstract!Next
<1>5. CASE release(c)
  <2>1. /\ pc[c] = "releasing"
        /\ cur' = IF cur - n[c] < 0 THEN 0 ELSE cur - n[c]
        /\ pc' = [pc EXCEPT ![c] = "notifying"]
        /\ UNCHANGED <<ready, n>>
    BY <1>5 DEF release, Goto
  <2>2. c \in Charged /\ Asking' = Asking /\ Charged' = Charged \ {c}
    BY <1>0, <2>1 DEF Asking, Charged, TypeOK, QueueIsTheWaiting
  <2>3. Abstract!GiveBack(c)
    BY <2>1, <2>2, SemaphoreAssumption DEF Abstract!GiveBack, Abstract!Released, Asking
  <2> QED
    BY <2>3 DEF Abstract!Next
<1>6. CASE Grant(c)
  <2>0. PICK d \in Callers : waiters # <<>> /\ d = Head(waiters)
    BY <1>6, FrontFacts DEF Grant, FrontFits
  <2>1. /\ Fits(d) /\ cur' = cur + n[d]
        /\ ready' = ready \cup {d}
        /\ UNCHANGED <<pc, n>>
    BY <1>6, <2>0 DEF Grant, FrontFits
  <2>2. d \notin ready /\ pc[d] \in {"waiting", "expired"}
    BY <2>0, FrontFacts
  <2>3. d \in Asking /\ Asking' = Asking \ {d} /\ Charged' = Charged \cup {d}
    BY <2>1, <2>2 DEF Asking, Charged
  <2>4. Abstract!Admit(d)
    BY <2>1, <2>2, <2>3, Numbers, AbstractAdmit
  <2> QED
    BY <2>4 DEF Abstract!Next
<1>7. CASE Expire(c) \/ Enqueue(c) \/ TakeGrant(c) \/ TakeLateGrant(c) \/ Uncount(c)
             \/ StopNotifying(c)
  <2>1. cur' = cur /\ n' = n
    BY <1>7 DEF Expire, Enqueue, TakeGrant, TakeLateGrant, Uncount, StopNotifying
  <2>2. pc[c] = "notifying" \/ ~StopNotifying(c)
    BY DEF StopNotifying, IInv, MutexOfNotifier
  <2>3. Asking' = Asking
    BY <1>0, <1>7, <2>2
       DEF Expire, Enqueue, TakeGrant, TakeLateGrant, Uncount, StopNotifying, Goto, Asking,
           TypeOK
  <2>4. Charged' = Charged
    BY <1>0, <1>7, <2>2
       DEF Expire, Enqueue, TakeGrant, TakeLateGrant, Uncount, StopNotifying, Goto, Charged,
           TypeOK, QueueIsTheWaiting
  <2> QED
    BY <2>1, <2>3, <2>4, AbstractStutter
<1> QED
  BY <1>1, <1>2, <1>3, <1>4, <1>5, <1>6, <1>7 DEF Progress

(* To its callers the semaphore, with its queue, its channels and its      *)
(* timeouts, is a counter that admits whoever fits.                        *)
THEOREM Refinement == Spec => ImplementsConcurrencyLimiter
<1>1. IInv /\ [Next]_vars => [Abstract!Next]_(Abstract!limiterVars)
  <2> SUFFICES ASSUME IInv, [Next]_vars
               PROVE  [Abstract!Next]_(Abstract!limiterVars)
    OBVIOUS
  <2>1. CASE Next
    BY <2>1, StepRefines DEF Next
  <2>2. CASE UNCHANGED vars
    BY <2>2 DEF vars, Abstract!limiterVars, Charged
  <2> QED
    BY <2>1, <2>2
<1> QED
  BY InitRefines, <1>1, Invariance, PTL
     DEF Spec, ImplementsConcurrencyLimiter, Abstract!Spec
=============================================================================
