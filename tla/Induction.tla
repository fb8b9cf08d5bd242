----------------------------- MODULE Induction -----------------------------
(* Lemmas about natural numbers and numbered lists that more than one      *)
(* component's proofs need.  An induction is carried out on the set of the *)
(* numbers a statement holds of, so that it needs no predicate as a        *)
(* parameter.                                                              *)
EXTENDS Integers, WellFoundedInduction, TLAPS

(* A set of naturals that is not empty has a least element.                *)
LEMMA LeastElement ==
  ASSUME NEW T \in SUBSET Nat, T # {}
  PROVE  \E n \in T : \A m \in T : n <= m
<1> DEFINE R == OpToRel(<, Nat)
<1>1. IsWellFoundedOn(R, Nat)
  BY NatLessThanWellFounded
<1>2. \E x \in T : \A y \in T : ~ (<<y, x>> \in R)
  <2> HIDE DEF R
  <2> QED BY <1>1, WFMin
<1>3. PICK x \in T : \A y \in T : <<y, x>> \notin R
  BY <1>2
<1>4. \A y \in T : ~(y < x)
  BY <1>3, Zenon DEF OpToRel
<1> QED
  BY <1>4

(* A set that holds 0, and n + 1 with each n, holds every natural number.  *)
LEMMA SetInduction ==
  ASSUME NEW T \in SUBSET Nat, 0 \in T, \A n \in T : n + 1 \in T
  PROVE  T = Nat
<1> SUFFICES ASSUME Nat \ T # {} PROVE FALSE
  OBVIOUS
<1>1. PICK n \in Nat \ T : \A m \in Nat \ T : n <= m
  <2> DEFINE U == Nat \ T
  <2>1. U \in SUBSET Nat /\ U # {}
    OBVIOUS
  <2> HIDE DEF U
  <2>2. \E n \in U : \A m \in U : n <= m
    BY <2>1, LeastElement
  <2> QED BY <2>2 DEF U
<1>2. n - 1 \in Nat \ T
  BY <1>1
<1> QED
  BY <1>1, <1>2

-----------------------------------------------------------------------------
(* Stable orders *)

(* p arranges the numbers 1..n; by key, those of one key as they were.     *)
Arranges(p, n) == p \in [1..n -> 1..n] /\ \A j \in 1..n : \E i \in 1..n : p[i] = j

Precedes(key, a, b) == key[a] < key[b] \/ (key[a] = key[b] /\ a < b)

Ordered(p, n, key) == \A i, j \in 1..n : i < j => Precedes(key, p[i], p[j])

(* Any numbered keys have a stable order: the last one is inserted behind  *)
(* those that are as low.                                                  *)
LEMMA StableOrder ==
  ASSUME NEW n \in Nat, NEW key, \A i \in 1..n : key[i] \in Int
  PROVE  \E p : Arranges(p, n) /\ Ordered(p, n, key)
<1> DEFINE T == {k \in Nat : k <= n => \E p : Arranges(p, k) /\ Ordered(p, k, key)}
<1>1. 0 \in T
  <2> DEFINE p == [i \in 1..0 |-> i]
  <2>1. Arranges(p, 0) /\ Ordered(p, 0, key)
    BY DEF Arranges, Ordered
  <2> HIDE DEF p
  <2> QED
    BY <2>1
<1>2. ASSUME NEW k \in T PROVE k + 1 \in T
  <2> SUFFICES ASSUME k + 1 <= n
               PROVE  \E q : Arranges(q, k + 1) /\ Ordered(q, k + 1, key)
    OBVIOUS
  <2>0. k \in Nat /\ k <= n
    OBVIOUS
  <2>1. PICK p : Arranges(p, k) /\ Ordered(p, k, key)
    BY <2>0
  <2> DEFINE Later == {i \in 1..(k + 1) : i <= k => key[k + 1] < key[p[i]]}
  <2>2. PICK m \in Later : \A i \in Later : m <= i
    <3>1. Later \in SUBSET Nat /\ k + 1 \in Later
      BY <2>0
    <3> HIDE DEF Later
    <3> QED
      BY <3>1, LeastElement
  <2> DEFINE q == [i \in 1..(k + 1) |-> IF i < m THEN p[i] ELSE IF i = m THEN k + 1 ELSE p[i - 1]]
  <2>3. /\ m \in 1..(k + 1)
        /\ \A i \in 1..(k + 1) : i < m => i \in 1..k /\ q[i] = p[i]
        /\ q[m] = k + 1
        /\ \A i \in 1..(k + 1) : i > m => i - 1 \in 1..k /\ q[i] = p[i - 1]
    BY <2>0
  <2>5. \A i \in 1..k : p[i] \in 1..k /\ key[p[i]] \in Int
    <3>1. \A i \in 1..k : p[i] \in 1..k
      BY <2>1 DEF Arranges
    <3>2. \A i \in 1..k : i \in 1..n
      BY <2>0
    <3> QED
      BY <3>1, <3>2
  <2>6. key[k + 1] \in Int
    BY <2>0, k + 1 \in 1..n
  <2>7. \A i \in 1..k : i < m => key[p[i]] <= key[k + 1]
    <3> SUFFICES ASSUME NEW i \in 1..k, i < m PROVE ~(key[k + 1] < key[p[i]])
      BY <2>5, <2>6
    <3>1. i \notin Later
      BY <2>0, <2>2
    <3> QED
      BY <2>0, <3>1
  <2>8. \A i \in 1..k : i >= m => key[k + 1] < key[p[i]]
    <3> SUFFICES ASSUME NEW i \in 1..k, i >= m PROVE key[k + 1] < key[p[i]]
      OBVIOUS
    <3>1. key[k + 1] < key[p[m]] /\ m \in 1..k
      BY <2>0, <2>2
    <3>2. CASE i = m
      BY <3>1, <3>2
    <3>3. CASE i > m
      <4>1. Precedes(key, p[m], p[i])
        BY <2>1, <3>1, <3>3 DEF Ordered
      <4>2. key[p[m]] <= key[p[i]]
        BY <4>1, <3>1, <2>5 DEF Precedes
      <4> QED
        BY <4>2, <3>1, <2>5, <2>6
    <3> QED
      BY <2>0, <3>1, <3>2, <3>3
  <2> HIDE DEF q, Later
  <2>9. Arranges(q, k + 1)
    <3>1. \A i \in 1..(k + 1) : q[i] \in 1..(k + 1)
      BY <2>0, <2>3, <2>5
    <3>2. q \in [1..(k + 1) -> 1..(k + 1)]
      BY <3>1 DEF q
    <3>3. ASSUME NEW j \in 1..k PROVE \E i \in 1..(k + 1) : q[i] = j
      <4>1. PICK i \in 1..k : p[i] = j
        BY <2>1 DEF Arranges
      <4>2. CASE i < m
        BY <2>0, <2>3, <4>1, <4>2
      <4>3. CASE i >= m
        <5>1. i + 1 \in 1..(k + 1) /\ i + 1 > m /\ (i + 1) - 1 = i
          BY <2>0, <2>3, <4>3
        <5> QED
          BY <2>3, <4>1, <5>1
      <4> QED
        BY <2>3, <4>2, <4>3
    <3>4. \A j \in 1..(k + 1) : j \in 1..k \/ j = k + 1
      BY <2>0
    <3> QED
      BY <2>3, <3>2, <3>3, <3>4 DEF Arranges
  <2>10. Ordered(q, k + 1, key)
    <3> SUFFICES ASSUME NEW i \in 1..(k + 1), NEW j \in 1..(k + 1), i < j
                 PROVE  Precedes(key, q[i], q[j])
      BY DEF Ordered
    <3>0. \A a, b \in 1..k : a < b => Precedes(key, p[a], p[b])
      BY <2>1 DEF Ordered
    <3>1. CASE j < m
      <4>1. i \in 1..k /\ j \in 1..k /\ q[i] = p[i] /\ q[j] = p[j]
        BY <2>0, <2>3, <3>1
      <4> QED
        BY <3>0, <4>1
    <3>2. CASE j = m
      <4>1. i \in 1..k /\ i < m /\ q[i] = p[i] /\ q[j] = k + 1
        BY <2>0, <2>3, <3>2
      <4>2. p[i] \in 1..k /\ key[p[i]] \in Int /\ key[p[i]] <= key[k + 1] /\ p[i] < k + 1
        BY <2>0, <2>5, <2>7, <4>1
      <4> QED
        BY <2>6, <4>1, <4>2 DEF Precedes
    <3>3. CASE i < m /\ m < j
      <4>1. i \in 1..k /\ j - 1 \in 1..k /\ i < j - 1 /\ q[i] = p[i] /\ q[j] = p[j - 1]
        BY <2>0, <2>3, <3>3
      <4> QED
        BY <3>0, <4>1
    <3>4. CASE i = m /\ m < j
      <4>1. j - 1 \in 1..k /\ j - 1 >= m /\ q[j] = p[j - 1] /\ q[i] = k + 1
        BY <2>0, <2>3, <3>4
      <4>2. key[k + 1] < key[p[j - 1]]
        BY <2>8, <4>1
      <4> QED
        BY <4>1, <4>2 DEF Precedes
    <3>5. CASE m < i
      <4>1. i - 1 \in 1..k /\ j - 1 \in 1..k /\ i - 1 < j - 1 /\ q[i] = p[i - 1] /\ q[j] = p[j - 1]
        BY <2>0, <2>3, <3>5
      <4> QED
        BY <3>0, <4>1
    <3> QED
      BY <2>0, <2>3, <3>1, <3>2, <3>3, <3>4, <3>5
  <2> QED
    BY <2>9, <2>10
<1>3. T = Nat
  <2> T \in SUBSET Nat
    OBVIOUS
  <2> HIDE DEF T
  <2> QED
    BY <1>1, <1>2, SetInduction
<1>4. n \in T
  BY <1>3
<1>5. n <= n
  OBVIOUS
<1> QED
  BY <1>4, <1>5
=============================================================================
