----------------------- MODULE ArchiverDiscoveryProofs -----------------------
(* Proofs about ArchiverDiscovery: what sorting, deduplicating and merging *)
(* the answers of a round comes to, and which archivers the lists in use   *)
(* can hold, for every set of archivers, seeds and answers.                *)
EXTENDS ArchiverDiscovery, Induction, FiniteSetTheorems

-----------------------------------------------------------------------------
(* Sorting *)

Rank(key, n, i) == Cardinality({j \in 1..n : Precedes(key, j, i)})

(* Counting those that come before finds the stable order.                 *)
LEMMA OrderByRank ==
  ASSUME NEW n \in Nat, NEW key, \A i \in 1..n : key[i] \in Int
  PROVE  \E p : /\ Arranges(p, n) /\ Ordered(p, n, key)
                /\ \A m, i \in 1..n : Rank(key, n, i) = m - 1 <=> i = p[m]
<1>1. PICK p : Arranges(p, n) /\ Ordered(p, n, key)
  BY StableOrder
<1>2. \A i \in 1..n : p[i] \in 1..n /\ key[p[i]] \in Int
  <2>1. \A i \in 1..n : p[i] \in 1..n
    BY <1>1 DEF Arranges
  <2> QED
    BY <2>1
<1>3. \A i, j \in 1..n : Precedes(key, p[i], p[j]) <=> i < j
  <2> SUFFICES ASSUME NEW i \in 1..n, NEW j \in 1..n
               PROVE  Precedes(key, p[i], p[j]) <=> i < j
    OBVIOUS
  <2>1. key[p[i]] \in Int /\ key[p[j]] \in Int /\ p[i] \in Int /\ p[j] \in Int
    BY <1>2
  <2>2. i < j => Precedes(key, p[i], p[j])
    BY <1>1 DEF Ordered
  <2>3. j < i => Precedes(key, p[j], p[i])
    BY <1>1 DEF Ordered
  <2>4. ~(Precedes(key, p[i], p[j]) /\ Precedes(key, p[j], p[i]))
    BY <2>1 DEF Precedes
  <2>5. i = j => ~Precedes(key, p[i], p[j])
    BY <2>1 DEF Precedes
  <2>6. i < j \/ j < i \/ i = j
    OBVIOUS
  <2> QED
    BY <2>2, <2>3, <2>4, <2>5, <2>6
<1>4. ASSUME NEW m \in 1..n PROVE Rank(key, n, p[m]) = m - 1
  <2> DEFINE S == {j \in 1..n : Precedes(key, j, p[m])}
             f == [i \in 1..(m - 1) |-> p[i]]
  <2>1. \A i \in 1..(m - 1) : i \in 1..n /\ i < m
    OBVIOUS
  <2>2. \A i \in 1..(m - 1) : f[i] = p[i] /\ f[i] \in S
    BY <1>2, <1>3, <2>1
  <2>3. \A j \in S : \E i \in 1..(m - 1) : f[i] = j
    <3> SUFFICES ASSUME NEW j \in S PROVE \E i \in 1..(m - 1) : f[i] = j
      OBVIOUS
    <3>1. PICK i \in 1..n : p[i] = j
      BY <1>1 DEF Arranges
    <3>2. i < m
      BY <1>3, <3>1
    <3>3. i \in 1..(m - 1)
      BY <3>2
    <3> QED
      BY <3>1, <3>3
  <2>4. \A i, j \in 1..(m - 1) : f[i] = f[j] => i = j
    <3> SUFFICES ASSUME NEW i \in 1..(m - 1), NEW j \in 1..(m - 1), f[i] = f[j] PROVE i = j
      OBVIOUS
    <3>1. p[i] = p[j] /\ i \in 1..n /\ j \in 1..n
      BY <2>1, <2>2
    <3>2. ~Precedes(key, p[i], p[i])
      BY <1>3, <3>1
    <3>3. ~(i < j) /\ ~(j < i)
      BY <1>3, <3>1, <3>2
    <3> QED
      BY <3>3
  <2>5. f \in [1..(m - 1) -> S]
    <3> HIDE DEF S
    <3> QED
      BY <2>2
  <2> HIDE DEF S, f
  <2>6. f \in Bijection(1..(m - 1), S)
    BY <2>3, <2>4, <2>5 DEF Bijection, Injection, Surjection, IsInjective
  <2>7. Cardinality(S) = m - 1
    BY <2>6, m - 1 \in Nat, FS_CountingElements DEF ExistsBijection
  <2> QED
    BY <2>7 DEF S, Rank
<1>5. ASSUME NEW m \in 1..n, NEW i \in 1..n, Rank(key, n, i) = m - 1
      PROVE  i = p[m]
  <2>1. PICK l \in 1..n : p[l] = i
    BY <1>1 DEF Arranges
  <2>2. Rank(key, n, i) = l - 1
    BY <1>4, <2>1
  <2> QED
    BY <1>5, <2>1, <2>2
<1> QED
  BY <1>1, <1>4, <1>5

Readdressed(a) == [a EXCEPT !.ip = ReplacementIp]

LEMMA ArchiverType ==
  ASSUME NEW a \in Archivers
  PROVE  /\ KeyOf(a) \in Nat
         /\ KeyOf(Readdressed(a)) = KeyOf(a)
         /\ Standalone => Readdressed(a) \in Archivers
<1>1. a.key \in Nat /\ a \in [key : {a.key}, ip : {a.ip}]
  BY ArchiverDiscoveryAssumption
<1>2. KeyOf(Readdressed(a)) = KeyOf(a)
  BY <1>1 DEF KeyOf, Readdressed
<1>3. Standalone => Readdressed(a) \in Archivers
  BY ArchiverDiscoveryAssumption DEF Readdressed
<1> QED
  BY <1>1, <1>2, <1>3 DEF KeyOf

KeysOf(list) == [i \in 1..Len(list) |-> KeyOf(list[i])]

LEMMA KeysOfType ==
  ASSUME NEW list \in Seq(Archivers)
  PROVE  /\ Len(list) \in Nat /\ DOMAIN list = 1..Len(list)
         /\ \A i \in 1..Len(list) : /\ list[i] \in Archivers
                                    /\ KeysOf(list)[i] = KeyOf(list[i])
                                    /\ KeysOf(list)[i] \in Int
<1>1. Len(list) \in Nat /\ DOMAIN list = 1..Len(list) /\ \A i \in 1..Len(list) : list[i] \in Archivers
  OBVIOUS
<1> QED
  BY <1>1, ArchiverType DEF KeysOf

(* SortByKey puts the list in the stable order of its keys.                *)
LEMMA SortedList ==
  ASSUME NEW list \in Seq(Archivers)
  PROVE  \E p : /\ Arranges(p, Len(list)) /\ Ordered(p, Len(list), KeysOf(list))
                /\ SortByKey(list) = [n \in 1..Len(list) |-> list[p[n]]]
<1> DEFINE l == Len(list)
           key == KeysOf(list)
           Place(m) == CHOOSE i \in DOMAIN list :
                         Cardinality({j \in DOMAIN list : Before(list, j, i)}) = m - 1
<1>1. l \in Nat /\ DOMAIN list = 1..l
  BY KeysOfType
<1>2. \A i \in 1..l : key[i] = KeyOf(list[i])
  BY KeysOfType
<1>3. \A i \in 1..l : key[i] \in Int
  BY KeysOfType
<1>4. PICK p : /\ Arranges(p, l) /\ Ordered(p, l, key)
               /\ \A m, i \in 1..l : Rank(key, l, i) = m - 1 <=> i = p[m]
  <2> HIDE DEF key, l
  <2> QED
    BY <1>1, <1>3, OrderByRank
<1>5. ASSUME NEW i \in 1..l
      PROVE  Cardinality({j \in DOMAIN list : Before(list, j, i)}) = Rank(key, l, i)
  <2>1. \A j \in 1..l : Before(list, j, i) <=> Precedes(key, j, i)
    <3> HIDE DEF key, l
    <3> QED
      BY <1>2 DEF Before, Precedes
  <2>2. {j \in DOMAIN list : Before(list, j, i)} = {j \in 1..l : Precedes(key, j, i)}
    BY <1>1, <2>1
  <2> QED
    BY <2>2 DEF Rank
<1>6. ASSUME NEW m \in 1..l
      PROVE  Place(m) = p[m]
  <2>1. p[m] \in DOMAIN list
    BY <1>1, <1>4 DEF Arranges
  <2>2. \A i \in DOMAIN list :
          Cardinality({j \in DOMAIN list : Before(list, j, i)}) = m - 1 <=> i = p[m]
    BY <1>1, <1>4, <1>5
  <2> QED
    BY <2>1, <2>2
<1>7. SortByKey(list) = [m \in DOMAIN list |-> list[Place(m)]]
  BY DEF SortByKey
<1>8. SortByKey(list) = [n \in 1..l |-> list[p[n]]]
  <2> HIDE DEF l, Place
  <2> QED
    BY <1>1, <1>6, <1>7
<1> QED
  BY <1>4, <1>8

(* The sorted list holds the same archivers, by rising keys, and of those  *)
(* with one key first the one that came first.                             *)
Rising(list) == \A i, j \in DOMAIN list : i < j => KeyOf(list[i]) <= KeyOf(list[j])

LEMMA SortFacts ==
  ASSUME NEW list \in Seq(Archivers)
  PROVE  /\ SortByKey(list) \in Seq(Archivers)
         /\ Range(SortByKey(list)) = Range(list)
         /\ Rising(SortByKey(list))
         /\ \A n \in DOMAIN list : First(list, n) =>
              \E m \in DOMAIN SortByKey(list) : /\ SortByKey(list)[m] = list[n]
                                                /\ First(SortByKey(list), m)
<1> DEFINE l == Len(list)
           s == SortByKey(list)
           key == KeysOf(list)
<1>1. /\ l \in Nat /\ DOMAIN list = 1..l
      /\ \A i \in 1..l : list[i] \in Archivers /\ key[i] = KeyOf(list[i]) /\ key[i] \in Int
  BY KeysOfType
<1>2. PICK p : /\ Arranges(p, l) /\ Ordered(p, l, key)
               /\ s = [n \in 1..l |-> list[p[n]]]
  BY SortedList
<1>3. /\ \A i \in 1..l : p[i] \in 1..l
      /\ \A j \in 1..l : \E i \in 1..l : p[i] = j
      /\ \A i, j \in 1..l : i < j => Precedes(key, p[i], p[j])
  BY <1>2 DEF Arranges, Ordered
<1>4. /\ DOMAIN s = 1..l
      /\ \A i \in 1..l : s[i] = list[p[i]] /\ s[i] \in Archivers /\ KeyOf(s[i]) = key[p[i]]
  <2> HIDE DEF s, key, l
  <2> QED
    BY <1>1, <1>2, <1>3
<1> HIDE DEF s, key, l
<1>5. s \in Seq(Archivers)
  <2>1. s = [i \in 1..l |-> s[i]]
    BY <1>2, <1>4
  <2> QED
    BY <1>1, <1>4, <2>1
<1>6. Range(s) = Range(list)
  <2>1. \A i \in 1..l : s[i] \in Range(list)
    BY <1>1, <1>3, <1>4 DEF Range
  <2>2. \A j \in 1..l : list[j] \in Range(s)
    <3> SUFFICES ASSUME NEW j \in 1..l PROVE list[j] \in Range(s)
      OBVIOUS
    <3>1. PICK i \in 1..l : p[i] = j
      BY <1>3
    <3> QED
      BY <1>4, <3>1 DEF Range
  <2> QED
    BY <1>1, <1>4, <2>1, <2>2 DEF Range
<1>7. Rising(s)
  <2> SUFFICES ASSUME NEW i \in 1..l, NEW j \in 1..l, i < j
               PROVE  KeyOf(s[i]) <= KeyOf(s[j])
    BY <1>4 DEF Rising
  <2>1. Precedes(key, p[i], p[j])
    BY <1>3
  <2>2. key[p[i]] \in Int /\ key[p[j]] \in Int
    BY <1>1, <1>3
  <2>3. key[p[i]] <= key[p[j]]
    BY <2>1, <2>2 DEF Precedes
  <2> QED
    BY <1>4, <2>3
<1>8. ASSUME NEW n \in 1..l, First(list, n)
      PROVE  \E m \in 1..l : s[m] = list[n] /\ First(s, m)
  <2>1. PICK m \in 1..l : p[m] = n
    BY <1>3
  <2>2. ASSUME NEW i \in 1..(m - 1) PROVE KeyOf(s[i]) # KeyOf(s[m])
    <3>1. i \in 1..l /\ i < m
      BY <1>1
    <3>2. Precedes(key, p[i], n) /\ p[i] \in 1..l
      BY <1>3, <2>1, <3>1
    <3>3. CASE key[p[i]] < key[n]
      BY <1>1, <1>4, <2>1, <3>1, <3>2, <3>3
    <3>4. CASE p[i] < n
      <4>1. p[i] \in 1..(n - 1)
        BY <3>2, <3>4
      <4> QED
        BY <1>1, <1>4, <1>8, <2>1, <3>1, <3>2, <4>1 DEF First
    <3> QED
      BY <3>2, <3>3, <3>4 DEF Precedes
  <2> QED
    BY <1>4, <2>1, <2>2 DEF First
<1> QED
  BY <1>1, <1>4, <1>5, <1>6, <1>7, <1>8 DEF s, l

-----------------------------------------------------------------------------
(* Deduplicating *)

(* f holds what is kept of the first entries of a list, up to the k-th.    *)
Keeps(f, list, k) ==
  f = [n \in 0..k |->
        IF n = 0 THEN <<>>
        ELSE IF n > 1 /\ KeyOf(list[n]) = KeyOf(list[n - 1]) THEN f[n - 1]
        ELSE Append(f[n - 1], list[n])]

LEMMA KeepsExist ==
  ASSUME NEW list, NEW k \in Nat
  PROVE  \E f : Keeps(f, list, k)
<1> DEFINE T == {i \in Nat : \E f : Keeps(f, list, i)}
<1>1. 0 \in T
  <2> DEFINE f == [n \in 0..0 |-> <<>>]
  <2>1. Keeps(f, list, 0)
    BY DEF Keeps
  <2> HIDE DEF f
  <2> QED
    BY <2>1
<1>2. ASSUME NEW i \in T PROVE i + 1 \in T
  <2>1. PICK f : Keeps(f, list, i)
    OBVIOUS
  <2> DEFINE last == IF i + 1 > 1 /\ KeyOf(list[i + 1]) = KeyOf(list[i]) THEN f[i]
                     ELSE Append(f[i], list[i + 1])
             g == [n \in 0..(i + 1) |-> IF n = i + 1 THEN last ELSE f[n]]
             rhs(n) == IF n = 0 THEN <<>>
                       ELSE IF n > 1 /\ KeyOf(list[n]) = KeyOf(list[n - 1]) THEN g[n - 1]
                       ELSE Append(g[n - 1], list[n])
  <2>2. ASSUME NEW n \in 0..i PROVE g[n] = rhs(n)
    <3>1. g[n] = f[n] /\ (n > 0 => g[n - 1] = f[n - 1])
      OBVIOUS
    <3>2. f[n] = IF n = 0 THEN <<>>
                 ELSE IF n > 1 /\ KeyOf(list[n]) = KeyOf(list[n - 1]) THEN f[n - 1]
                 ELSE Append(f[n - 1], list[n])
      BY <2>1 DEF Keeps
    <3> HIDE DEF g
    <3> QED
      BY <3>1, <3>2
  <2>3. g[i + 1] = rhs(i + 1)
    <3>1. g[i + 1] = last /\ g[i] = f[i] /\ (i + 1) - 1 = i /\ i + 1 # 0
      OBVIOUS
    <3> HIDE DEF g
    <3> QED
      BY <3>1
  <2>4. g = [n \in 0..(i + 1) |-> rhs(n)]
    <3>1. g = [n \in 0..(i + 1) |-> g[n]]
      OBVIOUS
    <3>2. \A n \in 0..(i + 1) : n \in 0..i \/ n = i + 1
      OBVIOUS
    <3> HIDE DEF g
    <3> QED
      BY <2>2, <2>3, <3>1, <3>2
  <2>5. Keeps(g, list, i + 1)
    BY <2>4, Zenon DEF Keeps
  <2> HIDE DEF g
  <2> QED
    BY <2>5
<1>3. T = Nat
  <2> T \in SUBSET Nat
    OBVIOUS
  <2> HIDE DEF T
  <2> QED
    BY <1>1, <1>2, SetInduction
<1>4. k \in T
  BY <1>3
<1> QED
  BY <1>4

(* What is kept of the first k entries: entries of those, all their keys,  *)
(* the first of each run of a key, and of rising keys each once.           *)
KeptOf(kept, list, k) ==
  /\ kept \in Seq(Archivers)
  /\ \A m \in DOMAIN kept : \E i \in 1..k : kept[m] = list[i]
  /\ \A i \in 1..k : \E m \in DOMAIN kept : KeyOf(kept[m]) = KeyOf(list[i])
  /\ \A i \in 1..k : (i > 1 => KeyOf(list[i]) # KeyOf(list[i - 1])) =>
       \E m \in DOMAIN kept : kept[m] = list[i]
  /\ Rising(list) => \A m, n \in DOMAIN kept : m < n => KeyOf(kept[m]) < KeyOf(kept[n])

(* The last entry kept has the key of the last one seen.                   *)
EndsLike(kept, list, k) ==
  k > 0 => Len(kept) > 0 /\ KeyOf(kept[Len(kept)]) = KeyOf(list[k])

LEMMA KeptNext ==
  ASSUME NEW list \in Seq(Archivers), NEW k \in Nat, k + 1 <= Len(list),
         NEW kept, KeptOf(kept, list, k), EndsLike(kept, list, k), NEW next,
         next = IF k + 1 > 1 /\ KeyOf(list[k + 1]) = KeyOf(list[k]) THEN kept
                ELSE Append(kept, list[k + 1])
  PROVE  KeptOf(next, list, k + 1) /\ EndsLike(next, list, k + 1)
<1> DEFINE a == list[k + 1]
           l == Len(kept)
<1>1. a \in Archivers /\ KeyOf(a) \in Nat /\ k + 1 \in DOMAIN list /\ (k > 0 => k \in DOMAIN list)
  BY KeysOfType, ArchiverType
<1>2. kept \in Seq(Archivers) /\ l \in Nat /\ DOMAIN kept = 1..l
  BY DEF KeptOf
<1>3. \A m \in 1..l : /\ kept[m] \in Archivers /\ KeyOf(kept[m]) \in Nat
                      /\ \E i \in 1..k : kept[m] = list[i]
  <2>1. \A m \in 1..l : kept[m] \in Archivers
    BY <1>2
  <2>2. \A m \in 1..l : \E i \in 1..k : kept[m] = list[i]
    BY <1>2 DEF KeptOf
  <2> QED
    BY <2>1, <2>2, ArchiverType
<1>4. \A i \in 1..k : \E m \in 1..l : KeyOf(kept[m]) = KeyOf(list[i])
  BY <1>2 DEF KeptOf
<1>5. \A i \in 1..k : (i > 1 => KeyOf(list[i]) # KeyOf(list[i - 1])) =>
        \E m \in 1..l : kept[m] = list[i]
  BY <1>2 DEF KeptOf
<1>6. Rising(list) => \A m, n \in 1..l : m < n => KeyOf(kept[m]) < KeyOf(kept[n])
  BY <1>2 DEF KeptOf
<1>7. \A i \in 1..(k + 1) : i \in 1..k \/ i = k + 1
  OBVIOUS
<1>8. \A i \in 1..k : i \in 1..(k + 1)
  OBVIOUS
<1>9. CASE k + 1 > 1 /\ KeyOf(a) = KeyOf(list[k])
  <2>1. next = kept
    BY <1>9
  <2>2. l > 0 /\ KeyOf(kept[l]) = KeyOf(a) /\ l \in 1..l
    BY <1>2, <1>9 DEF EndsLike
  <2>3. EndsLike(next, list, k + 1)
    BY <2>1, <2>2 DEF EndsLike
  <2>4. \A m \in 1..l : \E i \in 1..(k + 1) : kept[m] = list[i]
    BY <1>3, <1>8
  <2>5. \A i \in 1..(k + 1) : \E m \in 1..l : KeyOf(kept[m]) = KeyOf(list[i])
    BY <1>4, <1>7, <2>2
  <2>6. \A i \in 1..(k + 1) : (i > 1 => KeyOf(list[i]) # KeyOf(list[i - 1])) =>
          \E m \in 1..l : kept[m] = list[i]
    <3>1. (k + 1) - 1 = k
      OBVIOUS
    <3> QED
      BY <1>5, <1>7, <1>9, <3>1
  <2>7. KeptOf(kept, list, k + 1)
    BY <1>2, <1>6, <2>4, <2>5, <2>6 DEF KeptOf
  <2> QED
    BY <2>1, <2>3, <2>7
<1>10. CASE ~(k + 1 > 1 /\ KeyOf(a) = KeyOf(list[k]))
  <2>1. next = Append(kept, a)
    BY <1>10
  <2>2. /\ next \in Seq(Archivers) /\ Len(next) = l + 1 /\ DOMAIN next = 1..(l + 1)
        /\ next[l + 1] = a /\ \A m \in 1..l : next[m] = kept[m]
    BY <1>1, <1>2, <2>1
  <2>3. /\ \A m \in 1..(l + 1) : m \in 1..l \/ m = l + 1
        /\ \A m \in 1..l : m \in 1..(l + 1)
        /\ l + 1 \in 1..(l + 1) /\ k + 1 \in 1..(k + 1)
    BY <1>2
  <2>4. EndsLike(next, list, k + 1)
    BY <1>2, <2>2 DEF EndsLike
  <2>5. \A m \in 1..(l + 1) : \E i \in 1..(k + 1) : next[m] = list[i]
    BY <1>3, <1>8, <2>2, <2>3
  <2>6. \A i \in 1..(k + 1) : \E m \in 1..(l + 1) : KeyOf(next[m]) = KeyOf(list[i])
    BY <1>4, <1>7, <2>2, <2>3
  <2>7. \A i \in 1..(k + 1) : (i > 1 => KeyOf(list[i]) # KeyOf(list[i - 1])) =>
          \E m \in 1..(l + 1) : next[m] = list[i]
    BY <1>5, <1>7, <2>2, <2>3
  <2>8. ASSUME Rising(list), NEW m \in 1..(l + 1), NEW n \in 1..(l + 1), m < n
        PROVE  KeyOf(next[m]) < KeyOf(next[n])
    <3>1. CASE n \in 1..l
      <4>1. m \in 1..l
        BY <2>8, <3>1
      <4> QED
        BY <1>6, <2>2, <2>8, <3>1, <4>1
    <3>2. CASE n = l + 1
      <4>1. m \in 1..l /\ l \in 1..l /\ l > 0
        BY <1>2, <2>8, <3>2
      <4>2. KeyOf(kept[m]) <= KeyOf(kept[l])
        BY <1>2, <1>3, <1>6, <2>8, <4>1
      <4>3. PICK i \in 1..k : kept[l] = list[i]
        BY <1>3, <4>1
      <4>4. k > 0 /\ KeyOf(kept[l]) = KeyOf(list[k])
        BY <4>3 DEF EndsLike
      <4>5. KeyOf(list[k]) <= KeyOf(a)
        BY <1>1, <2>8, <4>4 DEF Rising
      <4>6. KeyOf(list[k]) \in Nat /\ KeyOf(a) # KeyOf(list[k])
        <5>1. k \in DOMAIN list /\ k + 1 > 1
          BY <1>1, <4>4
        <5>2. list[k] \in Archivers
          BY <5>1
        <5> QED
          BY <1>10, <5>1, <5>2, ArchiverType
      <4> QED
        BY <1>1, <1>3, <2>2, <3>2, <4>1, <4>2, <4>4, <4>5, <4>6
    <3> QED
      BY <2>3, <3>1, <3>2
  <2> QED
    BY <2>2, <2>4, <2>5, <2>6, <2>7, <2>8 DEF KeptOf
<1> QED
  BY <1>9, <1>10

(* What dedup_by makes of a list.                                          *)
LEMMA DedupFacts ==
  ASSUME NEW list \in Seq(Archivers)
  PROVE  KeptOf(Dedup(list), list, Len(list))
<1> DEFINE l == Len(list)
           f == CHOOSE g : Keeps(g, list, l)
<1>1. l \in Nat
  OBVIOUS
<1>2. Keeps(f, list, l)
  <2> HIDE DEF l
  <2> QED
    BY <1>1, KeepsExist
<1>3. Dedup(list) = f[l]
  BY DEF Dedup, Keeps
<1> HIDE DEF f
<1> DEFINE T == {k \in Nat : k <= l => KeptOf(f[k], list, k) /\ EndsLike(f[k], list, k)}
<1>4. 0 \in T
  <2>1. f[0] = <<>>
    BY <1>1, <1>2 DEF Keeps
  <2>2. <<>> \in Seq(Archivers) /\ DOMAIN <<>> = 1..0 /\ \A i \in 1..0 : FALSE
    OBVIOUS
  <2>3. KeptOf(<<>>, list, 0) /\ EndsLike(<<>>, list, 0)
    BY <2>2 DEF KeptOf, EndsLike
  <2> QED
    BY <2>1, <2>3
<1>5. ASSUME NEW k \in T PROVE k + 1 \in T
  <2> SUFFICES ASSUME k + 1 <= l
               PROVE  KeptOf(f[k + 1], list, k + 1) /\ EndsLike(f[k + 1], list, k + 1)
    OBVIOUS
  <2>1. k \in Nat /\ k + 1 \in 0..l /\ k + 1 # 0 /\ (k + 1) - 1 = k
    BY <1>1
  <2>2. KeptOf(f[k], list, k) /\ EndsLike(f[k], list, k)
    BY <1>1, <2>1
  <2>3. f[k + 1] = IF k + 1 > 1 /\ KeyOf(list[k + 1]) = KeyOf(list[k]) THEN f[k]
                   ELSE Append(f[k], list[k + 1])
    BY <1>2, <2>1 DEF Keeps
  <2> QED
    BY <2>1, <2>2, <2>3, KeptNext
<1>6. T = Nat
  <2> T \in SUBSET Nat
    OBVIOUS
  <2> HIDE DEF T
  <2> QED
    BY <1>4, <1>5, SetInduction
<1>7. l \in T
  BY <1>1, <1>6
<1> QED
  BY <1>1, <1>3, <1>7

-----------------------------------------------------------------------------
(* Merging, and whom a round asks *)

Shown(a) == IF Standalone THEN [a EXCEPT !.ip = ReplacementIp] ELSE a

LEMMA ShownType ==
  ASSUME NEW a \in Archivers
  PROVE  Shown(a) \in Archivers /\ KeyOf(Shown(a)) = KeyOf(a)
BY ArchiverType DEF Shown, Readdressed

LEMMA MergeElements ==
  ASSUME NEW list \in Seq(Archivers)
  PROVE  LET d == Dedup(SortByKey(list)) IN
         /\ Merge(list) \in Seq(Archivers)
         /\ DOMAIN Merge(list) = DOMAIN d
         /\ \A m \in DOMAIN d : d[m] \in Archivers /\ Merge(list)[m] = Shown(d[m])
<1> DEFINE d == Dedup(SortByKey(list))
<1>1. d \in Seq(Archivers)
  BY SortFacts, DedupFacts DEF KeptOf
<1>2. Merge(list) = IF Standalone THEN [m \in DOMAIN d |-> [d[m] EXCEPT !.ip = ReplacementIp]] ELSE d
  BY DEF Merge
<1> HIDE DEF d
<1>3. Len(d) \in Nat /\ DOMAIN d = 1..Len(d) /\ \A m \in 1..Len(d) : d[m] \in Archivers
  BY <1>1
<1>4. DOMAIN Merge(list) = DOMAIN d /\ \A m \in DOMAIN d : Merge(list)[m] = Shown(d[m])
  BY <1>2 DEF Shown
<1>5. Merge(list) = [m \in 1..Len(d) |-> Merge(list)[m]]
  <2>1. CASE Standalone
    BY <1>2, <1>3, <2>1
  <2>2. CASE ~Standalone
    BY <1>1, <1>2, <1>3, <2>2
  <2> QED
    BY <2>1, <2>2
<1>6. \A m \in 1..Len(d) : Merge(list)[m] \in Archivers
  BY <1>3, <1>4, ShownType
<1>7. Merge(list) \in Seq(Archivers)
  BY <1>3, <1>5, <1>6
<1> QED
  BY <1>3, <1>4, <1>7 DEF d

(* A merged archiver is one of the list, with its ip or the one that a     *)
(* standalone network replaces it by.                                      *)
LEMMA MergeOnlyListed ==
  ASSUME NEW list \in Seq(Archivers), NEW a \in Range(Merge(list))
  PROVE  \E h \in Range(list) : a = Shown(h)
<1> DEFINE s == SortByKey(list)
           d == Dedup(s)
<1>1. s \in Seq(Archivers) /\ Range(s) = Range(list) /\ KeptOf(d, s, Len(s))
  BY SortFacts, DedupFacts
<1>2. PICK m \in DOMAIN d : a = Shown(d[m])
  BY MergeElements DEF Range
<1> HIDE DEF d, s
<1>3. PICK i \in 1..Len(s) : d[m] = s[i]
  BY <1>1 DEF KeptOf
<1>4. s[i] \in Range(s)
  BY <1>1, <1>3 DEF Range
<1> QED
  BY <1>1, <1>2, <1>3, <1>4

(* A round leaves one archiver for each key that was answered, by rising   *)
(* keys, and of those with one key the one that arrived first.             *)
THEOREM MergeIsMerge ==
  ASSUME NEW list \in Seq(Archivers)
  PROVE  IsMergeOf(Merge(list), list)
<1> DEFINE s == SortByKey(list)
           d == Dedup(s)
           r == Merge(list)
<1>1. /\ s \in Seq(Archivers) /\ Range(s) = Range(list) /\ Rising(s)
      /\ \A n \in DOMAIN list : First(list, n) =>
           \E m \in DOMAIN s : s[m] = list[n] /\ First(s, m)
  BY SortFacts
<1>2. KeptOf(d, s, Len(s))
  BY <1>1, DedupFacts
<1>3. DOMAIN r = DOMAIN d /\ \A m \in DOMAIN d : d[m] \in Archivers /\ r[m] = Shown(d[m])
  BY MergeElements
<1> HIDE DEF d, s, r
<1>4. DOMAIN s = 1..Len(s) /\ Len(s) \in Nat
  BY <1>1
<1>5. \A m \in DOMAIN d : KeyOf(r[m]) = KeyOf(d[m])
  BY <1>3, ShownType
<1>6. Keys(r) = Keys(list)
  <2>1. Keys(list) = Keys(s)
    BY <1>1 DEF Keys
  <2>2. \A m \in DOMAIN r : KeyOf(r[m]) \in Keys(s)
    <3> SUFFICES ASSUME NEW m \in DOMAIN d PROVE KeyOf(d[m]) \in Keys(s)
      BY <1>3, <1>5
    <3>1. PICK i \in 1..Len(s) : d[m] = s[i]
      BY <1>2 DEF KeptOf
    <3> QED
      BY <1>4, <3>1 DEF Keys, Range
  <2>3. \A i \in DOMAIN s : KeyOf(s[i]) \in Keys(r)
    <3> SUFFICES ASSUME NEW i \in 1..Len(s) PROVE KeyOf(s[i]) \in Keys(r)
      BY <1>4
    <3>1. PICK m \in DOMAIN d : KeyOf(d[m]) = KeyOf(s[i])
      BY <1>2 DEF KeptOf
    <3> QED
      BY <1>3, <1>5, <3>1 DEF Keys, Range
  <2>4. Keys(r) \subseteq Keys(s)
    BY <2>2 DEF Keys, Range
  <2>5. Keys(s) \subseteq Keys(r)
    BY <2>3 DEF Keys, Range
  <2> QED
    BY <2>1, <2>4, <2>5
<1>7. \A m, n \in DOMAIN r : m < n => KeyOf(r[m]) < KeyOf(r[n])
  BY <1>1, <1>2, <1>3, <1>5 DEF KeptOf
<1>8. ASSUME NEW n \in DOMAIN list, First(list, n)
      PROVE  \E m \in DOMAIN r : r[m] = Shown(list[n])
  <2>1. PICK i \in DOMAIN s : s[i] = list[n] /\ First(s, i)
    BY <1>1, <1>8
  <2>2. i > 1 => KeyOf(s[i]) # KeyOf(s[i - 1])
    BY <1>4, <2>1 DEF First
  <2>3. PICK m \in DOMAIN d : d[m] = s[i]
    BY <1>2, <1>4, <2>2 DEF KeptOf
  <2> QED
    BY <1>3, <2>1, <2>3
<1> QED
  BY <1>6, <1>7, <1>8 DEF IsMergeOf, Shown, r

(* Deduplicating a list loses none of its keys.                            *)
LEMMA DedupKeepsKeys ==
  ASSUME NEW list \in Seq(Archivers)
  PROVE  Keys(list) \subseteq Keys(Dedup(list))
<1>1. KeptOf(Dedup(list), list, Len(list))
  BY DedupFacts
<1>2. DOMAIN list = 1..Len(list)
  OBVIOUS
<1>3. \A i \in DOMAIN list : KeyOf(list[i]) \in Keys(Dedup(list))
  BY <1>1, <1>2 DEF KeptOf, Keys, Range
<1> QED
  BY <1>3 DEF Keys, Range

(* Two lists in a row hold what each holds.                                *)
LEMMA RangeOfBoth ==
  ASSUME NEW S, NEW s \in Seq(S), NEW t \in Seq(S)
  PROVE  Range(s \o t) = Range(s) \cup Range(t)
<1>1. \A i \in DOMAIN (s \o t) : (s \o t)[i] \in Range(s) \cup Range(t)
  <2> SUFFICES ASSUME NEW i \in 1..(Len(s) + Len(t))
               PROVE  (s \o t)[i] \in Range(s) \cup Range(t)
    OBVIOUS
  <2>1. CASE i <= Len(s)
    <3>1. i \in DOMAIN s /\ (s \o t)[i] = s[i]
      BY <2>1
    <3> QED
      BY <3>1 DEF Range
  <2>2. CASE i > Len(s)
    <3>1. i - Len(s) \in DOMAIN t /\ (s \o t)[i] = t[i - Len(s)]
      BY <2>2
    <3> QED
      BY <3>1 DEF Range
  <2> QED
    BY <2>1, <2>2
<1>2. \A i \in DOMAIN s : s[i] \in Range(s \o t)
  <2> SUFFICES ASSUME NEW i \in DOMAIN s PROVE s[i] \in Range(s \o t)
    OBVIOUS
  <2>1. i \in DOMAIN (s \o t) /\ (s \o t)[i] = s[i]
    OBVIOUS
  <2> QED
    BY <2>1 DEF Range
<1>3. \A i \in DOMAIN t : t[i] \in Range(s \o t)
  <2> SUFFICES ASSUME NEW i \in DOMAIN t PROVE t[i] \in Range(s \o t)
    OBVIOUS
  <2>1. Len(s) + i \in DOMAIN (s \o t) /\ (s \o t)[Len(s) + i] = t[i]
    OBVIOUS
  <2> QED
    BY <2>1 DEF Range
<1>4. Range(s \o t) \subseteq Range(s) \cup Range(t)
  BY <1>1 DEF Range
<1>5. Range(s) \subseteq Range(s \o t) /\ Range(t) \subseteq Range(s \o t)
  BY <1>2, <1>3 DEF Range
<1> QED
  BY <1>4, <1>5

-----------------------------------------------------------------------------
(* Types *)

LEMMA BaseType ==
  ASSUME TypeOK
  PROVE  /\ Cached \in Seq(Archivers) /\ Cached \o Seeds \in Seq(Archivers)
         /\ Base \in Seq(Archivers) /\ Len(Base) \in Nat
<1>1. Cached \in Seq(Archivers)
  BY DEF TypeOK, Cached
<1>2. Cached \o Seeds \in Seq(Archivers)
  BY <1>1, ArchiverDiscoveryAssumption
<1>3. Base \in Seq(Archivers)
  BY <1>2, DedupFacts DEF Base, KeptOf
<1> QED
  BY <1>1, <1>2, <1>3

LEMMA NoWriterType == NoWriter \in [at : {"off", "new", "open"}, list : Seq(Archivers)]
BY DEF NoWriter

LEMMA FileType ==
  ASSUME NEW text \in {"absent", "empty", "junk", "list"}, NEW list \in Seq(Archivers)
  PROVE  File(text, list) \in [text : {"absent", "empty", "junk", "list"}, list : Seq(Archivers)]
BY DEF File

LEMMA DieTypes ==
  ASSUME TypeOK, Die
  PROVE  TypeOK'
<1>1. writing' \in [Writers -> [at : {"off", "new", "open"}, list : Seq(Archivers)]]
  BY NoWriterType DEF Die
<1>2. <<>> \in Seq(Archivers)
  OBVIOUS
<1> QED
  BY <1>1, <1>2 DEF Die, TypeOK

LEMMA NextTypes ==
  ASSUME TypeOK, [Next]_vars
  PROVE  TypeOK'
<1> DEFINE Jobs == [at : {"off", "new", "open"}, list : Seq(Archivers)]
<1>0. <<>> \in Seq(Archivers)
  OBVIOUS
<1>1. CASE Start
  <2>1. file' = File("absent", <<>>) \/ file' = file
    BY <1>1 DEF Start
  <2>2. file' \in [text : {"absent", "empty", "junk", "list"}, list : Seq(Archivers)]
    <3>1. CASE file' = File("absent", <<>>)
      BY <1>0, <3>1, FileType
    <3>2. CASE file' = file
      BY <3>2 DEF TypeOK
    <3> QED
      BY <2>1, <3>1, <3>2
  <2>3. inherited' \in BOOLEAN /\ heard' = {}
    BY <1>1 DEF Start
  <2> QED
    BY <1>0, <1>1, <2>2, <2>3 DEF Start, TypeOK, round
<1>2. CASE Crash
  BY <1>2, DieTypes DEF Crash
<1>3. CASE Listen \/ Calm
  BY <1>3 DEF Listen, Calm, TypeOK, round, disk, nodes
<1>4. CASE Discover
  BY <1>0, <1>4, BaseType DEF Discover, TypeOK, disk, nodes
<1>5. ASSUME NEW list \in Answers, Answer(list)
      PROVE  TypeOK'
  <2>1. list \in Seq(Archivers)
    BY ArchiverDiscoveryAssumption
  <2>2. merged' \in Seq(Archivers)
    BY <1>5, <2>1 DEF Answer, TypeOK
  <2>3. heard' \subseteq Archivers
    BY <1>5, <2>1 DEF Answer, TypeOK, Range
  <2>4. pending' \in Nat
    BY <1>5 DEF Answer, TypeOK
  <2> QED
    BY <1>5, <2>2, <2>3, <2>4 DEF Answer, TypeOK, disk, nodes
<1>6. CASE AnswerFails
  BY <1>6 DEF AnswerFails, TypeOK, disk, nodes
<1>7. ASSUME NEW w \in Writers, Finish(w)
      PROVE  TypeOK'
  <2>1. active' \in Seq(Archivers)
    BY <1>7, MergeElements DEF Finish, TypeOK
  <2>2. [at |-> "new", list |-> active'] \in Jobs
    BY <2>1
  <2>3. writing' \in [Writers -> Jobs]
    BY <1>7, <2>2 DEF Finish, TypeOK
  <2> QED
    BY <1>0, <1>7, <2>1, <2>3 DEF Finish, TypeOK, nodes
<1>8. ASSUME NEW w \in Writers, Create(w) \/ WriteAll(w) \/ WriterPanics(w)
      PROVE  TypeOK'
  <2>1. writing[w] \in Jobs /\ NoWriter \in Jobs
    BY NoWriterType DEF TypeOK
  <2>2. writing' \in [Writers -> Jobs]
    <3>1. CASE Create(w)
      <4>1. [writing[w] EXCEPT !.at = "open"] \in Jobs
        BY <2>1
      <4> QED
        BY <3>1, <4>1 DEF Create, TypeOK
    <3>2. CASE WriteAll(w) \/ WriterPanics(w)
      BY <2>1, <3>2 DEF WriteAll, WriterPanics, TypeOK
    <3> QED
      BY <1>8, <3>1, <3>2
  <2>3. file' \in [text : {"absent", "empty", "junk", "list"}, list : Seq(Archivers)]
    <3>1. CASE file' = File("empty", <<>>)
      BY <1>0, <3>1, FileType
    <3>2. CASE file' = File("junk", <<>>)
      BY <1>0, <3>2, FileType
    <3>3. CASE file' = File("list", writing[w].list)
      BY <2>1, <3>3, FileType
    <3>4. CASE UNCHANGED file
      BY <3>4 DEF TypeOK
    <3> QED
      BY <1>8, <3>1, <3>2, <3>3, <3>4 DEF Create, WriteAll, WriterPanics
  <2> QED
    BY <1>8, <2>2, <2>3 DEF Create, WriteAll, WriterPanics, TypeOK, round, nodes
<1>9. CASE Refresh
  <2>1. CASE Update
    BY <2>1 DEF Update, TypeOK, round, disk
  <2>2. CASE Fetch
    BY <2>2 DEF Fetch, UpdateEnds, TypeOK, round, disk
  <2>3. CASE FetchFails
    BY <2>3 DEF FetchFails, TypeOK, round, disk
  <2>4. CASE NobodyLeft
    BY <2>4 DEF NobodyLeft, UpdateEnds, TypeOK, round, disk
  <2>5. CASE FetchPanics
    <3>1. CASE boot = "update"
      BY <2>5, <3>1, DieTypes DEF FetchPanics
    <3>2. CASE boot # "update"
      BY <2>5, <3>2 DEF FetchPanics, TypeOK, round, disk
    <3> QED
      BY <3>1, <3>2
  <2> QED
    BY <1>9, <2>1, <2>2, <2>3, <2>4, <2>5 DEF Refresh
<1>10. CASE UNCHANGED vars
  BY <1>10 DEF vars, TypeOK, round, disk, nodes
<1> QED
  BY <1>1, <1>2, <1>3, <1>4, <1>5, <1>6, <1>7, <1>8, <1>9, <1>10 DEF Next, Round

-----------------------------------------------------------------------------
(* Every archiver in use was named *)

(* An archiver that was named stays so.                                    *)
LEMMA StaysNamed ==
  ASSUME NEW a, Named(a), heard \subseteq heard'
  PROVE  Named(a)'
BY DEF Named

LEMMA NamedIsShown ==
  ASSUME NEW a
  PROVE  Named(a) <=> \E h \in heard : a = Shown(h)
BY DEF Named, Shown

(* Dying leaves nothing that runs. *)
LEMMA DieStopsAll ==
  ASSUME Die
  PROVE  boot' = "down" /\ NothingRuns'
<1>1. \A w \in Writers : writing'[w] = NoWriter
  BY DEF Die
<1> QED
  BY <1>1 DEF Die, NothingRuns

LEMMA InitInv == Init => Inv
<1> SUFFICES ASSUME Init PROVE Inv
  OBVIOUS
<1>1. <<>> \in Seq(Archivers)
  OBVIOUS
<1>2. file \in [text : {"absent", "empty", "junk", "list"}, list : Seq(Archivers)]
  BY <1>1 DEF Init, File
<1>3. writing \in [Writers -> [at : {"off", "new", "open"}, list : Seq(Archivers)]]
  BY NoWriterType DEF Init
<1>4. TypeOK
  BY <1>1, <1>2, <1>3 DEF Init, TypeOK
<1>5. \A w \in Writers : writing[w] = NoWriter
  BY DEF Init
<1>6. NothingRuns
  BY <1>5 DEF Init, NothingRuns
<1> QED
  BY <1>4, <1>6 DEF Init, Inv

LEMMA OnlyStarts ==
  ASSUME Inv, boot = "down", Next
  PROVE  Start \/ Calm
<1>1. NothingRuns
  BY DEF Inv
<1>2. ~Crash /\ ~Listen
  BY DEF Crash, Listen
<1>3. ~Round
  BY <1>1 DEF NothingRuns, Round, Discover, Answer, AnswerFails, Finish, Tickers
<1>4. ~Refresh
  BY <1>1 DEF NothingRuns, Refresh, Update, Fetch, FetchFails, NobodyLeft, FetchPanics, Tickers
<1>5. \A w \in Writers : ~Create(w) /\ ~WriteAll(w) /\ ~WriterPanics(w)
  BY <1>1 DEF NothingRuns, Create, WriteAll, WriterPanics, NoWriter
<1> QED
  BY <1>2, <1>3, <1>4, <1>5 DEF Next

(* What keeps all the lists keeps them named.                              *)
LEMMA ListsKept ==
  ASSUME EverythingNamed, UNCHANGED <<merged, active, disk, heard>>
  PROVE  EverythingNamed'
<1>1. \A a : Named(a) => Named(a)'
  BY StaysNamed
<1>2. Trusted' = Trusted /\ writing' = writing
  BY DEF Trusted, Cached, disk
<1> QED
  BY <1>1, <1>2 DEF EverythingNamed

LEMMA NextInv ==
  ASSUME Inv, [Next]_vars
  PROVE  Inv'
<1>1. TypeOK /\ TypeOK'
  BY NextTypes DEF Inv
<1>2. Range(<<>>) = {}
  BY DEF Range
<1>3. CASE Start
  <2>1. boot' # "down" /\ NothingRuns
    BY <1>3 DEF Start, Inv
  <2>2. inherited' \/ Cached' = <<>>
    BY <1>3 DEF Start, Cached, File
  <2>3. \A w \in Writers : Range(writing'[w].list) = {}
    BY <1>2, <1>3, <2>1 DEF Start, NothingRuns, NoWriter
  <2>4. merged' = <<>> /\ active' = <<>>
    BY <1>3, <2>1 DEF Start, NothingRuns, round
  <2>5. EverythingNamed'
    BY <1>2, <2>2, <2>3, <2>4 DEF EverythingNamed, Trusted
  <2> QED
    BY <1>1, <2>1, <2>5 DEF Inv
<1>4. CASE Die
  BY <1>1, <1>4, DieStopsAll DEF Inv
<1>5. CASE Calm \/ UNCHANGED vars
  <2>1. UNCHANGED <<boot, merged, active, disk, heard>> /\ UNCHANGED <<discovering, pending, updating>>
    BY <1>5 DEF Calm, vars, round, nodes
  <2>2. NothingRuns => NothingRuns'
    BY <2>1 DEF NothingRuns, disk
  <2> QED
    BY <1>1, <2>1, <2>2, ListsKept DEF Inv
<1>6. ASSUME Next, ~Start, ~Die, ~Calm
      PROVE  Inv'
  <2>1. boot # "down" /\ EverythingNamed
    BY <1>6, OnlyStarts DEF Inv
  <2>2. \A a \in Trusted : Named(a)
    BY <2>1 DEF EverythingNamed
  <2>3. CASE Listen
    BY <1>1, <2>1, <2>3, ListsKept DEF Inv, Listen, round
  <2>4. CASE Refresh
    <3>1. UNCHANGED <<merged, active, disk, heard>> /\ boot' # "down"
      BY <1>6, <2>1, <2>4 DEF Refresh, Update, Fetch, FetchFails, NobodyLeft, FetchPanics, UpdateEnds, round
    <3> QED
      BY <1>1, <2>1, <3>1, ListsKept DEF Inv
  <2>5. CASE AnswerFails
    BY <1>1, <2>1, <2>5, ListsKept DEF Inv, AnswerFails
  <2>6. CASE Discover
    <3>1. merged' = <<>> /\ UNCHANGED <<boot, active, disk, heard>>
      BY <2>6 DEF Discover
    <3>2. Trusted' = Trusted /\ writing' = writing
      BY <3>1 DEF Trusted, Cached, disk
    <3>3. \A a : Named(a) => Named(a)'
      BY <3>1, StaysNamed
    <3>4. EverythingNamed'
      BY <1>2, <2>1, <3>1, <3>2, <3>3 DEF EverythingNamed
    <3> QED
      BY <1>1, <2>1, <3>1, <3>4 DEF Inv
  <2>7. ASSUME NEW list \in Answers, Answer(list)
        PROVE  Inv'
    <3>1. merged' = merged \o list /\ heard' = heard \cup Range(list)
          /\ UNCHANGED <<boot, active, disk>>
      BY <2>7 DEF Answer
    <3>2. Range(merged') \subseteq Range(merged) \cup Range(list)
      <4>1. merged \in Seq(Archivers) /\ list \in Seq(Archivers)
        BY <1>1, ArchiverDiscoveryAssumption DEF TypeOK
      <4> QED
        BY <3>1, <4>1, RangeOfBoth
    <3>3. \A a : Named(a) => Named(a)'
      BY <3>1, StaysNamed
    <3>4. Trusted' = Trusted /\ writing' = writing
      BY <3>1 DEF Trusted, Cached, disk
    <3>5. Range(merged') \subseteq heard'
      BY <2>1, <3>1, <3>2 DEF EverythingNamed
    <3>6. EverythingNamed'
      BY <2>1, <3>1, <3>3, <3>4, <3>5 DEF EverythingNamed
    <3> QED
      BY <1>1, <2>1, <3>1, <3>6 DEF Inv
  <2>8. ASSUME NEW w \in Writers, Finish(w)
        PROVE  Inv'
    <3>1. /\ active' = Merge(merged) /\ merged' = <<>> /\ UNCHANGED <<file, inherited, heard>>
          /\ writing' = [writing EXCEPT ![w] = [at |-> "new", list |-> active']]
      BY <2>8 DEF Finish
    <3>2. boot' # "down"
      BY <2>1, <2>8 DEF Finish
    <3>3. \A a \in Range(active') : \E h \in Range(merged) : a = Shown(h)
      BY <1>1, <3>1, MergeOnlyListed DEF TypeOK
    <3>4. \A a : Named(a) <=> \E h \in heard : a = Shown(h)
      BY NamedIsShown
    <3>5. \A a \in Range(active') : Named(a)
      BY <2>1, <3>3, <3>4 DEF EverythingNamed
    <3>6. \A a : Named(a) => Named(a)'
      BY <3>1, StaysNamed
    <3>7. \A a \in Trusted' : Named(a)
      BY <2>2, <3>1, <3>5 DEF Trusted, Cached
    <3>8. ASSUME NEW v \in Writers, NEW a \in Range(writing'[v].list)
          PROVE  Named(a)
      BY <1>1, <2>1, <3>1, <3>5, <3>8 DEF TypeOK, EverythingNamed
    <3>9. EverythingNamed'
      BY <1>2, <2>1, <3>1, <3>5, <3>6, <3>7, <3>8 DEF EverythingNamed
    <3> QED
      BY <1>1, <3>2, <3>9 DEF Inv
  <2>9. ASSUME NEW w \in Writers, Create(w) \/ WriteAll(w) \/ WriterPanics(w)
        PROVE  Inv'
    <3>1. UNCHANGED <<boot, merged, active, heard>>
      BY <2>9 DEF Create, WriteAll, WriterPanics, round
    <3>2. \A a : Named(a) => Named(a)'
      BY <3>1, StaysNamed
    <3>3. \A v \in Writers : writing'[v].list = writing[v].list \/ writing'[v].list = <<>>
      <4>1. writing \in [Writers -> [at : {"off", "new", "open"}, list : Seq(Archivers)]]
        BY <1>1 DEF TypeOK
      <4>2. CASE Create(w)
        BY <4>1, <4>2 DEF Create
      <4>3. CASE WriteAll(w) \/ WriterPanics(w)
        BY <4>1, <4>3 DEF WriteAll, WriterPanics, NoWriter
      <4> QED
        BY <2>9, <4>2, <4>3
    <3>4. \/ Cached' = Cached /\ inherited' = inherited
          \/ Cached' = <<>> \/ Cached' = writing[w].list
      BY <2>9 DEF Create, WriteAll, WriterPanics, Cached, File
    <3>5. \A a \in Trusted' : Named(a)
      <4>1. \A a \in Range(active') : Named(a)
        BY <2>2, <3>1 DEF Trusted
      <4>2. \A a \in Range(writing[w].list) : Named(a)
        BY <2>1 DEF EverythingNamed
      <4>3. ~inherited' => \A a \in Range(Cached') : Named(a)
        BY <1>2, <2>2, <3>4, <4>2 DEF Trusted
      <4> QED
        BY <4>1, <4>3 DEF Trusted
    <3>6. \A v \in Writers : \A a \in Range(writing'[v].list) : Named(a)
      BY <1>2, <2>1, <3>3 DEF EverythingNamed
    <3>7. EverythingNamed'
      BY <2>1, <3>1, <3>2, <3>5, <3>6 DEF EverythingNamed
    <3> QED
      BY <1>1, <2>1, <3>1, <3>7 DEF Inv
  <2> QED
    BY <1>6, <2>3, <2>4, <2>5, <2>6, <2>7, <2>8, <2>9 DEF Next, Round, Crash
<1> QED
  BY <1>3, <1>4, <1>5, <1>6

(* What runs and what is kept in memory and in the file is as Inv says in  *)
(* every state: a process that is down runs nothing, and one that is up    *)
(* keeps only archivers that were named to it, but for a file it could not *)
(* remove and has not rewritten yet (archivers.rs 54-168).                 *)
THEOREM Invariance == Spec => []Inv
<1>1. Init => Inv
  BY InitInv
<1>2. Inv /\ [Next]_vars => Inv'
  BY NextInv
<1> QED
  BY <1>1, <1>2, PTL DEF Spec

(* No archiver in use comes from the file of an earlier process or from an *)
(* answer that was not valid; nor does one in the file, unless the file    *)
(* could not be removed (archivers.rs 54-56, 111-118, 161-167).            *)
THEOREM NoStrangers == Spec => []OnlyNamed
<1>1. Inv => OnlyNamed
  BY DEF Inv, EverythingNamed, OnlyNamed
<1> QED
  BY <1>1, Invariance, PTL

(* Whatever the file holds, the seeds are asked, or others with their keys *)
(* (archivers.rs 82-88).                                                   *)
THEOREM SeedsAreAsked == Spec => []SeedsAsked
<1>1. ASSUME TypeOK PROVE SeedsAsked
  <2>1. Cached \in Seq(Archivers) /\ Seeds \in Seq(Archivers)
    BY <1>1, BaseType, ArchiverDiscoveryAssumption
  <2>2. Range(Seeds) \subseteq Range(Cached \o Seeds)
    BY <2>1, RangeOfBoth
  <2>3. Keys(Seeds) \subseteq Keys(Cached \o Seeds)
    BY <2>2 DEF Keys
  <2>4. Keys(Cached \o Seeds) \subseteq Keys(Base)
    BY <1>1, BaseType, DedupKeepsKeys DEF Base
  <2> QED
    BY <2>3, <2>4 DEF SeedsAsked
<1>2. Inv => SeedsAsked
  BY <1>1 DEF Inv
<1> QED
  BY <1>2, Invariance, PTL

(* Every round that ends replaces the list in use by the merge of its      *)
(* answers: sorted, one archiver for a key, and of several the first that  *)
(* arrived (archivers.rs 137-159).                                         *)
THEOREM RoundsMerge == Spec => MergesByArrival
<1>1. ASSUME TypeOK, [Next]_vars, discovering = "collect", discovering' = "idle", boot' # "down"
      PROVE  IsMergeOf(active', merged)
  <2>1. ~Die
    BY <1>1 DEF Die
  <2>2. discovering' # discovering
    BY <1>1
  <2>3. PICK w \in Writers : Finish(w)
    <3>1. ~Start /\ ~Listen /\ ~Calm /\ ~Refresh /\ ~Crash
      BY <2>1, <2>2 DEF Start, Listen, Calm, Refresh, Crash, Update, Fetch, FetchFails, NobodyLeft, FetchPanics, round
    <3>2. ~Discover /\ ~AnswerFails /\ \A list \in Answers : ~Answer(list)
      BY <1>1, <2>2 DEF Discover, AnswerFails, Answer
    <3>3. \A w \in Writers : ~Create(w) /\ ~WriteAll(w) /\ ~WriterPanics(w)
      BY <2>2 DEF Create, WriteAll, WriterPanics, round
    <3> QED
      BY <1>1, <2>2, <3>1, <3>2, <3>3 DEF Next, Round, vars, round
  <2> QED
    BY <1>1, <2>3, MergeIsMerge DEF Finish, TypeOK
<1>2. Inv /\ [Next]_vars =>
        [discovering = "collect" /\ discovering' = "idle" /\ boot' # "down" =>
           IsMergeOf(active', merged)]_vars
  BY <1>1 DEF Inv
<1> QED
  BY <1>2, Invariance, PTL DEF Spec, MergesByArrival

=============================================================================
