--------------------------- MODULE BlockPoolProofs ---------------------------
(***************************************************************************)
(* Lemmas about the operators of BlockPool: every method of block_pool.rs, *)
(* called as its contract allows, keeps the queue, its counter, the        *)
(* reference counts and the index consistent, for any number of blocks.    *)
(*                                                                         *)
(* Then RadixIndex: the radix index stands for the flat one after every    *)
(* call, for every set of hashes and every way they fall into buckets, and *)
(* so the two give the same answers: the flag VTL_RUST_SCHED_RADIX changes *)
(* no decision.                                                            *)
(***************************************************************************)
EXTENDS RadixIndex, FiniteSetTheorems, TLAPS

(***************************************************************************)
(* Sequences without repetition.                                           *)
(***************************************************************************)

\* The elements of a sequence form a finite set; without repetition there
\* are as many as the sequence is long.
LEMMA DistinctLen ==
  ASSUME NEW X, NEW s \in Seq(X), Distinct(s)
  PROVE  /\ IsFiniteSet(Elements(s))
         /\ Cardinality(Elements(s)) = Len(s)
<1>1. Len(s) \in Nat /\ DOMAIN s = 1 .. Len(s)
  OBVIOUS
<1>2. IsFiniteSet(1 .. Len(s)) /\ Cardinality(1 .. Len(s)) = Len(s)
  BY <1>1, FS_Interval, SMTT(30)
<1>3. s \in Surjection(1 .. Len(s), Elements(s))
  BY <1>1 DEF Surjection, Elements
<1>4. s \in Injection(1 .. Len(s), Elements(s))
  BY <1>1, <1>3 DEF Injection, IsInjective, Surjection, Distinct
<1>5. IsFiniteSet(Elements(s))
  BY <1>2, <1>3, FS_Surjection
<1>6. Cardinality(Elements(s)) = Cardinality(1 .. Len(s))
  BY <1>2, <1>3, <1>4, FS_Surjection
<1> QED BY <1>2, <1>5, <1>6

\* The positions of s that Keep(s, S) keeps.
Kept(s, S) == {i \in DOMAIN s : s[i] \in S}

\* at lists the kept positions of s in order, each once, and Keep(s, S) reads them.
Lists(n, at, s, S) ==
  /\ at \in [1 .. n -> Kept(s, S)]
  /\ Keep(s, S) = [k \in 1 .. n |-> s[at[k]]]
  /\ \A k, l \in 1 .. n : at[k] = at[l] => k = l
  /\ \A k, l \in 1 .. n : k < l => at[k] < at[l]
  /\ \A i \in Kept(s, S) : \E k \in 1 .. n : at[k] = i

\* Every position of Keep(s, S) is one kept position of s, and each is one.
LEMMA KeepPositions ==
  ASSUME NEW X, NEW s \in Seq(X), NEW S
  PROVE  \E n \in Nat : \E at : Lists(n, at, s, S)
<1> DEFINE pos == {i \in DOMAIN s : s[i] \in S}
           n == Cardinality(pos)
           upTo(i) == {j \in pos : j <= i}
           rank == [i \in pos |-> Cardinality(upTo(i))]
           at == [k \in 1 .. n |-> CHOOSE i \in pos : rank[i] = k]
<1>1. Len(s) \in Nat /\ DOMAIN s = 1 .. Len(s) /\ IsFiniteSet(1 .. Len(s))
  BY FS_Interval
<1>2. IsFiniteSet(pos) /\ n \in Nat /\ pos \subseteq Nat
  BY <1>1, FS_Subset, FS_CardinalityType
<1>3. ASSUME NEW i \in pos
      PROVE  /\ IsFiniteSet(upTo(i)) /\ rank[i] \in 1 .. n
  <2>1. upTo(i) \in SUBSET pos
    OBVIOUS
  <2>2. IsFiniteSet(upTo(i)) /\ Cardinality(upTo(i)) <= n
    BY <1>2, <2>1, FS_Subset
  <2>3. Cardinality(upTo(i)) \in Nat
    BY <2>2, FS_CardinalityType
  <2>4. i \in upTo(i)
    BY <1>2
  <2>5. Cardinality(upTo(i)) # 0
    BY <2>2, <2>4, FS_EmptySet
  <2> QED BY <1>2, <2>2, <2>3, <2>5
<1>4. ASSUME NEW i \in pos, NEW j \in pos, rank[i] = rank[j]
      PROVE  i = j
  <2>1. ASSUME NEW a \in pos, NEW b \in pos, a < b, rank[a] = rank[b]
        PROVE  FALSE
    <3>1. upTo(a) \in SUBSET upTo(b)
      BY <1>2, <2>1
    <3>2. b \in upTo(b) /\ b \notin upTo(a)
      BY <1>2, <2>1
    <3>3. upTo(a) = upTo(b)
      BY <1>3, <2>1, <3>1, FS_Subset
    <3> QED BY <3>2, <3>3
  <2>2. i < j \/ j < i \/ i = j
    BY <1>2
  <2> QED BY <1>4, <2>1, <2>2
<1>13. ASSUME NEW i \in pos, NEW j \in pos, i <= j
       PROVE  rank[i] <= rank[j]
  <2>1. upTo(i) \in SUBSET upTo(j)
    BY <1>2, <1>13
  <2> QED BY <1>3, <2>1, FS_Subset
<1> HIDE DEF rank
<1>5. \A k \in 1 .. n : \E i \in pos : rank[i] = k
  <2>1. rank \in Injection(pos, 1 .. n)
    BY <1>3, <1>4 DEF Injection, IsInjective, rank
  <2>2. IsFiniteSet(1 .. n) /\ Cardinality(1 .. n) = n
    BY <1>2, FS_Interval
  <2>3. rank \in Surjection(pos, 1 .. n)
    BY <2>1, <2>2, FS_Injection
  <2> QED BY <2>3 DEF Surjection
<1>6. \A k \in 1 .. n : at[k] \in pos /\ rank[at[k]] = k
  BY <1>5
<1>7. at \in [1 .. n -> pos]
  BY <1>6
<1>8. \A k, l \in 1 .. n : at[k] = at[l] => k = l
  BY <1>6
<1>9. \A i \in pos : \E k \in 1 .. n : at[k] = i
  BY <1>3, <1>4, <1>6
<1>10. Keep(s, S) = [k \in 1 .. n |-> s[at[k]]]
  <2> DEFINE c(k) == CHOOSE i \in pos : Cardinality(upTo(i)) = k
  <2>1. \A i \in pos : rank[i] = Cardinality(upTo(i))
    BY DEF rank
  <2>2. ASSUME NEW k \in 1 .. n
        PROVE  at[k] = c(k)
    <3>1. \A i : (i \in pos /\ Cardinality(upTo(i)) = k)
                   <=> (i \in pos /\ rank[i] = k)
      BY <2>1
    <3>2. c(k) = (CHOOSE i \in pos : rank[i] = k)
      BY <3>1
    <3> QED BY <3>2
  <2>3. Keep(s, S) = [k \in 1 .. n |-> s[c(k)]]
    BY DEF Keep
  <2> HIDE DEF c, at, n
  <2> QED BY <2>2, <2>3
<1>14. ASSUME NEW k \in 1 .. n, NEW l \in 1 .. n, k < l
       PROVE  at[k] < at[l]
  <2>1. at[k] \in pos /\ at[l] \in pos /\ rank[at[k]] = k /\ rank[at[l]] = l
    BY <1>6
  <2> HIDE DEF at, pos, n
  <2>2. at[k] \in Nat /\ at[l] \in Nat
    BY <1>2, <2>1
  <2>3. CASE at[l] <= at[k]
    <3>1. l <= k
      BY <1>13, <2>1, <2>3
    <3> QED BY <1>2, <1>14, <3>1
  <2> QED BY <2>2, <2>3
<1>11. pos = Kept(s, S)
  BY DEF Kept
<1> HIDE DEF pos, n, at
<1>12. Lists(n, at, s, S)
  BY <1>7, <1>8, <1>9, <1>10, <1>11, <1>14 DEF Lists
<1> QED BY <1>2, <1>12

\* Keep returns the elements of s that are in S, without new repetitions.
LEMMA KeepElements ==
  ASSUME NEW X, NEW s \in Seq(X), NEW S
  PROVE  /\ Keep(s, S) \in Seq(X)
         /\ Elements(Keep(s, S)) = Elements(s) \cap S
         /\ Distinct(s) => Distinct(Keep(s, S))
<1>1. PICK n \in Nat : \E at : Lists(n, at, s, S)
  BY KeepPositions
<1>2. PICK at : Lists(n, at, s, S)
  BY <1>1
<1> DEFINE t == Keep(s, S)
<1>3. DOMAIN s = 1 .. Len(s) /\ \A i \in DOMAIN s : s[i] \in X
  OBVIOUS
<1>4. \A k \in 1 .. n : at[k] \in DOMAIN s /\ s[at[k]] \in S
  BY <1>2 DEF Kept, Lists
<1>5. t = [k \in 1 .. n |-> s[at[k]]]
  BY <1>2 DEF Lists
<1> HIDE DEF t
<1>6. DOMAIN t = 1 .. n /\ \A k \in 1 .. n : t[k] = s[at[k]]
  BY <1>5
<1>7. t \in [1 .. n -> X]
  BY <1>3, <1>4, <1>5
<1>8. t \in Seq(X)
  BY <1>7
<1>9. Elements(t) \subseteq Elements(s) \cap S
  BY <1>4, <1>6 DEF Elements
<1>10. Elements(s) \cap S \subseteq Elements(t)
  <2>1. SUFFICES ASSUME NEW i \in DOMAIN s, s[i] \in S
                 PROVE  s[i] \in Elements(t)
    BY DEF Elements
  <2>2. PICK k \in 1 .. n : at[k] = i
    BY <1>2, <2>1 DEF Kept, Lists
  <2>3. t[k] = s[i] /\ k \in DOMAIN t
    BY <1>6, <2>2
  <2> QED BY <2>3 DEF Elements
<1>11. Distinct(s) => Distinct(t)
  <2>1. SUFFICES ASSUME Distinct(s), NEW k \in 1 .. n, NEW l \in 1 .. n,
                        t[k] = t[l]
                 PROVE  k = l
    BY <1>6 DEF Distinct
  <2>2. at[k] = at[l]
    BY <1>4, <1>6, <2>1 DEF Distinct
  <2> QED BY <1>2, <2>2 DEF Lists
<1> QED BY <1>8, <1>9, <1>10, <1>11 DEF t

\* Dropping a set of elements.
LEMMA DropElements ==
  ASSUME NEW X, NEW s \in Seq(X), NEW S
  PROVE  /\ Drop(s, S) \in Seq(X)
         /\ Elements(Drop(s, S)) = Elements(s) \ S
         /\ Distinct(s) => Distinct(Drop(s, S))
BY KeepElements DEF Drop

\* a stands somewhere before b in s.
Before(s, a, b) == \E i, j \in DOMAIN s : i < j /\ s[i] = a /\ s[j] = b

\* Keep keeps the order.
LEMMA KeepOrder ==
  ASSUME NEW X, NEW s \in Seq(X), NEW S, NEW a, NEW b
  PROVE  Before(Keep(s, S), a, b) <=> Before(s, a, b) /\ a \in S /\ b \in S
<1>1. PICK n \in Nat : \E at : Lists(n, at, s, S)
  BY KeepPositions
<1>2. PICK at : Lists(n, at, s, S)
  BY <1>1
<1> DEFINE t == Keep(s, S)
<1>3. \A k \in 1 .. n : at[k] \in DOMAIN s /\ s[at[k]] \in S /\ at[k] \in Nat
  BY <1>2 DEF Kept, Lists
<1>4. t = [k \in 1 .. n |-> s[at[k]]]
  BY <1>2 DEF Lists
<1> HIDE DEF t
<1>5. DOMAIN t = 1 .. n /\ \A k \in 1 .. n : t[k] = s[at[k]]
  BY <1>4
<1>6. \A k, l \in 1 .. n : k < l => at[k] < at[l]
  BY <1>2 DEF Lists
<1>7. ASSUME Before(t, a, b)
      PROVE  Before(s, a, b) /\ a \in S /\ b \in S
  <2>1. PICK k \in 1 .. n, l \in 1 .. n : k < l /\ t[k] = a /\ t[l] = b
    BY <1>5, <1>7 DEF Before
  <2>2. at[k] < at[l] /\ s[at[k]] = a /\ s[at[l]] = b
    BY <1>5, <1>6, <2>1
  <2> QED BY <1>3, <2>2 DEF Before
<1>8. ASSUME Before(s, a, b), a \in S, b \in S
      PROVE  Before(t, a, b)
  <2>1. PICK i \in DOMAIN s, j \in DOMAIN s : i < j /\ s[i] = a /\ s[j] = b
    BY <1>8 DEF Before
  <2>2. PICK k \in 1 .. n : at[k] = i
    BY <1>2, <1>8, <2>1 DEF Lists, Kept
  <2>3. PICK l \in 1 .. n : at[l] = j
    BY <1>2, <1>8, <2>1 DEF Lists, Kept
  <2>4. k < l
    <3>1. SUFFICES ASSUME l <= k
                   PROVE  FALSE
      BY <2>2, <2>3
    <3>2. l < k \/ l = k
      BY <3>1
    <3>3. at[l] < at[k] \/ at[l] = at[k]
      BY <1>6, <3>2
    <3>4. i \in Nat /\ j \in Nat
      BY <1>3, <2>2, <2>3
    <3> QED BY <2>1, <2>2, <2>3, <3>3, <3>4
  <2>5. t[k] = a /\ t[l] = b
    BY <1>5, <2>1, <2>2, <2>3
  <2> QED BY <1>5, <2>4, <2>5 DEF Before
<1> QED BY <1>7, <1>8 DEF t

\* In a concatenation the first part stands before the second.
LEMMA ConcatOrder ==
  ASSUME NEW X, NEW s \in Seq(X), NEW t \in Seq(X), NEW a, NEW b
  PROVE  Before(s \o t, a, b) <=>
           \/ Before(s, a, b) \/ Before(t, a, b)
           \/ a \in Elements(s) /\ b \in Elements(t)
<1> DEFINE m == Len(s)
           n == Len(t)
           u == s \o t
<1>1. /\ m \in Nat /\ n \in Nat /\ DOMAIN u = 1 .. m + n
      /\ DOMAIN s = 1 .. m /\ DOMAIN t = 1 .. n
      /\ \A i \in 1 .. m : u[i] = s[i] /\ i \in DOMAIN u
      /\ \A i \in 1 .. n : u[m + i] = t[i] /\ m + i \in DOMAIN u
  OBVIOUS
<1> HIDE DEF m, n, u
<1>2. ASSUME NEW i \in DOMAIN u
      PROVE  \/ i \in 1 .. m /\ u[i] = s[i]
             \/ i > m /\ i - m \in 1 .. n /\ u[i] = t[i - m]
  <2>1. CASE i <= m
    BY <1>1, <2>1
  <2>2. CASE i > m
    <3>1. i - m \in 1 .. n /\ m + (i - m) = i
      BY <1>1, <2>2
    <3> QED BY <1>1, <2>2, <3>1
  <2> QED BY <1>1, <2>1, <2>2
<1>3. ASSUME Before(u, a, b)
      PROVE  \/ Before(s, a, b) \/ Before(t, a, b)
             \/ a \in Elements(s) /\ b \in Elements(t)
  <2>1. PICK i \in DOMAIN u, j \in DOMAIN u : i < j /\ u[i] = a /\ u[j] = b
    BY <1>3 DEF Before
  <2>2. CASE i \in 1 .. m /\ j \in 1 .. m
    BY <1>1, <2>1, <2>2 DEF Before
  <2>3. CASE i > m /\ j > m
    <3>1. /\ i - m \in 1 .. n /\ j - m \in 1 .. n /\ t[i - m] = a /\ t[j - m] = b
      BY <1>1, <1>2, <2>1, <2>3
    <3>2. i - m < j - m
      BY <1>1, <2>1
    <3> QED BY <1>1, <3>1, <3>2 DEF Before
  <2>4. CASE i \in 1 .. m /\ j > m
    <3>1. s[i] = a
      BY <1>1, <2>1, <2>4
    <3>2. j - m \in 1 .. n /\ t[j - m] = b
      BY <1>1, <1>2, <2>1, <2>4
    <3> QED BY <1>1, <2>4, <3>1, <3>2 DEF Elements
  <2> QED BY <1>1, <1>2, <2>1, <2>2, <2>3, <2>4
<1>4. ASSUME Before(s, a, b)
      PROVE  Before(u, a, b)
  BY <1>1, <1>4 DEF Before
<1>5. ASSUME Before(t, a, b)
      PROVE  Before(u, a, b)
  <2>1. PICK i \in 1 .. n, j \in 1 .. n : i < j /\ t[i] = a /\ t[j] = b
    BY <1>1, <1>5 DEF Before
  <2>2. /\ m + i \in DOMAIN u /\ m + j \in DOMAIN u /\ m + i < m + j
        /\ u[m + i] = a /\ u[m + j] = b
    BY <1>1, <2>1
  <2> QED BY <2>2 DEF Before
<1>6. ASSUME a \in Elements(s), b \in Elements(t)
      PROVE  Before(u, a, b)
  <2>1. PICK i \in 1 .. m : s[i] = a
    BY <1>1, <1>6 DEF Elements
  <2>2. PICK j \in 1 .. n : t[j] = b
    BY <1>1, <1>6 DEF Elements
  <2>3. /\ i \in DOMAIN u /\ m + j \in DOMAIN u /\ i < m + j
        /\ u[i] = a /\ u[m + j] = b
    BY <1>1, <2>1, <2>2
  <2> QED BY <2>3 DEF Before
<1> QED BY <1>3, <1>4, <1>5, <1>6 DEF u

\* Taking elements off the front keeps the order of the rest.
LEMMA SuffixOrder ==
  ASSUME NEW X, NEW s \in Seq(X), Distinct(s), NEW n \in 0 .. Len(s), NEW a, NEW b
  PROVE  LET t == SubSeq(s, n + 1, Len(s))
         IN  Before(t, a, b) <=> Before(s, a, b) /\ a \in Elements(t)
<1> DEFINE l == Len(s)
           t == SubSeq(s, n + 1, l)
<1>1. /\ l \in Nat /\ n \in Nat /\ n <= l /\ DOMAIN s = 1 .. l /\ DOMAIN t = 1 .. l - n
      /\ \A i \in 1 .. l - n : t[i] = s[n + i] /\ n + i \in DOMAIN s
  OBVIOUS
<1> HIDE DEF l, t
<1>2. ASSUME Before(t, a, b)
      PROVE  Before(s, a, b) /\ a \in Elements(t)
  <2>1. PICK i \in 1 .. l - n, j \in 1 .. l - n : i < j /\ t[i] = a /\ t[j] = b
    BY <1>1, <1>2 DEF Before
  <2>2. /\ n + i \in DOMAIN s /\ n + j \in DOMAIN s /\ n + i < n + j
        /\ s[n + i] = a /\ s[n + j] = b
    BY <1>1, <2>1
  <2>3. a \in Elements(t)
    BY <1>1, <2>1 DEF Elements
  <2> QED BY <2>2, <2>3 DEF Before
<1>3. ASSUME Before(s, a, b), a \in Elements(t)
      PROVE  Before(t, a, b)
  <2>1. PICK i \in DOMAIN s, j \in DOMAIN s : i < j /\ s[i] = a /\ s[j] = b
    BY <1>3 DEF Before
  <2>2. PICK k \in 1 .. l - n : t[k] = a
    BY <1>1, <1>3 DEF Elements
  <2>3. i = n + k
    BY <1>1, <2>1, <2>2 DEF Distinct
  <2>4. j - n \in 1 .. l - n /\ k < j - n /\ n + (j - n) = j
    BY <1>1, <2>1, <2>3
  <2>5. t[j - n] = b
    BY <1>1, <2>1, <2>4
  <2> QED BY <1>1, <2>2, <2>4, <2>5 DEF Before
<1> QED BY <1>2, <1>3 DEF t, l

\* Two sequences with no common element, one after the other.
LEMMA ConcatElements ==
  ASSUME NEW X, NEW s \in Seq(X), NEW t \in Seq(X)
  PROVE  /\ s \o t \in Seq(X) /\ Len(s \o t) = Len(s) + Len(t)
         /\ Elements(s \o t) = Elements(s) \cup Elements(t)
         /\ Distinct(s) /\ Distinct(t) /\ Elements(s) \cap Elements(t) = {}
              => Distinct(s \o t)
<1> DEFINE m == Len(s)
           n == Len(t)
           u == s \o t
<1>1. /\ m \in Nat /\ n \in Nat /\ u \in Seq(X) /\ DOMAIN u = 1 .. m + n
      /\ DOMAIN s = 1 .. m /\ DOMAIN t = 1 .. n
      /\ \A i \in 1 .. m + n : u[i] = IF i <= m THEN s[i] ELSE t[i - m]
  OBVIOUS
<1>0. Len(u) = m + n
  OBVIOUS
<1> HIDE DEF m, n, u
<1>2. Elements(u) \subseteq Elements(s) \cup Elements(t)
  <2>1. SUFFICES ASSUME NEW i \in 1 .. m + n
                 PROVE  u[i] \in Elements(s) \cup Elements(t)
    BY <1>1 DEF Elements
  <2>2. CASE i <= m
    <3>1. i \in 1 .. m /\ u[i] = s[i]
      BY <1>1, <2>2
    <3> QED BY <1>1, <3>1 DEF Elements
  <2>3. CASE i > m
    <3>1. i - m \in 1 .. n /\ u[i] = t[i - m]
      BY <1>1, <2>3
    <3> QED BY <1>1, <3>1 DEF Elements
  <2> QED BY <1>1, <2>2, <2>3
<1>3. Elements(s) \subseteq Elements(u)
  BY <1>1 DEF Elements
<1>4. Elements(t) \subseteq Elements(u)
  <2>1. ASSUME NEW i \in 1 .. n
        PROVE  m + i \in 1 .. m + n /\ u[m + i] = t[i]
    <3>1. m + i \in 1 .. m + n /\ ~ (m + i <= m) /\ (m + i) - m = i
      BY <1>1
    <3>2. u[m + i] = t[(m + i) - m]
      BY <1>1, <3>1
    <3> QED BY <3>1, <3>2, Zenon
  <2>2. \A i \in 1 .. n : t[i] \in Elements(u)
    <3> TAKE i \in 1 .. n
    <3>0. DOMAIN u = 1 .. m + n
      BY <1>1
    <3>1. m + i \in DOMAIN u /\ u[m + i] = t[i]
      BY <2>1, <3>0, Zenon
    <3> QED BY <3>1 DEF Elements
  <2> QED BY <1>1, <2>2 DEF Elements
<1>5. ASSUME Distinct(s), Distinct(t), Elements(s) \cap Elements(t) = {}
      PROVE  Distinct(u)
  <2>1. SUFFICES ASSUME NEW i \in 1 .. m + n, NEW j \in 1 .. m + n, u[i] = u[j]
                 PROVE  i = j
    BY <1>1 DEF Distinct
  <2>2. CASE i <= m /\ j <= m
    BY <1>1, <1>5, <2>1, <2>2 DEF Distinct
  <2>3. CASE i > m /\ j > m
    <3>1. i - m \in 1 .. n /\ j - m \in 1 .. n /\ t[i - m] = t[j - m]
      BY <1>1, <2>1, <2>3
    <3>2. i - m = j - m
      BY <1>1, <1>5, <3>1 DEF Distinct
    <3> QED BY <1>1, <3>2
  <2>4. CASE i <= m /\ j > m
    <3>1. i \in 1 .. m /\ j - m \in 1 .. n /\ s[i] = t[j - m]
      BY <1>1, <2>1, <2>4
    <3> QED BY <1>1, <1>5, <3>1 DEF Elements
  <2>5. CASE i > m /\ j <= m
    <3>1. j \in 1 .. m /\ i - m \in 1 .. n /\ s[j] = t[i - m]
      BY <1>1, <2>1, <2>5
    <3> QED BY <1>1, <1>5, <3>1 DEF Elements
  <2> QED BY <1>1, <2>2, <2>3, <2>4, <2>5
<1> QED BY <1>0, <1>1, <1>2, <1>3, <1>4, <1>5 DEF u, m, n

\* One element more.
LEMMA AppendElements ==
  ASSUME NEW X, NEW s \in Seq(X), NEW x \in X
  PROVE  /\ Append(s, x) \in Seq(X)
         /\ Elements(Append(s, x)) = Elements(s) \cup {x}
         /\ Distinct(s) /\ x \notin Elements(s) => Distinct(Append(s, x))
<1> DEFINE n == Len(s)
           u == Append(s, x)
<1>1. /\ n \in Nat /\ DOMAIN s = 1 .. n
      /\ u \in Seq(X) /\ DOMAIN u = 1 .. n + 1
      /\ \A i \in 1 .. n : u[i] = s[i]
      /\ u[n + 1] = x
  OBVIOUS
<1> HIDE DEF n, u
<1>2. \A i \in 1 .. n + 1 : i \in 1 .. n \/ i = n + 1
  BY <1>1
<1>3. n + 1 \in 1 .. n + 1 /\ \A i \in 1 .. n : i \in 1 .. n + 1
  BY <1>1
<1>4. Elements(u) = Elements(s) \cup {x}
  <2>1. Elements(u) \subseteq Elements(s) \cup {x}
    BY <1>1, <1>2 DEF Elements
  <2>2. Elements(s) \cup {x} \subseteq Elements(u)
    BY <1>1, <1>3 DEF Elements
  <2> QED BY <2>1, <2>2
<1>5. Distinct(s) /\ x \notin Elements(s) => Distinct(u)
  <2>1. SUFFICES ASSUME Distinct(s), x \notin Elements(s),
                        NEW i \in 1 .. n + 1, NEW j \in 1 .. n + 1, u[i] = u[j]
                 PROVE  i = j
    BY <1>1 DEF Distinct
  <2>2. \A k \in 1 .. n : s[k] # x
    BY <1>1, <2>1 DEF Elements
  <2> QED BY <1>1, <1>2, <2>1, <2>2 DEF Distinct
<1> QED BY <1>1, <1>4, <1>5 DEF u

\* The first n elements of a sequence without repetition, and the others.
LEMMA SplitElements ==
  ASSUME NEW X, NEW s \in Seq(X), Distinct(s), NEW n \in 0 .. Len(s)
  PROVE  LET a == SubSeq(s, 1, n)
             b == SubSeq(s, n + 1, Len(s))
         IN  /\ a \in Seq(X) /\ b \in Seq(X) /\ Distinct(a) /\ Distinct(b)
             /\ Len(a) = n /\ Len(b) = Len(s) - n
             /\ Elements(b) = Elements(s) \ Elements(a)
             /\ Elements(a) \subseteq Elements(s)
<1> DEFINE a == SubSeq(s, 1, n)
           b == SubSeq(s, n + 1, Len(s))
           l == Len(s)
<1>1. /\ l \in Nat /\ DOMAIN s = 1 .. l
      /\ a \in Seq(X) /\ Len(a) = n /\ DOMAIN a = 1 .. n
      /\ \A i \in 1 .. n : a[i] = s[i]
  OBVIOUS
<1>2. /\ b \in Seq(X) /\ Len(b) = l - n /\ DOMAIN b = 1 .. l - n
      /\ \A i \in 1 .. l - n : b[i] = s[n + i]
  OBVIOUS
<1> HIDE DEF a, b, l
<1>3. Distinct(a)
  BY <1>1 DEF Distinct
<1>4. Distinct(b)
  <2>1. SUFFICES ASSUME NEW i \in 1 .. l - n, NEW j \in 1 .. l - n, b[i] = b[j]
                 PROVE  i = j
    BY <1>2 DEF Distinct
  <2>2. n + i \in 1 .. l /\ n + j \in 1 .. l /\ s[n + i] = s[n + j]
    BY <1>1, <1>2, <2>1
  <2>3. n + i = n + j
    BY <1>1, <2>2 DEF Distinct
  <2> QED BY <1>1, <2>3
<1>5. Elements(a) \subseteq Elements(s)
  BY <1>1 DEF Elements
<1>6. Elements(b) \subseteq Elements(s) \ Elements(a)
  <2>1. SUFFICES ASSUME NEW i \in 1 .. l - n
                 PROVE  b[i] \in Elements(s) /\ b[i] \notin Elements(a)
    BY <1>2 DEF Elements
  <2>2. n + i \in 1 .. l /\ b[i] = s[n + i]
    BY <1>1, <1>2
  <2>3. \A k \in 1 .. n : s[k] # s[n + i]
    BY <1>1, <2>2 DEF Distinct
  <2> QED BY <1>1, <2>2, <2>3 DEF Elements
<1>7. Elements(s) \ Elements(a) \subseteq Elements(b)
  <2>1. SUFFICES ASSUME NEW k \in 1 .. l, s[k] \notin Elements(a)
                 PROVE  s[k] \in Elements(b)
    BY <1>1 DEF Elements
  <2>2. k > n
    BY <1>1, <2>1 DEF Elements
  <2>3. k - n \in 1 .. l - n /\ b[k - n] = s[n + (k - n)] /\ n + (k - n) = k
    BY <1>1, <1>2, <2>2
  <2> QED BY <1>2, <2>3 DEF Elements
<1> QED BY <1>1, <1>2, <1>3, <1>4, <1>5, <1>6, <1>7 DEF a, b, l

------------------------------------------------------------------------------
(***************************************************************************)
(* The methods of the pool.  Each lemma states the contract the caller must *)
(* keep (the code documents most of them as debug assertions) and that the *)
(* invariant of the pool survives the call.                                *)
(***************************************************************************)

\* The arithmetic of the block numbers.
LEMMA BlockNumbers ==
  /\ NumBlocks \in Nat /\ NumBlocks >= 1
  /\ NullBlock \in Blocks
  /\ RealBlocks \subseteq Blocks /\ NullBlock \notin RealBlocks
  /\ RealBlocks = Blocks \ {NullBlock}
  /\ IsFiniteSet(Blocks)
<1>1. NumBlocks \in Nat /\ NumBlocks >= 1
  BY PoolAssumption
<1>2. IsFiniteSet(0 .. NumBlocks - 1)
  BY <1>1, FS_Interval
<1> QED BY <1>1, <1>2 DEF Blocks, NullBlock, RealBlocks

\* BlockPool::new builds a consistent pool.
LEMMA NewPoolInv == PoolInv(NewPool)
<1>1. NumBlocks - 1 \in Nat
  BY BlockNumbers
<1> DEFINE f == [i \in 1 .. NumBlocks - 1 |-> i]
<1>2. f \in [1 .. NumBlocks - 1 -> Blocks]
  BY <1>1 DEF Blocks
<1>3. f \in Seq(Blocks) /\ Len(f) = NumBlocks - 1 /\ DOMAIN f = 1 .. NumBlocks - 1
  BY <1>1, <1>2
<1>4. Distinct(f) /\ Elements(f) = 1 .. NumBlocks - 1
  BY <1>3 DEF Distinct, Elements
<1>5. RealBlocks = 1 .. NumBlocks - 1
  BY <1>1 DEF RealBlocks, Blocks, NullBlock
<1> HIDE DEF f
<1>6. << >> \in Seq(Blocks) /\ Elements(<< >>) = {} /\ Distinct(<< >>)
  BY DEF Elements, Distinct
<1>7. NewPool = [ free    |-> f,
                  numFree |-> NumBlocks - 1,
                  ref     |-> [b \in Blocks |-> 0],
                  hash    |-> [b \in Blocks |-> NoKey],
                  index   |-> [k \in Keys |-> << >>] ]
  BY DEF NewPool, f
<1> HIDE DEF NewPool
<1>8. NewPool \in PoolType
  BY <1>1, <1>3, <1>6, <1>7 DEF PoolType
<1>9. QueueExact(NewPool)
  BY <1>3, <1>4, <1>5, <1>7, BlockNumbers DEF QueueExact
<1>10. IndexExact(NewPool)
  BY <1>6, <1>7, BlockNumbers, PoolAssumption DEF IndexExact
<1> QED BY <1>8, <1>9, <1>10 DEF PoolInv

\* Forgetting the hashes of any blocks leaves the queue and the counts alone
\* and keeps the index exact.
LEMMA ForgetHashesInv ==
  ASSUME NEW p, PoolInv(p), NEW S \in SUBSET Blocks
  PROVE  LET q == ForgetHashes(p, S)
         IN  /\ PoolInv(q)
             /\ q.free = p.free /\ q.numFree = p.numFree /\ q.ref = p.ref
             /\ \A b \in Blocks : q.hash[b] = IF b \in S THEN NoKey ELSE p.hash[b]
<1> DEFINE q == ForgetHashes(p, S)
           gone(k) == {b \in S : p.hash[b] = k}
           h == [b \in Blocks |-> IF b \in S THEN NoKey ELSE p.hash[b]]
           ix == [k \in Keys |-> Drop(p.index[k], gone(k))]
<1>1. /\ p \in PoolType
      /\ p.hash \in [Blocks -> Keys \cup {NoKey}]
      /\ p.index \in [Keys -> Seq(Blocks)]
  BY DEF PoolInv, PoolType
<1>2. q = [p EXCEPT !.hash = h, !.index = ix]
  BY DEF ForgetHashes
<1>3. /\ h \in [Blocks -> Keys \cup {NoKey}]
      /\ \A b \in Blocks : h[b] = IF b \in S THEN NoKey ELSE p.hash[b]
  BY <1>1
<1>4. ASSUME NEW k \in Keys
      PROVE  /\ ix[k] \in Seq(Blocks) /\ Distinct(ix[k])
             /\ Elements(ix[k]) = {b \in Blocks : h[b] = k}
  <2>1. /\ p.index[k] \in Seq(Blocks) /\ Distinct(p.index[k])
        /\ Elements(p.index[k]) = {b \in Blocks : p.hash[b] = k}
    BY <1>1 DEF PoolInv, IndexExact
  <2>2. ix[k] = Drop(p.index[k], gone(k))
    OBVIOUS
  <2> HIDE DEF ix, gone
  <2>3. /\ ix[k] \in Seq(Blocks) /\ Distinct(ix[k])
        /\ Elements(ix[k]) = Elements(p.index[k]) \ gone(k)
    BY <2>1, <2>2, DropElements
  <2>4. k # NoKey
    BY PoolAssumption
  <2> QED BY <1>3, <2>1, <2>3, <2>4 DEF gone
<1>5. ix \in [Keys -> Seq(Blocks)]
  BY <1>4
<1> HIDE DEF q, h, ix
<1>6. /\ q.free = p.free /\ q.numFree = p.numFree /\ q.ref = p.ref
      /\ q.hash = h /\ q.index = ix
  BY <1>1, <1>2 DEF PoolType
<1>7. q \in PoolType
  BY <1>1, <1>2, <1>3, <1>5 DEF PoolType
<1>8. QueueExact(q)
  BY <1>6 DEF PoolInv, QueueExact
<1>9. IndexExact(q)
  <2>1. q.hash[NullBlock] = NoKey
    BY <1>3, <1>6, BlockNumbers DEF PoolInv, IndexExact
  <2> QED BY <1>4, <1>6, <2>1 DEF IndexExact
<1> QED BY <1>3, <1>6, <1>7, <1>8, <1>9 DEF PoolInv, q

\* get_new_blocks, for no more blocks than the counter promises: the blocks
\* returned are distinct, were idle, and are the caller's now.
LEMMA GetNewBlocksInv ==
  ASSUME NEW p, PoolInv(p), NEW n \in Nat, CanGetNewBlocks(p, n)
  PROVE  /\ PoolInv(GetNewBlocks(p, n))
         /\ NewBlocks(p, n) \in Seq(Blocks) /\ Len(NewBlocks(p, n)) = n
         /\ Distinct(NewBlocks(p, n))
         /\ \A b \in Elements(NewBlocks(p, n)) :
              /\ b \in RealBlocks /\ p.ref[b] = 0
              /\ GetNewBlocks(p, n).ref[b] = 1
              /\ GetNewBlocks(p, n).hash[b] = NoKey
         /\ \A b \in Blocks \ Elements(NewBlocks(p, n)) :
              /\ GetNewBlocks(p, n).ref[b] = p.ref[b]
              /\ GetNewBlocks(p, n).hash[b] = p.hash[b]
<1> DEFINE got == Elements(NewBlocks(p, n))
           rest == SubSeq(p.free, n + 1, Len(p.free))
           f == ForgetHashes(p, got)
           q == GetNewBlocks(p, n)
<1>1. /\ p.free \in Seq(Blocks) /\ p.numFree \in Nat
      /\ p.ref \in [Blocks -> Nat]
      /\ Distinct(p.free) /\ p.numFree = Len(p.free) /\ p.ref[NullBlock] = 0
      /\ Elements(p.free) = {b \in RealBlocks : p.ref[b] = 0}
  BY DEF PoolInv, PoolType, QueueExact
<1>2. n \in 0 .. Len(p.free)
  BY <1>1 DEF CanGetNewBlocks
<1>3. /\ NewBlocks(p, n) \in Seq(Blocks) /\ Len(NewBlocks(p, n)) = n
      /\ Distinct(NewBlocks(p, n)) /\ got \subseteq Elements(p.free)
      /\ rest \in Seq(Blocks) /\ Distinct(rest) /\ Len(rest) = Len(p.free) - n
      /\ Elements(rest) = Elements(p.free) \ got
  BY <1>1, <1>2, SplitElements, SMTT(30) DEF NewBlocks
<1>4. got \subseteq RealBlocks /\ got \subseteq Blocks
  BY <1>1, <1>3, BlockNumbers
<1>5. /\ PoolInv(f) /\ \A b \in Blocks : f.hash[b] = IF b \in got THEN NoKey ELSE p.hash[b]
  BY <1>4, ForgetHashesInv
<1>6. q = [f EXCEPT !.free = rest, !.numFree = p.numFree - n,
              !.ref = [b \in Blocks |-> IF b \in got THEN p.ref[b] + 1 ELSE p.ref[b]]]
  BY DEF GetNewBlocks
<1> HIDE DEF q, f, got, rest
<1>7. f \in PoolType
  BY <1>5 DEF PoolInv
<1>8. /\ q.free = rest /\ q.numFree = p.numFree - n
      /\ q.hash = f.hash /\ q.index = f.index
      /\ \A b \in Blocks : q.ref[b] = IF b \in got THEN p.ref[b] + 1 ELSE p.ref[b]
  BY <1>6, <1>7 DEF PoolType
<1>9. q \in PoolType
  <2>1. [b \in Blocks |-> IF b \in got THEN p.ref[b] + 1 ELSE p.ref[b]] \in [Blocks -> Nat]
    BY <1>1
  <2>2. p.numFree - n \in Nat
    BY <1>1, <1>2
  <2> QED BY <1>3, <1>6, <1>7, <2>1, <2>2 DEF PoolType
<1>10. QueueExact(q)
  <2>1. Elements(q.free) = {b \in RealBlocks : q.ref[b] = 0}
    <3>1. \A b \in RealBlocks : q.ref[b] = 0 <=> (p.ref[b] = 0 /\ b \notin got)
      BY <1>1, <1>8, BlockNumbers
    <3> QED BY <1>1, <1>3, <1>8, <3>1
  <2>2. q.numFree = Len(q.free)
    BY <1>1, <1>3, <1>8
  <2>3. q.ref[NullBlock] = 0
    BY <1>1, <1>4, <1>8, BlockNumbers
  <2> QED BY <1>3, <1>8, <2>1, <2>2, <2>3 DEF QueueExact
<1>11. IndexExact(q)
  BY <1>5, <1>8 DEF PoolInv, IndexExact
<1>12. \A b \in got : b \in RealBlocks /\ p.ref[b] = 0 /\ q.ref[b] = 1 /\ q.hash[b] = NoKey
  BY <1>1, <1>3, <1>4, <1>5, <1>8
<1>13. \A b \in Blocks \ got : q.ref[b] = p.ref[b] /\ q.hash[b] = p.hash[b]
  BY <1>5, <1>8
<1> QED BY <1>3, <1>9, <1>10, <1>11, <1>12, <1>13 DEF PoolInv, q, got

\* touch, for any set of hit blocks: each of them gets one more reference.
LEMMA TouchInv ==
  ASSUME NEW p, PoolInv(p), NEW S \in SUBSET Blocks
  PROVE  /\ PoolInv(Touch(p, S))
         /\ Touch(p, S).hash = p.hash
         /\ \A b \in Blocks : Touch(p, S).ref[b] =
              IF b \in S \ {NullBlock} THEN p.ref[b] + 1 ELSE p.ref[b]
         /\ Touch(p, S).numFree
              = p.numFree - Cardinality({b \in S \ {NullBlock} : p.ref[b] = 0})
<1> DEFINE real == S \ {NullBlock}
           idle == {b \in real : p.ref[b] = 0}
           left == Drop(p.free, idle)
           r == [b \in Blocks |-> IF b \in real THEN p.ref[b] + 1 ELSE p.ref[b]]
           q == Touch(p, S)
<1>1. /\ p \in PoolType /\ p.free \in Seq(Blocks) /\ p.numFree \in Nat
      /\ p.ref \in [Blocks -> Nat]
      /\ Distinct(p.free) /\ p.numFree = Len(p.free) /\ p.ref[NullBlock] = 0
      /\ Elements(p.free) = {b \in RealBlocks : p.ref[b] = 0}
  BY DEF PoolInv, PoolType, QueueExact
<1>2. /\ idle \subseteq Elements(p.free) /\ real \subseteq RealBlocks
  BY <1>1, BlockNumbers
<1>3. /\ left \in Seq(Blocks) /\ Distinct(left)
      /\ Elements(left) = Elements(p.free) \ idle
  BY <1>1, DropElements
<1>4. q = [p EXCEPT !.free = left, !.numFree = p.numFree - Cardinality(idle), !.ref = r]
  BY DEF Touch
<1>5. r \in [Blocks -> Nat]
      /\ \A b \in Blocks : r[b] = IF b \in real THEN p.ref[b] + 1 ELSE p.ref[b]
  BY <1>1
<1>6. Len(left) = p.numFree - Cardinality(idle) /\ p.numFree - Cardinality(idle) \in Nat
  <2>1. IsFiniteSet(Elements(p.free)) /\ Cardinality(Elements(p.free)) = Len(p.free)
    BY <1>1, DistinctLen
  <2>2. Cardinality(Elements(left)) = Len(left)
    BY <1>3, DistinctLen
  <2>3. Elements(p.free) \cap idle = idle
    BY <1>2
  <2>4. Cardinality(Elements(p.free) \ idle)
          = Cardinality(Elements(p.free)) - Cardinality(Elements(p.free) \cap idle)
    BY <2>1, FS_Difference
  <2>5. Len(left) \in Nat
    BY <1>3
  <2> QED BY <1>1, <1>3, <2>1, <2>2, <2>3, <2>4, <2>5
<1> HIDE DEF idle, left, r, q
<1>7. /\ q.free = left /\ q.numFree = p.numFree - Cardinality(idle)
      /\ q.ref = r /\ q.hash = p.hash /\ q.index = p.index
  BY <1>1, <1>4 DEF PoolType
<1>8. q \in PoolType
  BY <1>1, <1>3, <1>4, <1>5, <1>6 DEF PoolType
<1>9. QueueExact(q)
  <2>1. \A b \in RealBlocks : r[b] = 0 <=> (p.ref[b] = 0 /\ b \notin idle)
    BY <1>1, <1>5, BlockNumbers DEF idle
  <2>2. Elements(q.free) = {b \in RealBlocks : q.ref[b] = 0}
    BY <1>1, <1>3, <1>7, <2>1
  <2>3. q.ref[NullBlock] = 0
    BY <1>1, <1>5, <1>7, BlockNumbers
  <2> QED BY <1>3, <1>6, <1>7, <2>2, <2>3 DEF QueueExact
<1>10. IndexExact(q)
  BY <1>7 DEF PoolInv, IndexExact
<1> QED BY <1>5, <1>7, <1>8, <1>9, <1>10 DEF PoolInv, q, idle

\* free_blocks, for distinct blocks that are referenced: each loses one
\* reference, and those that lose the last one are queued again.
LEMMA FreeBlocksInv ==
  ASSUME NEW p, PoolInv(p),
         NEW ordered \in Seq(Blocks), Distinct(ordered),
         \A b \in Elements(ordered) \ {NullBlock} : p.ref[b] >= 1
  PROVE  /\ PoolInv(FreeBlocks(p, ordered))
         /\ FreeBlocks(p, ordered).hash = p.hash
         /\ \A b \in Blocks : FreeBlocks(p, ordered).ref[b] =
              IF b \in Elements(ordered) \ {NullBlock} THEN p.ref[b] - 1 ELSE p.ref[b]
<1> DEFINE freed    == Elements(ordered) \ {NullBlock}
           released == {b \in freed : p.ref[b] = 1}
           hashed   == {b \in released : p.hash[b] # NoKey}
           front == Keep(ordered, released \ hashed)
           back == Keep(ordered, hashed)
           g == front \o p.free
           f == g \o back
           r == [b \in Blocks |-> IF b \in freed THEN p.ref[b] - 1 ELSE p.ref[b]]
           n == p.numFree + Cardinality(released)
           q == FreeBlocks(p, ordered)
<1>1. /\ p \in PoolType /\ p.free \in Seq(Blocks) /\ p.numFree \in Nat
      /\ p.ref \in [Blocks -> Nat]
      /\ Distinct(p.free) /\ p.numFree = Len(p.free) /\ p.ref[NullBlock] = 0
      /\ Elements(p.free) = {b \in RealBlocks : p.ref[b] = 0}
  BY DEF PoolInv, PoolType, QueueExact
<1>2. Elements(ordered) \subseteq Blocks
  BY DEF Elements
<1>3. /\ freed \subseteq RealBlocks /\ released \subseteq freed
      /\ hashed \subseteq released /\ freed \subseteq Elements(ordered)
  BY <1>2, BlockNumbers
<1>4. q = [p EXCEPT !.free = f, !.numFree = n, !.ref = r]
  BY DEF FreeBlocks
<1>5. r \in [Blocks -> Nat]
      /\ \A b \in Blocks : r[b] = IF b \in freed THEN p.ref[b] - 1 ELSE p.ref[b]
  <2>1. \A b \in freed : p.ref[b] - 1 \in Nat
    BY <1>1, <1>2
  <2> HIDE DEF freed
  <2> QED BY <1>1, <2>1
<1> HIDE DEF released, hashed, freed
<1>6. /\ front \in Seq(Blocks) /\ Distinct(front) /\ Elements(front) = released \ hashed
      /\ back \in Seq(Blocks) /\ Distinct(back) /\ Elements(back) = hashed
  <2>1. /\ front \in Seq(Blocks) /\ Distinct(front)
        /\ Elements(front) = Elements(ordered) \cap (released \ hashed)
    BY KeepElements
  <2>2. /\ back \in Seq(Blocks) /\ Distinct(back)
        /\ Elements(back) = Elements(ordered) \cap hashed
    BY KeepElements
  <2> QED BY <1>3, <2>1, <2>2
<1> HIDE DEF front, back
<1>7. Elements(p.free) \cap released = {}
  BY <1>1 DEF released
<1>8. /\ g \in Seq(Blocks) /\ Distinct(g)
      /\ Elements(g) = (released \ hashed) \cup Elements(p.free)
  <2>1. Elements(front) \cap Elements(p.free) = {}
    BY <1>6, <1>7
  <2> QED BY <1>1, <1>6, <2>1, ConcatElements
<1> HIDE DEF g
<1>9. /\ f \in Seq(Blocks) /\ Distinct(f)
      /\ Elements(f) = released \cup Elements(p.free)
  <2>1. Elements(g) \cap Elements(back) = {}
    BY <1>3, <1>6, <1>7, <1>8
  <2>2. /\ f \in Seq(Blocks) /\ Distinct(f)
        /\ Elements(f) = Elements(g) \cup Elements(back)
    BY <1>6, <1>8, <2>1, ConcatElements
  <2> QED BY <1>3, <1>6, <1>8, <2>2
<1>10. Len(f) = n /\ n \in Nat
  <2>1. IsFiniteSet(Elements(p.free)) /\ Cardinality(Elements(p.free)) = Len(p.free)
    BY <1>1, DistinctLen
  <2>2. Cardinality(Elements(f)) = Len(f)
    BY <1>9, DistinctLen
  <2>3. IsFiniteSet(released)
    <3>1. released \in SUBSET Blocks
      BY <1>2, <1>3
    <3> QED BY <3>1, BlockNumbers, FS_Subset
  <2>4. released \cap Elements(p.free) = {}
    BY <1>7
  <2>5. Cardinality(released \cup Elements(p.free))
          = Cardinality(released) + Cardinality(Elements(p.free))
    <3>1. Cardinality(released \cup Elements(p.free))
            = Cardinality(released) + Cardinality(Elements(p.free))
                - Cardinality(released \cap Elements(p.free))
      BY <2>1, <2>3, FS_Union
    <3>2. Cardinality(released \cap Elements(p.free)) = 0
      <4>1. Cardinality({}) = 0
        BY FS_EmptySet
      <4> QED BY <2>4, <4>1
    <3>3. Cardinality(released) \in Nat /\ Cardinality(Elements(p.free)) \in Nat
      BY <2>1, <2>3, FS_CardinalityType
    <3> QED BY <3>1, <3>2, <3>3
  <2>6. Cardinality(released) \in Nat
    BY <2>3, FS_CardinalityType
  <2> QED BY <1>1, <1>9, <2>1, <2>2, <2>5, <2>6
<1> HIDE DEF f, r, n, q
<1>11. /\ q.free = f /\ q.numFree = n /\ q.ref = r
       /\ q.hash = p.hash /\ q.index = p.index
  BY <1>1, <1>4 DEF PoolType
<1>12. q \in PoolType
  BY <1>1, <1>4, <1>5, <1>9, <1>10 DEF PoolType
<1>13. QueueExact(q)
  <2>1. ASSUME NEW b \in RealBlocks
        PROVE  r[b] = 0 <=> (p.ref[b] = 0 \/ b \in released)
    <3>1. b \in Blocks /\ p.ref[b] \in Nat
      BY <1>1, <2>1, BlockNumbers
    <3>2. b \in freed => p.ref[b] >= 1
      BY <2>1 DEF freed
    <3> QED BY <1>5, <3>1, <3>2 DEF released
  <2>2. released \subseteq RealBlocks
    BY <1>3
  <2>3. Elements(q.free) = {b \in RealBlocks : q.ref[b] = 0}
    BY <1>1, <1>9, <1>11, <2>1, <2>2
  <2>4. q.ref[NullBlock] = 0
    BY <1>1, <1>3, <1>5, <1>11, BlockNumbers
  <2> QED BY <1>9, <1>10, <1>11, <2>3, <2>4 DEF QueueExact
<1>14. IndexExact(q)
  BY <1>11 DEF PoolInv, IndexExact
<1> QED BY <1>5, <1>11, <1>12, <1>13, <1>14 DEF PoolInv, q, freed

\* Positions of a row that hold distinct blocks and have distinct hashes: what
\* cache_full_blocks is called for.
Cacheable(row, hashes, first, last) ==
  /\ row \in Seq(Blocks) /\ hashes \in Seq(Keys)
  /\ first \in Nat /\ last \in Nat /\ last <= Len(row) /\ last <= Len(hashes)
  /\ \A i, j \in first + 1 .. last :
       /\ (row[i] = row[j] /\ row[i] # NullBlock) => i = j
       /\ hashes[i] = hashes[j] => i = j

\* cache_full_blocks: exactly the blocks of those positions are cached, under
\* their hashes.
LEMMA CacheFullBlocksInv ==
  ASSUME NEW p, PoolInv(p), NEW row, NEW hashes, NEW first, NEW last,
         Cacheable(row, hashes, first, last)
  PROVE  /\ PoolInv(CacheFullBlocks(p, row, hashes, first, last))
         /\ CacheFullBlocks(p, row, hashes, first, last).free = p.free
         /\ CacheFullBlocks(p, row, hashes, first, last).numFree = p.numFree
         /\ CacheFullBlocks(p, row, hashes, first, last).ref = p.ref
         /\ \A i \in first + 1 .. last : row[i] # NullBlock =>
              CacheFullBlocks(p, row, hashes, first, last).hash[row[i]] = hashes[i]
         /\ \A b \in Blocks :
              (\A i \in first + 1 .. last : row[i] # NullBlock => row[i] # b)
                => CacheFullBlocks(p, row, hashes, first, last).hash[b] = p.hash[b]
<1> DEFINE todo    == {i \in first + 1 .. last : row[i] # NullBlock}
           cached  == {row[i] : i \in todo}
           c == ForgetHashes(p, cached)
           at(b)   == CHOOSE i \in todo : row[i] = b
           under(k) == {i \in todo : hashes[i] = k}
           h == [b \in Blocks |-> IF b \in cached THEN hashes[at(b)] ELSE p.hash[b]]
           ix == [k \in Keys |-> IF under(k) = {} THEN c.index[k]
                      ELSE Append(c.index[k], row[CHOOSE i \in under(k) : TRUE])]
           q == CacheFullBlocks(p, row, hashes, first, last)
<1>1. \A i \in todo : row[i] \in RealBlocks /\ row[i] \in Blocks /\ hashes[i] \in Keys
  <2>1. \A i \in todo : i \in 1 .. Len(row) /\ i \in 1 .. Len(hashes)
    BY DEF Cacheable
  <2>2. \A i \in todo : row[i] \in Blocks /\ hashes[i] \in Keys /\ row[i] # NullBlock
    BY <2>1 DEF Cacheable
  <2> QED BY <2>2, BlockNumbers
<1>2. \A i, j \in todo : (row[i] = row[j] => i = j) /\ (hashes[i] = hashes[j] => i = j)
  BY DEF Cacheable
<1>3. q = [c EXCEPT !.hash = h, !.index = ix]
  BY DEF CacheFullBlocks
<1>4. \A i \in todo : at(row[i]) = i
  BY <1>2
<1> HIDE DEF todo, at
<1>5. cached \in SUBSET Blocks /\ cached \subseteq RealBlocks
  BY <1>1
<1>6. /\ PoolInv(c) /\ c.free = p.free /\ c.numFree = p.numFree /\ c.ref = p.ref
      /\ \A b \in Blocks : c.hash[b] = IF b \in cached THEN NoKey ELSE p.hash[b]
  BY <1>5, ForgetHashesInv
<1>7. /\ h \in [Blocks -> Keys \cup {NoKey}]
      /\ \A i \in todo : h[row[i]] = hashes[i]
      /\ \A b \in Blocks \ cached : h[b] = p.hash[b]
  <2>1. p.hash \in [Blocks -> Keys \cup {NoKey}]
    BY DEF PoolInv, PoolType
  <2>2. \A b \in cached : hashes[at(b)] \in Keys
    BY <1>1, <1>4
  <2>3. \A i \in todo : row[i] \in Blocks /\ row[i] \in cached /\ hashes[at(row[i])] = hashes[i]
    BY <1>1, <1>4
  <2> HIDE DEF cached
  <2> QED BY <2>1, <2>2, <2>3
<1> HIDE DEF c, h, cached
<1>8. ASSUME NEW k \in Keys
      PROVE  /\ ix[k] \in Seq(Blocks) /\ Distinct(ix[k])
             /\ Elements(ix[k]) = {b \in Blocks : h[b] = k}
  <2>1. /\ c.index[k] \in Seq(Blocks) /\ Distinct(c.index[k])
        /\ Elements(c.index[k]) = {b \in Blocks : c.hash[b] = k}
    BY <1>6 DEF PoolInv, PoolType, IndexExact
  <2>2. k # NoKey
    BY PoolAssumption
  <2>3. Elements(c.index[k]) = {b \in Blocks \ cached : h[b] = k}
    BY <1>6, <1>7, <2>1, <2>2
  <2>4. CASE under(k) = {}
    <3>1. ix[k] = c.index[k]
      BY <2>4
    <3>2. \A b \in cached : h[b] # k
      BY <1>7, <2>4 DEF cached
    <3> HIDE DEF ix
    <3> QED BY <2>1, <2>3, <3>1, <3>2
  <2>5. CASE under(k) # {}
    <3> DEFINE j == CHOOSE i \in under(k) : TRUE
               old == c.index[k]
    <3>1. j \in todo /\ hashes[j] = k
      BY <2>5
    <3>2. ix[k] = Append(old, row[j])
      BY <2>5
    <3>3. old \in Seq(Blocks) /\ Distinct(old)
          /\ Elements(old) = {b \in Blocks \ cached : h[b] = k}
      BY <2>1, <2>3
    <3> HIDE DEF j, ix, old
    <3>4. row[j] \in Blocks /\ row[j] \in cached /\ h[row[j]] = k
      BY <1>1, <1>7, <3>1 DEF cached
    <3>5. \A b \in cached : h[b] = k => b = row[j]
      BY <1>2, <1>7, <3>1 DEF cached
    <3>6. row[j] \notin Elements(old)
      BY <3>3, <3>4
    <3>7. /\ ix[k] \in Seq(Blocks) /\ Distinct(ix[k])
          /\ Elements(ix[k]) = Elements(old) \cup {row[j]}
      BY <3>2, <3>3, <3>4, <3>6, AppendElements
    <3>8. {b \in Blocks : h[b] = k} = {b \in Blocks \ cached : h[b] = k} \cup {row[j]}
      BY <3>4, <3>5
    <3> QED BY <3>3, <3>7, <3>8
  <2> QED BY <2>4, <2>5
<1>9. ix \in [Keys -> Seq(Blocks)]
  BY <1>8
<1> HIDE DEF ix, q
<1>10. c \in PoolType
  BY <1>6 DEF PoolInv
<1>11. /\ q.free = p.free /\ q.numFree = p.numFree /\ q.ref = p.ref
       /\ q.hash = h /\ q.index = ix
  BY <1>3, <1>6, <1>10 DEF PoolType
<1>12. q \in PoolType
  BY <1>3, <1>7, <1>9, <1>10 DEF PoolType
<1>13. QueueExact(q)
  BY <1>11 DEF PoolInv, QueueExact
<1>14. IndexExact(q)
  <2>1. NullBlock \in Blocks \ cached
    BY <1>5, BlockNumbers
  <2>2. q.hash[NullBlock] = NoKey
    BY <1>7, <1>11, <2>1 DEF PoolInv, IndexExact
  <2> QED BY <1>8, <1>11, <2>2 DEF IndexExact
<1>15. \A b \in Blocks : (\A i \in todo : row[i] # b) => q.hash[b] = p.hash[b]
  BY <1>7, <1>11 DEF cached
<1>16. \A i \in todo : q.hash[row[i]] = hashes[i]
  BY <1>7, <1>11
<1>17. PoolInv(q)
  BY <1>12, <1>13, <1>14 DEF PoolInv
<1> QED BY <1>11, <1>15, <1>16, <1>17 DEF q, todo

\* reset_prefix_cache forgets every hash and touches nothing else.
LEMMA ResetPrefixCacheInv ==
  ASSUME NEW p, PoolInv(p)
  PROVE  /\ PoolInv(ResetPrefixCache(p))
         /\ ResetPrefixCache(p).ref = p.ref
         /\ \A b \in Blocks : ResetPrefixCache(p).hash[b] = NoKey
<1> DEFINE h == [b \in Blocks |-> NoKey]
           ix == [k \in Keys |-> << >>]
           q == ResetPrefixCache(p)
<1>1. q = [p EXCEPT !.hash = h, !.index = ix]
  BY DEF ResetPrefixCache
<1>2. << >> \in Seq(Blocks) /\ Elements(<< >>) = {} /\ Distinct(<< >>)
  BY DEF Elements, Distinct
<1>3. /\ h \in [Blocks -> Keys \cup {NoKey}] /\ \A b \in Blocks : h[b] = NoKey
      /\ ix \in [Keys -> Seq(Blocks)] /\ \A k \in Keys : ix[k] = << >>
  BY <1>2
<1> HIDE DEF h, ix, q
<1>4. p \in PoolType
  BY DEF PoolInv
<1>5. /\ q.free = p.free /\ q.numFree = p.numFree /\ q.ref = p.ref
      /\ q.hash = h /\ q.index = ix /\ q \in PoolType
  BY <1>1, <1>3, <1>4 DEF PoolType
<1>6. QueueExact(q)
  BY <1>5 DEF PoolInv, QueueExact
<1>7. IndexExact(q)
  BY <1>2, <1>3, <1>5, BlockNumbers, PoolAssumption DEF IndexExact
<1> QED BY <1>3, <1>5, <1>6, <1>7 DEF PoolInv, q

------------------------------------------------------------------------------
(***************************************************************************)
(* The order in which blocks are reused.  L relates the key of a block of  *)
(* text to the key of the block that follows it.                           *)
(***************************************************************************)

\* Some block holds key k and will not be reused before b: it is in use, or
\* stands behind b in the queue.
Anchored(p, b, k) ==
  \E c \in Blocks : p.hash[c] = k /\ (p.ref[c] > 0 \/ Before(p.free, b, c))

\* In the queue the blocks without a hash come first, and the block that
\* precedes a cached block in its text goes after it.
Ordered(p, L) ==
  /\ \A a, b \in Blocks :
       Before(p.free, a, b) /\ p.hash[b] = NoKey => p.hash[a] = NoKey
  /\ \A b \in Blocks : \A k \in Keys :
       p.ref[b] = 0 /\ <<k, p.hash[b]>> \in L => Anchored(p, b, k)

\* What stands in the queue is a block nobody references.
LEMMA QueuedAreIdle ==
  ASSUME NEW p, PoolInv(p), NEW a, NEW b, Before(p.free, a, b)
  PROVE  /\ a \in Elements(p.free) /\ b \in Elements(p.free)
         /\ a \in RealBlocks /\ b \in RealBlocks /\ a \in Blocks /\ b \in Blocks
         /\ p.ref[a] = 0 /\ p.ref[b] = 0
<1>1. a \in Elements(p.free) /\ b \in Elements(p.free)
  BY DEF Before, Elements
<1> QED BY <1>1, BlockNumbers DEF PoolInv, QueueExact

\* A cached block that is idle stands in the queue.
LEMMA IdleAreQueued ==
  ASSUME NEW p, PoolInv(p), NEW b \in Blocks, p.ref[b] = 0, p.hash[b] # NoKey
  PROVE  b \in Elements(p.free)
<1>1. b \in RealBlocks
  BY DEF PoolInv, IndexExact, RealBlocks
<1> QED BY <1>1 DEF PoolInv, QueueExact

\* touch keeps the order: what it takes out of the queue is in use.
LEMMA TouchKeepsOrder ==
  ASSUME NEW p, PoolInv(p), NEW S \in SUBSET Blocks, NEW L \in SUBSET (Keys \X Keys),
         Ordered(p, L)
  PROVE  Ordered(Touch(p, S), L)
<1> DEFINE q == Touch(p, S)
           idle == {b \in S \ {NullBlock} : p.ref[b] = 0}
<1>1. /\ p \in PoolType /\ p.free \in Seq(Blocks) /\ p.ref \in [Blocks -> Nat]
  BY DEF PoolInv, PoolType
<1>2. /\ q.hash = p.hash
      /\ \A b \in Blocks : q.ref[b] =
           IF b \in S \ {NullBlock} THEN p.ref[b] + 1 ELSE p.ref[b]
  BY TouchInv
<1>3. q.free = Drop(p.free, idle)
  BY <1>1 DEF Touch, PoolType
<1> HIDE DEF q
<1>4. ASSUME NEW a, NEW b
      PROVE  Before(q.free, a, b) <=> Before(p.free, a, b) /\ a \notin idle /\ b \notin idle
  <2> DEFINE kept == Elements(p.free) \ idle
  <2>1. q.free = Keep(p.free, kept)
    BY <1>3 DEF Drop
  <2> HIDE DEF kept
  <2>2. Before(q.free, a, b) <=> Before(p.free, a, b) /\ a \in kept /\ b \in kept
    BY <1>1, <2>1, KeepOrder
  <2>3. Before(p.free, a, b) => a \in Elements(p.free) /\ b \in Elements(p.free)
    BY QueuedAreIdle
  <2> QED BY <2>2, <2>3 DEF kept
<1>5. ASSUME NEW a \in Blocks, NEW b \in Blocks, Before(q.free, a, b), q.hash[b] = NoKey
      PROVE  q.hash[a] = NoKey
  BY <1>2, <1>4, <1>5 DEF Ordered
<1>6. ASSUME NEW b \in Blocks, NEW k \in Keys, q.ref[b] = 0, <<k, q.hash[b]>> \in L
      PROVE  Anchored(q, b, k)
  <2>1. p.ref[b] = 0 /\ p.ref[b] \in Nat /\ b \notin idle
    BY <1>1, <1>2, <1>6
  <2>2. PICK c \in Blocks : p.hash[c] = k /\ (p.ref[c] > 0 \/ Before(p.free, b, c))
    BY <1>2, <1>6, <2>1 DEF Ordered, Anchored
  <2>3. CASE p.ref[c] > 0 \/ c \in idle
    <3>1. q.ref[c] > 0
      BY <1>1, <1>2, <2>3
    <3> QED BY <1>2, <2>2, <3>1 DEF Anchored
  <2>4. CASE Before(p.free, b, c) /\ c \notin idle
    <3>1. Before(q.free, b, c)
      BY <1>4, <2>1, <2>4
    <3> QED BY <1>2, <2>2, <3>1 DEF Anchored
  <2> QED BY <2>2, <2>3, <2>4
<1> QED BY <1>5, <1>6 DEF Ordered, q

\* get_new_blocks takes the front of the queue and keeps the order of the rest.
LEMMA GetNewBlocksKeepsOrder ==
  ASSUME NEW p, PoolInv(p), NEW n \in Nat, CanGetNewBlocks(p, n),
         NEW L \in SUBSET (Keys \X Keys), Ordered(p, L)
  PROVE  Ordered(GetNewBlocks(p, n), L)
<1> DEFINE q == GetNewBlocks(p, n)
           got == Elements(NewBlocks(p, n))
           rest == SubSeq(p.free, n + 1, Len(p.free))
<1>1. /\ p.free \in Seq(Blocks) /\ p.ref \in [Blocks -> Nat]
      /\ Distinct(p.free) /\ p.numFree = Len(p.free)
  BY DEF PoolInv, PoolType, QueueExact
<1>2. n \in 0 .. Len(p.free)
  BY <1>1 DEF CanGetNewBlocks
<1>3. /\ PoolInv(q)
      /\ \A b \in got : b \in Blocks /\ p.ref[b] = 0 /\ q.ref[b] = 1 /\ q.hash[b] = NoKey
      /\ \A b \in Blocks \ got : q.ref[b] = p.ref[b] /\ q.hash[b] = p.hash[b]
  BY GetNewBlocksInv, BlockNumbers
<1>4. q.free = rest
  <2> DEFINE f == ForgetHashes(p, got)
  <2>1. got \in SUBSET Blocks
    BY <1>3
  <2>2. f \in PoolType
    BY <2>1, ForgetHashesInv DEF PoolInv
  <2>3. q = [f EXCEPT !.free = rest, !.numFree = p.numFree - n,
              !.ref = [b \in Blocks |-> IF b \in got THEN p.ref[b] + 1 ELSE p.ref[b]]]
    BY DEF GetNewBlocks
  <2> HIDE DEF f, q, got, rest
  <2> QED BY <2>2, <2>3 DEF PoolType
<1>5. Elements(rest) = Elements(p.free) \ got
  BY <1>1, <1>2, SplitElements, SMTT(30) DEF NewBlocks
<1>6. \A a, b : Before(rest, a, b) <=> Before(p.free, a, b) /\ a \in Elements(rest)
  BY <1>1, <1>2, SuffixOrder
<1> HIDE DEF q, got, rest
<1>7. ASSUME NEW a, NEW b, Before(q.free, a, b)
      PROVE  Before(p.free, a, b) /\ a \notin got /\ b \notin got
  <2>1. a \in Elements(rest) /\ b \in Elements(rest)
    BY <1>4, <1>7 DEF Before, Elements
  <2> QED BY <1>4, <1>5, <1>6, <1>7, <2>1
<1>8. ASSUME NEW a \in Blocks, NEW b \in Blocks, Before(q.free, a, b), q.hash[b] = NoKey
      PROVE  q.hash[a] = NoKey
  <2>1. Before(p.free, a, b) /\ p.hash[b] = NoKey
    BY <1>3, <1>7, <1>8
  <2> QED BY <1>3, <1>7, <1>8, <2>1 DEF Ordered
<1>9. ASSUME NEW b \in Blocks, NEW k \in Keys, q.ref[b] = 0, <<k, q.hash[b]>> \in L
      PROVE  Anchored(q, b, k)
  <2>1. q.hash[b] # NoKey /\ k # NoKey
    BY <1>9, PoolAssumption
  <2>2. b \notin got /\ p.ref[b] = 0 /\ q.hash[b] = p.hash[b]
    BY <1>3, <1>9, <2>1
  <2>3. b \in Elements(rest)
    BY <1>4, <1>3, <1>9, <2>1, IdleAreQueued
  <2>4. PICK c \in Blocks : p.hash[c] = k /\ (p.ref[c] > 0 \/ Before(p.free, b, c))
    BY <1>9, <2>2 DEF Ordered, Anchored
  <2>5. CASE p.ref[c] > 0
    <3>1. c \notin got
      BY <1>3, <2>5
    <3> QED BY <1>3, <2>4, <2>5, <3>1 DEF Anchored
  <2>6. CASE Before(p.free, b, c)
    <3>1. Before(q.free, b, c)
      BY <1>4, <1>6, <2>3, <2>6
    <3>2. c \notin got
      BY <1>7, <3>1
    <3> QED BY <1>3, <2>4, <3>1, <3>2 DEF Anchored
  <2> QED BY <2>4, <2>5, <2>6
<1> QED BY <1>8, <1>9 DEF Ordered, q

\* Hashing blocks that are in use, and had no hash, keeps the order.
LEMMA HashingKeepsOrder ==
  ASSUME NEW p, PoolInv(p), NEW q, q.free = p.free, q.ref = p.ref,
         \A b \in Blocks : q.hash[b] = p.hash[b] \/ (p.hash[b] = NoKey /\ p.ref[b] > 0),
         NEW L \in SUBSET (Keys \X Keys), Ordered(p, L)
  PROVE  Ordered(q, L)
<1>1. \A b \in Blocks : p.ref[b] = 0 => q.hash[b] = p.hash[b]
  OBVIOUS
<1>2. ASSUME NEW a \in Blocks, NEW b \in Blocks, Before(q.free, a, b), q.hash[b] = NoKey
      PROVE  q.hash[a] = NoKey
  <2>1. p.ref[a] = 0 /\ p.ref[b] = 0 /\ Before(p.free, a, b)
    BY <1>2, QueuedAreIdle
  <2> QED BY <1>1, <1>2, <2>1 DEF Ordered
<1>3. ASSUME NEW b \in Blocks, NEW k \in Keys, q.ref[b] = 0, <<k, q.hash[b]>> \in L
      PROVE  Anchored(q, b, k)
  <2>1. PICK c \in Blocks : p.hash[c] = k /\ (p.ref[c] > 0 \/ Before(p.free, b, c))
    BY <1>1, <1>3 DEF Ordered, Anchored
  <2>2. q.hash[c] = k
    BY <2>1, PoolAssumption
  <2> QED BY <2>1, <2>2 DEF Anchored
<1> QED BY <1>2, <1>3 DEF Ordered

\* free_blocks keeps the order when every cached block is given back before
\* the block that precedes it in its text.
LEMMA FreeBlocksKeepsOrder ==
  ASSUME NEW p, PoolInv(p), NEW L \in SUBSET (Keys \X Keys), Ordered(p, L),
         NEW ordered \in Seq(Blocks), Distinct(ordered),
         \A b \in Elements(ordered) : b # NullBlock /\ p.ref[b] >= 1,
         \A b \in Elements(ordered) : \A k \in Keys : <<k, p.hash[b]>> \in L =>
           \E c \in Blocks : p.hash[c] = k /\ Before(ordered, b, c)
  PROVE  Ordered(FreeBlocks(p, ordered), L)
<1> DEFINE q == FreeBlocks(p, ordered)
           given    == Elements(ordered)
           released == {b \in given : p.ref[b] = 1}
           hashed   == {b \in released : p.hash[b] # NoKey}
           front == Keep(ordered, released \ hashed)
           back == Keep(ordered, hashed)
           g == front \o p.free
<1>1. /\ p \in PoolType /\ p.free \in Seq(Blocks) /\ p.ref \in [Blocks -> Nat]
  BY DEF PoolInv, PoolType
<1>2. given \ {NullBlock} = given /\ given \in SUBSET Blocks
  BY DEF Elements
<1>3. /\ q.hash = p.hash
      /\ \A b \in Blocks : q.ref[b] = IF b \in given THEN p.ref[b] - 1 ELSE p.ref[b]
  <2>1. /\ FreeBlocks(p, ordered).hash = p.hash
        /\ \A b \in Blocks : FreeBlocks(p, ordered).ref[b] =
              IF b \in Elements(ordered) \ {NullBlock} THEN p.ref[b] - 1 ELSE p.ref[b]
    BY FreeBlocksInv
  <2> QED BY <1>2, <2>1
<1>4. q.free = front \o p.free \o back
  BY <1>1, <1>2 DEF FreeBlocks, PoolType
<1>5. /\ front \in Seq(Blocks) /\ back \in Seq(Blocks)
      /\ Elements(front) = given \cap (released \ hashed)
      /\ Elements(back) = given \cap hashed
  BY KeepElements
<1>6. /\ Elements(front) = released \ hashed /\ Elements(back) = hashed
  BY <1>5
<1> HIDE DEF q, front, back
<1>7. g \in Seq(Blocks) /\ Elements(g) = Elements(front) \cup Elements(p.free)
  BY <1>1, <1>5, ConcatElements
<1>8. ASSUME NEW a, NEW b
      PROVE  Before(q.free, a, b) <=>
               \/ Before(front, a, b) \/ Before(p.free, a, b) \/ Before(back, a, b)
               \/ a \in Elements(front) /\ b \in Elements(p.free)
               \/ a \in Elements(g) /\ b \in Elements(back)
  <2>1. Before(g, a, b) <=> \/ Before(front, a, b) \/ Before(p.free, a, b)
                            \/ a \in Elements(front) /\ b \in Elements(p.free)
    BY <1>1, <1>5, ConcatOrder
  <2> HIDE DEF g
  <2>2. Before(g \o back, a, b) <=> \/ Before(g, a, b) \/ Before(back, a, b)
                                    \/ a \in Elements(g) /\ b \in Elements(back)
    BY <1>5, <1>7, ConcatOrder
  <2> QED BY <1>4, <2>1, <2>2 DEF g
<1> HIDE DEF g
<1>9. ASSUME NEW a \in Blocks, NEW b \in Blocks, Before(q.free, a, b), q.hash[b] = NoKey
      PROVE  q.hash[a] = NoKey
  <2>1. b \notin Elements(back) /\ ~ Before(back, a, b)
    BY <1>3, <1>6, <1>9 DEF Before, Elements
  <2>2. CASE a \in Elements(front)
    BY <1>3, <1>6, <2>2
  <2>3. CASE Before(p.free, a, b)
    BY <1>3, <1>9, <2>3 DEF Ordered
  <2>4. Before(front, a, b) => a \in Elements(front)
    BY DEF Before, Elements
  <2> QED BY <1>8, <1>9, <2>1, <2>2, <2>3, <2>4
\* A block that was in use stays in use, or is now at the back of the queue.
<1>10. ASSUME NEW c \in Blocks, p.ref[c] > 0, p.hash[c] \in Keys
       PROVE  q.ref[c] > 0 \/ c \in hashed
  <2>1. p.ref[c] \in Nat /\ p.hash[c] # NoKey
    BY <1>1, <1>10, PoolAssumption
  <2> QED BY <1>3, <1>10, <2>1
<1>11. ASSUME NEW b \in Blocks, NEW k \in Keys, q.ref[b] = 0, <<k, q.hash[b]>> \in L
       PROVE  Anchored(q, b, k)
  <2>1. p.hash[b] # NoKey /\ <<k, p.hash[b]>> \in L
    BY <1>3, <1>11, PoolAssumption
  <2>2. CASE b \notin given
    <3>1. p.ref[b] = 0
      BY <1>3, <1>11, <2>2
    <3>2. PICK c \in Blocks : p.hash[c] = k /\ (p.ref[c] > 0 \/ Before(p.free, b, c))
      BY <2>1, <3>1 DEF Ordered, Anchored
    <3>3. b \in Elements(g)
      BY <1>7, <2>1, <3>1, IdleAreQueued
    <3>4. q.ref[c] > 0 \/ Before(q.free, b, c)
      BY <1>6, <1>8, <1>10, <3>2, <3>3
    <3> QED BY <1>3, <3>2, <3>4 DEF Anchored
  <2>3. CASE b \in given
    <3>1. b \in hashed
      BY <1>1, <1>3, <1>11, <2>1, <2>3
    <3>2. PICK c \in Blocks : p.hash[c] = k /\ Before(ordered, b, c)
      BY <2>1, <2>3
    <3>3. c \in given
      BY <3>2 DEF Before, Elements
    <3>4. CASE q.ref[c] > 0
      BY <1>3, <3>2, <3>4 DEF Anchored
    <3>5. CASE c \in hashed
      <4>1. Before(back, b, c)
        BY <3>1, <3>2, <3>5, KeepOrder DEF back
      <4> QED BY <1>3, <1>8, <3>2, <4>1 DEF Anchored
    <3>6. p.ref[c] > 0
      BY <1>1, <3>3
    <3> QED BY <1>10, <3>2, <3>4, <3>5, <3>6
  <2> QED BY <2>2, <2>3
<1> QED BY <1>9, <1>11 DEF Ordered, q

------------------------------------------------------------------------------
(***************************************************************************)
(* The radix index (radix_tree.rs) and the flat one.                       *)
(***************************************************************************)

\* The positions of s other than i are found in r, in their order.
Survive(s, i, r) ==
  \A p, q \in DOMAIN s : p < q /\ p # i /\ q # i =>
    \E u, v \in DOMAIN r : u < v /\ r[u] = s[p] /\ r[v] = s[q]

\* The positions of r are found in s, in their order.
ComeFrom(r, s) ==
  \A u, v \in DOMAIN r : u < v =>
    \E p, q \in DOMAIN s : p < q /\ r[u] = s[p] /\ r[v] = s[q]

\* Removing a position of a sequence without repetition: what is left, and
\* that the others keep their order, seen from either sequence.
LEMMA RemovedFacts ==
  ASSUME NEW T, NEW s \in Seq(T), NEW i \in DOMAIN s, Distinct(s),
         NEW r, r = Removed(s, i)
  PROVE  /\ r \in Seq(T) /\ Len(r) = Len(s) - 1 /\ Distinct(r)
         /\ Elements(r) = Elements(s) \ {s[i]}
         /\ Survive(s, i, r) /\ ComeFrom(r, s)
<1> DEFINE Up(p) == IF p < i THEN p ELSE p - 1
           Down(u) == IF u < i THEN u ELSE u + 1
<1>1. /\ Len(s) \in Nat /\ DOMAIN s = 1 .. Len(s) /\ i \in 1 .. Len(s)
      /\ Len(s) - 1 \in Nat
  OBVIOUS
<1>2. r \in Seq(T) /\ Len(r) = Len(s) - 1 /\ DOMAIN r = 1 .. Len(s) - 1
  <2>1. \A j \in 1 .. Len(s) - 1 : (IF j < i THEN s[j] ELSE s[j + 1]) \in T
    BY <1>1
  <2> QED
    BY <1>1, <2>1 DEF Removed
<1>3. \A u \in DOMAIN r : Down(u) \in DOMAIN s /\ Down(u) # i /\ r[u] = s[Down(u)]
  BY <1>1, <1>2 DEF Removed
<1>4. \A p \in DOMAIN s : p # i => Up(p) \in DOMAIN r /\ r[Up(p)] = s[p]
  BY <1>1, <1>2 DEF Removed
<1>5. \A u, v \in DOMAIN r : u < v => Down(u) < Down(v)
  BY <1>1, <1>2
<1>6. \A p, q \in DOMAIN s : p < q /\ p # i /\ q # i => Up(p) < Up(q)
  BY <1>1
<1>7. Distinct(r)
  <2> SUFFICES ASSUME NEW u \in DOMAIN r, NEW v \in DOMAIN r, r[u] = r[v]
               PROVE  u = v
    BY DEF Distinct
  <2>1. Down(u) = Down(v)
    BY <1>3 DEF Distinct
  <2> QED
    BY <1>1, <1>2, <1>5, <2>1
<1>8. Elements(r) = Elements(s) \ {s[i]}
  <2>1. ASSUME NEW e \in Elements(r)
        PROVE  e \in Elements(s) \ {s[i]}
    <3>1. PICK u \in DOMAIN r : e = r[u]
      BY <2>1 DEF Elements
    <3> QED
      BY <3>1, <1>3 DEF Elements, Distinct
  <2>2. ASSUME NEW e \in Elements(s), e # s[i]
        PROVE  e \in Elements(r)
    <3>1. PICK p \in DOMAIN s : e = s[p]
      BY <2>2 DEF Elements
    <3> QED
      BY <3>1, <2>2, <1>4 DEF Elements
  <2> QED
    BY <2>1, <2>2
<1>9. Survive(s, i, r)
  BY <1>4, <1>6 DEF Survive
<1>10. ComeFrom(r, s)
  BY <1>3, <1>5 DEF ComeFrom
<1> QED
  BY <1>2, <1>7, <1>8, <1>9, <1>10

\* position finds what is there.
LEMMA PositionFinds ==
  ASSUME NEW T, NEW s \in Seq(T), NEW e \in Elements(s), Distinct(s)
  PROVE  Position(s, e) \in DOMAIN s /\ s[Position(s, e)] = e
<1>1. PICK i \in DOMAIN s : s[i] = e
  BY DEF Elements
<1>2. \A j \in 1 .. i - 1 : s[j] # e
  BY <1>1 DEF Distinct
<1> QED
  BY <1>1, <1>2 DEF Position

\* Appending to a sequence: the new element, and the old positions.
LEMMA AppendFacts ==
  ASSUME NEW T, NEW s \in Seq(T), NEW e \in T, e \notin Elements(s), Distinct(s)
  PROVE  /\ Append(s, e) \in Seq(T) /\ Distinct(Append(s, e))
         /\ Elements(Append(s, e)) = Elements(s) \cup {e}
         /\ DOMAIN s \subseteq DOMAIN Append(s, e)
         /\ \A i \in DOMAIN s : Append(s, e)[i] = s[i]
         /\ DOMAIN Append(s, e) = DOMAIN s \cup {Len(s) + 1}
         /\ Append(s, e)[Len(s) + 1] = e
         /\ \A i \in DOMAIN s : i < Len(s) + 1
<1>1. /\ Append(s, e) \in Seq(T) /\ Len(s) \in Nat /\ Len(Append(s, e)) = Len(s) + 1
      /\ DOMAIN s = 1 .. Len(s) /\ DOMAIN Append(s, e) = 1 .. Len(s) + 1
      /\ \A i \in DOMAIN s : Append(s, e)[i] = s[i]
      /\ Append(s, e)[Len(s) + 1] = e
  OBVIOUS
<1>2. DOMAIN Append(s, e) = DOMAIN s \cup {Len(s) + 1} /\ \A i \in DOMAIN s : i < Len(s) + 1
  BY <1>1
<1>3. Elements(Append(s, e)) = Elements(s) \cup {e}
  BY <1>1, <1>2 DEF Elements
<1>4. Distinct(Append(s, e))
  BY <1>1, <1>2 DEF Distinct, Elements
<1> QED
  BY <1>1, <1>2, <1>3, <1>4

(***************************************************************************)
(* The two indexes.                                                        *)
(***************************************************************************)

\* A hash has a pair in its bucket exactly when the flat index has an entry.
LEMMA HoldsEntry ==
  ASSUME NEW x, NEW f, RadixType(x), FlatType(f), SameBlocks(x, f), NEW k \in Keys
  PROVE  Holds(Bucket(x, k), k) <=> f[k] # << >>
<1>1. Bucket(x, k) \in Seq(Keys \X Blocks) /\ f[k] \in Seq(Blocks)
  BY RadixAssumption DEF RadixType, FlatType, Bucket
<1>2. ASSUME Holds(Bucket(x, k), k)
      PROVE  f[k] # << >>
  <2>1. PICK i \in DOMAIN Bucket(x, k) : Bucket(x, k)[i][1] = k
    BY <1>2 DEF Holds
  <2>2. Bucket(x, k)[i] \in Keys \X Blocks
    BY <1>1, <2>1
  <2>3. PICK b \in Blocks : Bucket(x, k)[i] = <<k, b>>
    BY <2>1, <2>2
  <2>4. b \in Elements(f[k])
    BY <2>1, <2>3 DEF SameBlocks, RadixContains, FlatContains, Elements
  <2> QED
    BY <2>4 DEF Elements
<1>3. ASSUME f[k] # << >>
      PROVE  Holds(Bucket(x, k), k)
  <2>1. 1 \in DOMAIN f[k] /\ f[k][1] \in Blocks
    BY <1>1, <1>3
  <2>2. <<k, f[k][1]>> \in Elements(Bucket(x, k))
    BY <2>1 DEF SameBlocks, RadixContains, FlatContains, Elements
  <2> QED
    BY <2>2 DEF Elements, Holds
<1> QED
  BY <1>2, <1>3

\* A new index is empty.
LEMMA NewStands == StandsFor(RadixNew, FlatNew)
<1>1. RadixType(RadixNew)
  BY DEF RadixNew, RadixType, Distinct
<1>2. FlatKeys(FlatNew) = {}
  BY DEF FlatKeys, FlatNew
<1>3. IsFiniteSet(FlatKeys(FlatNew)) /\ FlatLen(FlatNew) = 0
  BY <1>2, FS_EmptySet DEF FlatLen
<1>4. FlatType(FlatNew)
  BY <1>3 DEF FlatType, FlatNew, Distinct
<1>5. SameBlocks(RadixNew, FlatNew)
  BY RadixAssumption DEF SameBlocks, RadixContains, FlatContains, Bucket, RadixNew, FlatNew, Elements
<1>6. SameOrder(RadixNew, FlatNew)
  BY DEF SameOrder, FlatNew
<1> QED
  BY <1>1, <1>3, <1>4, <1>5, <1>6 DEF StandsFor, RadixNew

\* get_one_block answers with the same block.
LEMMA GetAgrees ==
  ASSUME NEW x, NEW f, StandsFor(x, f), NEW k \in Keys
  PROVE  RadixGet(x, k) = FlatGet(f, k)
<1> DEFINE s == Bucket(x, k)
           First(i) == s[i][1] = k /\ \A j \in 1 .. i - 1 : s[j][1] # k
<1> USE DEF StandsFor
<1>1. /\ s \in Seq(Keys \X Blocks) /\ f[k] \in Seq(Blocks)
      /\ Distinct(s) /\ Len(s) \in Nat /\ DOMAIN s = 1 .. Len(s)
  BY RadixAssumption DEF RadixType, FlatType, Bucket
<1>2. Holds(s, k) <=> f[k] # << >>
  BY HoldsEntry
<1>3. CASE f[k] = << >>
  BY <1>2, <1>3 DEF RadixGet, FlatGet
<1>4. CASE f[k] # << >>
  <2>1. 1 \in DOMAIN f[k] /\ f[k][1] \in Blocks
    BY <1>1, <1>4
  <2>2. PICK h \in DOMAIN s : s[h] = <<k, f[k][1]>>
    BY <2>1 DEF SameBlocks, RadixContains, FlatContains, Elements
  <2>3. \A j \in 1 .. h - 1 : s[j][1] # k
    <3> SUFFICES ASSUME NEW j \in 1 .. h - 1, s[j][1] = k
                 PROVE  FALSE
      OBVIOUS
    <3>1. j \in DOMAIN s /\ j < h /\ s[j] \in Keys \X Blocks
      BY <1>1, <2>2
    <3>2. PICK b \in Blocks : s[j] = <<k, b>>
      BY <3>1
    <3>3. PICK n \in DOMAIN f[k] : f[k][n] = b
      BY <3>1, <3>2 DEF SameBlocks, RadixContains, FlatContains, Elements
    <3>4. n # 1
      <4> SUFFICES ASSUME n = 1 PROVE FALSE
        OBVIOUS
      <4>1. s[j] = s[h] /\ j \in DOMAIN s /\ h \in DOMAIN s
        BY <2>2, <3>1, <3>2, <3>3
      <4>2. j = h
        BY <1>1, <4>1 DEF Distinct
      <4> QED
        BY <1>1, <3>1, <4>2
    <3>5. 1 < n
      BY <1>1, <3>3, <3>4
    <3>6. PICK p, q \in DOMAIN s : p < q /\ s[p] = <<k, f[k][1]>> /\ s[q] = <<k, b>>
      BY <2>1, <3>3, <3>5 DEF SameOrder
    <3>7. p = h /\ q = j
      BY <2>2, <3>1, <3>2, <3>6, <1>1 DEF Distinct
    <3> QED
      BY <1>1, <3>1, <3>6, <3>7
  <2>4. h \in DOMAIN s /\ First(h)
    BY <2>2, <2>3
  <2>5. \A i \in DOMAIN s : First(i) => i = h
    BY <1>1, <2>4
  <2>6. (CHOOSE i \in DOMAIN s : First(i)) = h
    BY <2>4, <2>5
  <2>7. RadixGet(x, k) = s[CHOOSE i \in DOMAIN s : First(i)][2]
    BY <1>2, <1>4 DEF RadixGet
  <2>8. s[h][2] = f[k][1]
    BY <2>2
  <2> QED
    BY <1>4, <2>6, <2>7, <2>8 DEF FlatGet
<1> QED
  BY <1>3, <1>4

\* An insert appends the pair to its bucket and the block to its entry.
LEMMA InsertStands ==
  ASSUME NEW x, NEW f, StandsFor(x, f), NEW k \in Keys, NEW b \in Blocks
  PROVE  StandsFor(RadixInsert(x, k, b), FlatInsert(f, k, b))
<1> DEFINE s == Bucket(x, k)
           y == RadixInsert(x, k, b)
           g == FlatInsert(f, k, b)
<1> USE DEF StandsFor
<1>1. /\ s \in Seq(Keys \X Blocks) /\ f[k] \in Seq(Blocks)
      /\ Distinct(s) /\ Distinct(f[k]) /\ BucketOf[k] \in Buckets
  BY RadixAssumption DEF RadixType, FlatType, Bucket
<1>2. CASE RadixContains(x, k, b)
  BY <1>2 DEF SameBlocks, RadixInsert, FlatInsert
<1>3. CASE ~RadixContains(x, k, b)
  <2>1. <<k, b>> \notin Elements(s) /\ b \notin Elements(f[k])
    BY <1>3 DEF SameBlocks, RadixContains, FlatContains
  <2> DEFINE t == Append(s, <<k, b>>)
             e == Append(f[k], b)
  <2>2. /\ y = [buckets |-> [x.buckets EXCEPT ![BucketOf[k]] = t],
                len |-> IF Holds(s, k) THEN x.len ELSE x.len + 1]
        /\ g = [f EXCEPT ![k] = e]
    BY <1>3, <2>1 DEF RadixInsert, FlatInsert, FlatContains, Bucket
  <2>3. /\ t \in Seq(Keys \X Blocks) /\ Distinct(t) /\ Elements(t) = Elements(s) \cup {<<k, b>>}
        /\ DOMAIN t = DOMAIN s \cup {Len(s) + 1} /\ t[Len(s) + 1] = <<k, b>>
        /\ \A i \in DOMAIN s : t[i] = s[i] /\ i < Len(s) + 1
    <3>1. <<k, b>> \in Keys \X Blocks
      OBVIOUS
    <3>2. <<k, b>> \notin Elements(s)
      BY <2>1
    <3> DEFINE new == <<k, b>>
    <3>3. new \in Keys \X Blocks /\ new \notin Elements(s) /\ t = Append(s, new)
      BY <3>1, <3>2
    <3> HIDE DEF s, t, new
    <3>4. /\ t \in Seq(Keys \X Blocks) /\ Distinct(t) /\ Elements(t) = Elements(s) \cup {new}
          /\ DOMAIN t = DOMAIN s \cup {Len(s) + 1} /\ t[Len(s) + 1] = new
          /\ \A i \in DOMAIN s : t[i] = s[i] /\ i < Len(s) + 1
      BY <1>1, <3>3, AppendFacts
    <3> QED
      BY <3>4 DEF new
  <2>4. /\ e \in Seq(Blocks) /\ Distinct(e) /\ Elements(e) = Elements(f[k]) \cup {b}
        /\ DOMAIN e = DOMAIN f[k] \cup {Len(f[k]) + 1} /\ e[Len(f[k]) + 1] = b
        /\ \A i \in DOMAIN f[k] : e[i] = f[k][i] /\ i < Len(f[k]) + 1
    BY <1>1, <2>1, AppendFacts
  <2> HIDE DEF t, e
  <2>5. \A c \in Keys : /\ Bucket(y, c) = IF BucketOf[c] = BucketOf[k] THEN t ELSE Bucket(x, c)
                        /\ g[c] = IF c = k THEN e ELSE f[c]
                        /\ BucketOf[c] = BucketOf[k] => Bucket(x, c) = s
    <3>1. /\ DOMAIN x.buckets = Buckets /\ DOMAIN f = Keys
          /\ \A c \in Keys : BucketOf[c] \in Buckets
      BY RadixAssumption DEF RadixType, FlatType
    <3>2. y.buckets = [x.buckets EXCEPT ![BucketOf[k]] = t]
      BY <2>2
    <3>3. \A c \in Keys : y.buckets[BucketOf[c]] =
                            IF BucketOf[c] = BucketOf[k] THEN t ELSE x.buckets[BucketOf[c]]
      BY <3>1, <3>2
    <3>4. \A c \in Keys : g[c] = IF c = k THEN e ELSE f[c]
      BY <2>2, <3>1
    <3> QED
      BY <3>3, <3>4 DEF Bucket
  <2>6. FlatKeys(g) = FlatKeys(f) \cup {k}
    <3>1. e # << >>
      <4>1. Elements(<< >>) = {}
        BY DEF Elements
      <4> QED
        BY <2>4, <4>1
    <3> QED
      BY <2>5, <3>1 DEF FlatKeys, FlatType
  <2>7. /\ IsFiniteSet(FlatKeys(g)) /\ FlatLen(f) \in Nat
        /\ FlatLen(g) = IF Holds(s, k) THEN FlatLen(f) ELSE FlatLen(f) + 1
    <3>1. Holds(s, k) <=> k \in FlatKeys(f)
      BY HoldsEntry DEF FlatKeys
    <3>2. IsFiniteSet(FlatKeys(f))
      BY DEF FlatType
    <3> QED
      BY <2>6, <3>1, <3>2, FS_AddElement, FS_CardinalityType DEF FlatLen
  <2>8. RadixType(y)
    <3>1. y.buckets \in [Buckets -> Seq(Keys \X Blocks)] /\ y.len \in Nat
      BY <1>1, <2>2, <2>3, <2>7 DEF RadixType
    <3>2. y = [buckets |-> y.buckets, len |-> y.len]
      BY <2>2
    <3>3. ASSUME NEW u \in Buckets
          PROVE  /\ Distinct(y.buckets[u])
                 /\ \A i \in DOMAIN y.buckets[u] : BucketOf[y.buckets[u][i][1]] = u
      <4>1. CASE u = BucketOf[k]
        <5>1. y.buckets[u] = t /\ x.buckets[u] = s
          BY <4>1, <2>2 DEF RadixType, Bucket
        <5>2. \A i \in DOMAIN t : BucketOf[t[i][1]] = u
          BY <2>3, <4>1, <5>1 DEF RadixType
        <5> QED
          BY <2>3, <5>1, <5>2
      <4>2. CASE u # BucketOf[k]
        <5>1. y.buckets[u] = x.buckets[u]
          BY <4>2, <2>2 DEF RadixType
        <5> QED
          BY <5>1 DEF RadixType
      <4> QED
        BY <4>1, <4>2
    <3> QED
      BY <3>1, <3>2, <3>3 DEF RadixType
  <2>9. FlatType(g)
    <3>1. g \in [Keys -> Seq(Blocks)]
      BY <2>2, <2>4 DEF FlatType
    <3>2. \A c \in Keys : Distinct(g[c])
      BY <2>4, <2>5 DEF FlatType
    <3> QED
      BY <2>7, <3>1, <3>2 DEF FlatType
  <2>10. SameBlocks(y, g)
    <3> SUFFICES ASSUME NEW c \in Keys, NEW d \in Blocks
                 PROVE  <<c, d>> \in Elements(Bucket(y, c)) <=> d \in Elements(g[c])
      BY DEF SameBlocks, RadixContains, FlatContains
    <3>1. <<c, d>> \in Elements(Bucket(x, c)) <=> d \in Elements(f[c])
      BY DEF SameBlocks, RadixContains, FlatContains
    <3>2. CASE c = k
      BY <2>3, <2>4, <2>5, <3>1, <3>2
    <3>3. CASE c # k
      BY <2>3, <2>5, <3>1, <3>3
    <3> QED
      BY <3>2, <3>3
  <2>11. SameOrder(y, g)
    <3> SUFFICES ASSUME NEW c \in Keys, NEW i \in DOMAIN g[c], NEW j \in DOMAIN g[c], i < j
                 PROVE  \E p, q \in DOMAIN Bucket(y, c) :
                          /\ p < q
                          /\ Bucket(y, c)[p] = <<c, g[c][i]>>
                          /\ Bucket(y, c)[q] = <<c, g[c][j]>>
      BY DEF SameOrder
    <3>1. ASSUME NEW p \in DOMAIN Bucket(x, c)
          PROVE  p \in DOMAIN Bucket(y, c) /\ Bucket(y, c)[p] = Bucket(x, c)[p]
      BY <2>3, <2>5
    <3>2. CASE i \in DOMAIN f[c] /\ j \in DOMAIN f[c]
      <4>1. g[c][i] = f[c][i] /\ g[c][j] = f[c][j]
        BY <2>4, <2>5, <3>2
      <4>2. PICK p, q \in DOMAIN Bucket(x, c) :
              p < q /\ Bucket(x, c)[p] = <<c, f[c][i]>> /\ Bucket(x, c)[q] = <<c, f[c][j]>>
        BY <3>2 DEF SameOrder
      <4> QED
        BY <3>1, <4>1, <4>2
    <3>3. CASE ~(i \in DOMAIN f[c] /\ j \in DOMAIN f[c])
      <4>1. c = k /\ DOMAIN g[c] = DOMAIN f[k] \cup {Len(f[k]) + 1}
        BY <2>4, <2>5, <3>3
      <4>2. i \in DOMAIN f[k] /\ j = Len(f[k]) + 1
        <5>1. Len(f[k]) \in Nat /\ DOMAIN f[k] = 1 .. Len(f[k])
          BY <1>1
        <5> QED
          BY <3>3, <4>1, <5>1
      <4>3. g[c][i] = f[k][i] /\ g[c][j] = b /\ f[k][i] \in Blocks
        <5>1. g[c] = e
          BY <2>5, <4>1
        <5>2. f[k][i] \in Blocks
          BY <1>1, <4>2
        <5> QED
          BY <2>4, <4>2, <5>1, <5>2
      <4>4. PICK p \in DOMAIN s : s[p] = <<k, f[k][i]>>
        BY <4>2, <4>3 DEF SameBlocks, RadixContains, FlatContains, Elements
      <4>5. Bucket(y, c) = t
        BY <2>5, <4>1
      <4> QED
        BY <2>3, <4>1, <4>3, <4>4, <4>5
    <3> QED
      BY <3>2, <3>3
  <2>12. y.len = FlatLen(g)
    BY <2>2, <2>7
  <2> QED
    BY <2>8, <2>9, <2>10, <2>11, <2>12
<1> QED
  BY <1>2, <1>3

\* A pop takes the pair out of its bucket and the block out of its entry.
LEMMA PopStands ==
  ASSUME NEW x, NEW f, StandsFor(x, f), NEW k \in Keys, NEW b \in Blocks
  PROVE  StandsFor(RadixPop(x, k, b), FlatPop(f, k, b))
<1> DEFINE s == Bucket(x, k)
           y == RadixPop(x, k, b)
           g == FlatPop(f, k, b)
           new == <<k, b>>
<1> USE DEF StandsFor
<1>1. /\ s \in Seq(Keys \X Blocks) /\ f[k] \in Seq(Blocks)
      /\ Distinct(s) /\ Distinct(f[k]) /\ BucketOf[k] \in Buckets
  BY RadixAssumption DEF RadixType, FlatType, Bucket
<1>2. CASE ~RadixContains(x, k, b)
  BY <1>2 DEF SameBlocks, RadixPop, FlatPop
<1>3. CASE RadixContains(x, k, b)
  <2> DEFINE at == Position(s, new)
             t == Removed(s, at)
             on == Position(f[k], b)
             e == Removed(f[k], on)
  <2>1. new \in Elements(s) /\ b \in Elements(f[k])
    BY <1>3 DEF SameBlocks, RadixContains, FlatContains
  <2>2. /\ y = [buckets |-> [x.buckets EXCEPT ![BucketOf[k]] = t],
                len |-> IF Holds(t, k) THEN x.len ELSE x.len - 1]
        /\ g = [f EXCEPT ![k] = e]
    BY <1>3, <2>1 DEF RadixPop, FlatPop, FlatContains, Bucket
  <2>3. at \in DOMAIN s /\ s[at] = new /\ on \in DOMAIN f[k] /\ f[k][on] = b
    <3> HIDE DEF s, new
    <3> QED
      BY <1>1, <2>1, PositionFinds
  <2>4. /\ t \in Seq(Keys \X Blocks) /\ Distinct(t) /\ Elements(t) = Elements(s) \ {new}
        /\ Survive(s, at, t)
    <3>1. t = Removed(s, at)
      OBVIOUS
    <3> HIDE DEF s, t, at, new
    <3>2. /\ t \in Seq(Keys \X Blocks) /\ Distinct(t) /\ Elements(t) = Elements(s) \ {s[at]}
          /\ Survive(s, at, t)
      BY <1>1, <2>3, <3>1, RemovedFacts
    <3> QED
      BY <2>3, <3>2
  <2>5. /\ e \in Seq(Blocks) /\ Distinct(e) /\ Elements(e) = Elements(f[k]) \ {b}
        /\ ComeFrom(e, f[k])
    <3>1. e = Removed(f[k], on)
      OBVIOUS
    <3> HIDE DEF e, on
    <3>2. /\ e \in Seq(Blocks) /\ Distinct(e) /\ Elements(e) = Elements(f[k]) \ {f[k][on]}
          /\ ComeFrom(e, f[k])
      BY <1>1, <2>3, <3>1, RemovedFacts
    <3> QED
      BY <2>3, <3>2
  <2> HIDE DEF t, e, at, on
  <2>6. \A c \in Keys : /\ Bucket(y, c) = IF BucketOf[c] = BucketOf[k] THEN t ELSE Bucket(x, c)
                        /\ g[c] = IF c = k THEN e ELSE f[c]
                        /\ BucketOf[c] = BucketOf[k] => Bucket(x, c) = s
    <3>1. /\ DOMAIN x.buckets = Buckets /\ DOMAIN f = Keys
          /\ \A c \in Keys : BucketOf[c] \in Buckets
      BY RadixAssumption DEF RadixType, FlatType
    <3>2. y.buckets = [x.buckets EXCEPT ![BucketOf[k]] = t]
      BY <2>2
    <3>3. \A c \in Keys : y.buckets[BucketOf[c]] =
                            IF BucketOf[c] = BucketOf[k] THEN t ELSE x.buckets[BucketOf[c]]
      BY <3>1, <3>2
    <3>4. \A c \in Keys : g[c] = IF c = k THEN e ELSE f[c]
      BY <2>2, <3>1
    <3> QED
      BY <3>3, <3>4 DEF Bucket
  <2>7. SameBlocks(y, g)
    <3> SUFFICES ASSUME NEW c \in Keys, NEW d \in Blocks
                 PROVE  <<c, d>> \in Elements(Bucket(y, c)) <=> d \in Elements(g[c])
      BY DEF SameBlocks, RadixContains, FlatContains
    <3>1. <<c, d>> \in Elements(Bucket(x, c)) <=> d \in Elements(f[c])
      BY DEF SameBlocks, RadixContains, FlatContains
    <3>2. CASE c = k
      BY <2>4, <2>5, <2>6, <3>1, <3>2
    <3>3. CASE c # k
      BY <2>4, <2>6, <3>1, <3>3
    <3> QED
      BY <3>2, <3>3
  <2>8. IsFiniteSet(FlatKeys(g)) /\ FlatLen(f) \in Nat \ {0}
        /\ FlatLen(g) = IF e # << >> THEN FlatLen(f) ELSE FlatLen(f) - 1
    <3>1. k \in FlatKeys(f) /\ IsFiniteSet(FlatKeys(f))
      <4>1. f[k] # << >>
        BY <2>3
      <4> QED
        BY <4>1 DEF FlatKeys, FlatType
    <3>2. FlatKeys(g) = IF e # << >> THEN FlatKeys(f) ELSE FlatKeys(f) \ {k}
      BY <2>6, <3>1 DEF FlatKeys
    <3>3. FlatLen(f) # 0
      BY <3>1, FS_EmptySet DEF FlatLen
    <3> QED
      BY <3>1, <3>2, <3>3, FS_RemoveElement, FS_CardinalityType DEF FlatLen
  <2>9. FlatType(g)
    <3>1. g \in [Keys -> Seq(Blocks)]
      BY <2>2, <2>5 DEF FlatType
    <3>2. \A c \in Keys : Distinct(g[c])
      BY <2>5, <2>6 DEF FlatType
    <3> QED
      BY <2>8, <3>1, <3>2 DEF FlatType
  <2>10. RadixType(y)
    <3>1. y.buckets \in [Buckets -> Seq(Keys \X Blocks)] /\ y.len \in Nat
      BY <1>1, <2>2, <2>4, <2>8 DEF RadixType
    <3>2. y = [buckets |-> y.buckets, len |-> y.len]
      BY <2>2
    <3>3. ASSUME NEW u \in Buckets
          PROVE  /\ Distinct(y.buckets[u])
                 /\ \A i \in DOMAIN y.buckets[u] : BucketOf[y.buckets[u][i][1]] = u
      <4>1. CASE u = BucketOf[k]
        <5>1. y.buckets[u] = t /\ x.buckets[u] = s
          BY <4>1, <2>2 DEF RadixType, Bucket
        <5>2. \A a \in Elements(s) : BucketOf[a[1]] = u
          BY <5>1 DEF RadixType, Elements
        <5>3. \A i \in DOMAIN t : t[i] \in Elements(s)
          BY <2>4 DEF Elements
        <5> QED
          BY <2>4, <5>1, <5>2, <5>3
      <4>2. CASE u # BucketOf[k]
        <5>1. y.buckets[u] = x.buckets[u]
          BY <4>2, <2>2 DEF RadixType
        <5> QED
          BY <5>1 DEF RadixType
      <4> QED
        BY <4>1, <4>2
    <3> QED
      BY <3>1, <3>2, <3>3 DEF RadixType
  <2>11. SameOrder(y, g)
    <3> SUFFICES ASSUME NEW c \in Keys, NEW i \in DOMAIN g[c], NEW j \in DOMAIN g[c], i < j
                 PROVE  \E u, v \in DOMAIN Bucket(y, c) :
                          /\ u < v
                          /\ Bucket(y, c)[u] = <<c, g[c][i]>>
                          /\ Bucket(y, c)[v] = <<c, g[c][j]>>
      BY DEF SameOrder
    <3>1. PICK m, n \in DOMAIN f[c] : m < n /\ g[c][i] = f[c][m] /\ g[c][j] = f[c][n]
      BY <2>5, <2>6 DEF ComeFrom
    <3>2. PICK p, q \in DOMAIN Bucket(x, c) :
            p < q /\ Bucket(x, c)[p] = <<c, g[c][i]>> /\ Bucket(x, c)[q] = <<c, g[c][j]>>
      BY <3>1 DEF SameOrder
    <3>3. c = k => g[c][i] # b /\ g[c][j] # b
      <4>1. c = k => g[c][i] \in Elements(e) /\ g[c][j] \in Elements(e)
        BY <2>6 DEF Elements
      <4> QED
        BY <2>5, <4>1
    <3>4. CASE BucketOf[c] = BucketOf[k]
      <4>1. Bucket(x, c) = s /\ Bucket(y, c) = t
        BY <2>6, <3>4
      <4>2. s[p] # new /\ s[q] # new
        BY <3>2, <3>3, <4>1
      <4> QED
        BY <2>3, <2>4, <3>2, <4>1, <4>2 DEF Survive
    <3>5. CASE BucketOf[c] # BucketOf[k]
      BY <2>6, <3>2, <3>5
    <3> QED
      BY <3>4, <3>5
  <2>12. y.len = FlatLen(g)
    <3>1. Holds(t, k) <=> e # << >>
      BY <2>6, <2>7, <2>9, <2>10, HoldsEntry
    <3> QED
      BY <2>2, <2>8, <3>1
  <2> QED
    BY <2>7, <2>9, <2>10, <2>11, <2>12
<1> QED
  BY <1>2, <1>3

(***************************************************************************)
(* What the flag rests on.                                                 *)
(***************************************************************************)

\* radix.rs: "Every operation returns exactly what the flat map returns".
\* A new radix index stands for the empty one, every insert and pop keeps it
\* standing for the flat index that was given the same call, and while it does
\* get_one_block, contain and len answer the same.
THEOREM RadixIsTheFlatIndex ==
  /\ StandsFor(RadixNew, FlatNew)
  /\ \A x, f : StandsFor(x, f) =>
       /\ x.len = FlatLen(f)
       /\ \A k \in Keys :
            /\ RadixGet(x, k) = FlatGet(f, k)
            /\ \A b \in Blocks :
                 /\ RadixContains(x, k, b) <=> FlatContains(f, k, b)
                 /\ StandsFor(RadixInsert(x, k, b), FlatInsert(f, k, b))
                 /\ StandsFor(RadixPop(x, k, b), FlatPop(f, k, b))
BY NewStands, GetAgrees, InsertStands, PopStands DEF StandsFor, SameBlocks

\* The journal saves the bucket of the hash and the count; putting them back
\* after an insert or a pop of any block under that hash gives the index back.
THEOREM SnapshotRestores ==
  ASSUME NEW x, RadixType(x), NEW k \in Keys, NEW b \in Blocks
  PROVE  /\ Restore(RadixInsert(x, k, b), k, Snapshot(x, k)) = x
         /\ Restore(RadixPop(x, k, b), k, Snapshot(x, k)) = x
<1>1. /\ BucketOf[k] \in Buckets /\ x.buckets \in [Buckets -> Seq(Keys \X Blocks)]
      /\ x = [buckets |-> x.buckets, len |-> x.len]
  BY RadixAssumption DEF RadixType
<1>2. ASSUME NEW y, NEW s, y.buckets = [x.buckets EXCEPT ![BucketOf[k]] = s]
      PROVE  Restore(y, k, Snapshot(x, k)) = x
  BY <1>1, <1>2 DEF Restore, Snapshot, Bucket
<1>3. Restore(x, k, Snapshot(x, k)) = x
  BY <1>1 DEF Restore, Snapshot, Bucket
<1> QED
  BY <1>2, <1>3 DEF RadixInsert, RadixPop

==============================================================================
