------------------------- MODULE ResidentTableProofs -------------------------
(***************************************************************************)
(* The queues of the step loop, the bounds on what it schedules, and the   *)
(* agreement of its two records.                                           *)
(***************************************************************************)
EXTENDS ResidentTable, SequenceTheorems, FiniteSetTheorems, WellFoundedInduction, TLAPS

------------------------------------------------------------------------------
(***************************************************************************)
(* Folds.  A fold is the value of a recursive function on the subsets of a *)
(* finite set; it exists, and what every step keeps its value has.         *)
(***************************************************************************)

\* Every non-empty set of naturals has a least element.
LEMMA LeastNatural ==
  ASSUME NEW T, T \subseteq Nat, T # {}
  PROVE  \E x \in T : \A y \in T : x <= y
<1> DEFINE R == OpToRel(<, Nat)
<1>0. IsWellFoundedOn(R, Nat)
  BY NatLessThanWellFounded
<1> HIDE DEF R
<1>1. PICK x \in T : \A y \in T : ~ (<<y, x>> \in R)
  BY <1>0, WFMin
<1>2. ASSUME NEW y \in T
      PROVE  x <= y
  <2>1. ~ (y < x)
    BY <1>1 DEF R, OpToRel
  <2> QED BY <2>1
<1> QED BY <1>2

\* Induction over the naturals up to n, for membership in a family of sets.
LEMMA Stays ==
  ASSUME NEW n \in Nat, NEW a, NEW S, a[0] \in S[0],
         \A k \in 1 .. n : a[k - 1] \in S[k - 1] => a[k] \in S[k]
  PROVE  \A k \in 0 .. n : a[k] \in S[k]
<1> DEFINE bad == {k \in 0 .. n : a[k] \notin S[k]}
<1> SUFFICES ASSUME bad # {} PROVE FALSE
  OBVIOUS
<1>1. PICK k \in bad : \A j \in bad : k <= j
  <2>1. bad \subseteq Nat
    OBVIOUS
  <2> HIDE DEF bad
  <2> QED BY <2>1, LeastNatural
<1>2. k # 0 /\ k \in 1 .. n /\ k - 1 \in 0 .. n
  OBVIOUS
<1>3. k - 1 \notin bad
  BY <1>1, <1>2
<1> QED BY <1>2, <1>3

\* One more of the subsets of D, by size.
UpTo(D, k) == {s \in SUBSET D : Cardinality(s) <= k}

LEMMA SubsetSizes ==
  ASSUME NEW D, IsFiniteSet(D), NEW s \in SUBSET D
  PROVE  /\ IsFiniteSet(s) /\ Cardinality(s) \in Nat /\ (Cardinality(s) = 0 <=> s = {})
         /\ Cardinality(s) <= Cardinality(D)
         /\ \A x \in s : s \ {x} \in SUBSET D /\ Cardinality(s \ {x}) = Cardinality(s) - 1
<1>1. IsFiniteSet(s) /\ Cardinality(s) <= Cardinality(D)
  BY FS_Subset
<1>2. Cardinality(s) \in Nat /\ (Cardinality(s) = 0 <=> s = {})
  BY <1>1, FS_CardinalityType, FS_EmptySet
<1>3. \A x \in s : Cardinality(s \ {x}) = Cardinality(s) - 1
  BY <1>1, FS_RemoveElement
<1> QED BY <1>1, <1>2, <1>3

\* g is the fold of step over the subsets of C, with the elements picked.
IsFold(g, C, base, pick, step) ==
  g = [s \in C |-> IF s = {} THEN base ELSE step[<<pick[s], g[s \ {pick[s]}]>>]]

\* pick has an element of each, and step stays in U.
Picks(pick, D) == \A s \in SUBSET D : s # {} => pick[s] \in s
Closed(step, D, U) == \A x \in D : \A u \in U : step[<<x, u>>] \in U
HasFold(D, U, base, pick, step) ==
  \E g \in [SUBSET D -> U] : IsFold(g, SUBSET D, base, pick, step)

LEMMA FoldExists ==
  ASSUME NEW D, IsFiniteSet(D), NEW U, NEW base \in U, NEW pick, NEW step,
         Picks(pick, D), Closed(step, D, U)
  PROVE  HasFold(D, U, base, pick, step)
<1> SUFFICES \E g \in [SUBSET D -> U] : IsFold(g, SUBSET D, base, pick, step)
  BY DEF HasFold
<1> USE DEF Picks, Closed
<1> DEFINE C(k)  == UpTo(D, k)
           Ok(k) == \E g \in [C(k) -> U] : IsFold(g, C(k), base, pick, step)
           bad   == {k \in Nat : ~Ok(k)}
<1>1. Ok(0)
  <2> DEFINE g == [s \in C(0) |-> base]
  <2>1. C(0) = {{}}
    BY SubsetSizes, FS_EmptySet DEF UpTo
  <2>2. g \in [C(0) -> U] /\ IsFold(g, C(0), base, pick, step)
    BY <2>1 DEF IsFold
  <2> QED BY <2>2
<1>2. ASSUME NEW k \in Nat, Ok(k)
      PROVE  Ok(k + 1)
  <2>1. PICK f \in [C(k) -> U] : IsFold(f, C(k), base, pick, step)
    BY <1>2
  <2> DEFINE g == [s \in C(k + 1) |->
                     IF s = {} THEN base ELSE step[<<pick[s], f[s \ {pick[s]}]>>]]
  <2>2. \A s \in C(k + 1) : s # {} => s \ {pick[s]} \in C(k) /\ pick[s] \in D
    BY SubsetSizes DEF UpTo
  <2>3. g \in [C(k + 1) -> U]
    BY <2>2
  <2>4. \A s \in C(k) : s \in C(k + 1) /\ g[s] = f[s]
    <3>1. \A s \in C(k) : s \in C(k + 1)
      BY SubsetSizes DEF UpTo
    <3> QED BY <2>1, <3>1 DEF IsFold
  <2>5. IsFold(g, C(k + 1), base, pick, step)
    BY <2>2, <2>4 DEF IsFold
  <2> QED BY <2>3, <2>5
<1>3. \A k \in Nat : Ok(k)
  <2> SUFFICES ASSUME bad # {} PROVE FALSE
    OBVIOUS
  <2>1. PICK k \in bad : \A j \in bad : k <= j
    <3>1. bad \subseteq Nat
      OBVIOUS
    <3> HIDE DEF bad
    <3> QED BY <3>1, LeastNatural
  <2>2. k # 0 /\ k - 1 \in Nat /\ k = (k - 1) + 1
    BY <1>1, <2>1
  <2>3. Ok(k - 1)
    BY <2>1, <2>2
  <2> HIDE DEF Ok
  <2>4. Ok((k - 1) + 1)
    BY <1>2, <2>2, <2>3
  <2> QED BY <2>1, <2>2, <2>4
<1>4. C(Cardinality(D)) = SUBSET D /\ Cardinality(D) \in Nat
  BY SubsetSizes, FS_CardinalityType DEF UpTo
<1>5. Ok(Cardinality(D))
  <2> HIDE DEF Ok
  <2> QED BY <1>3, <1>4
<1>6. PICK g \in [C(Cardinality(D)) -> U] : IsFold(g, C(Cardinality(D)), base, pick, step)
  BY <1>5
<1> HIDE DEF C
<1> QED BY <1>4, <1>6

\* Induction over the subsets of a finite set.
LEMMA SmallestSet ==
  ASSUME NEW D, IsFiniteSet(D), NEW B, B \subseteq SUBSET D, B # {}
  PROVE  \E s \in B : \A x \in s : s \ {x} \notin B
<1> DEFINE sizes == {Cardinality(s) : s \in B}
<1>1. sizes \subseteq Nat /\ sizes # {}
  BY SubsetSizes
<1> HIDE DEF sizes
<1>2. PICK n \in sizes : \A m \in sizes : n <= m
  BY <1>1, LeastNatural
<1>3. PICK s \in B : Cardinality(s) = n
  BY <1>2 DEF sizes
<1>4. ASSUME NEW x \in s, s \ {x} \in B PROVE FALSE
  <2>1. Cardinality(s \ {x}) = n - 1 /\ n \in Nat
    BY <1>1, <1>2, <1>3, SubsetSizes
  <2>2. n - 1 \in sizes
    BY <1>4, <2>1 DEF sizes
  <2> QED BY <1>2, <2>1, <2>2
<1> QED BY <1>4

------------------------------------------------------------------------------
(* Sums.                                                                     *)

IsTotal(g, f, D) ==
  g = [s \in SUBSET D |-> IF s = {} THEN 0
                          ELSE LET x == CHOOSE x \in s : TRUE IN f[x] + g[s \ {x}]]
Total(f, D) == CHOOSE g : IsTotal(g, f, D)

\* Some element of s is added to the sum of the others.
Peels(g, f, D) == \A s \in SUBSET D : s # {} => \E x \in s : g[s] = f[x] + g[s \ {x}]

\* The sum of f over the subsets of its domain, one element after the other.
LEMMA TotalFacts ==
  ASSUME NEW D, IsFiniteSet(D), NEW f \in [D -> Int]
  PROVE  /\ Total(f, D) \in [SUBSET D -> Int] /\ Total(f, D)[{}] = 0
         /\ Peels(Total(f, D), f, D)
         /\ SumFunction(f) = Total(f, D)[D]
<1> DEFINE pick == [s \in SUBSET D |-> CHOOSE x \in s : TRUE]
           step == [z \in D \X Int |-> f[z[1]] + z[2]]
<1>1. \A s \in SUBSET D : s # {} => pick[s] \in s
  OBVIOUS
<1>2. \A x \in D, u \in Int : step[<<x, u>>] \in Int /\ step[<<x, u>>] = f[x] + u
  OBVIOUS
<1>3. PICK g \in [SUBSET D -> Int] : IsFold(g, SUBSET D, 0, pick, step)
  <2>1. \A x \in D, u \in Int : step[<<x, u>>] \in Int
    BY <1>2
  <2> DEFINE U == Int
             base == 0
  <2>2. base \in U
    OBVIOUS
  <2>3. \A x \in D, u \in U : step[<<x, u>>] \in U
    BY <2>1
  <2> HIDE DEF pick, step, U, base
  <2>4. \E g \in [SUBSET D -> U] : IsFold(g, SUBSET D, base, pick, step)
    <3>1. Picks(pick, D)
      BY <1>1 DEF Picks
    <3>2. Closed(step, D, U)
      BY <2>3 DEF Closed
    <3>3. HasFold(D, U, base, pick, step)
      BY <2>2, <3>1, <3>2, FoldExists
    <3> QED BY <3>3 DEF HasFold
  <2> QED BY <2>4 DEF U, base
<1>4. \A s \in SUBSET D : s # {} =>
         step[<<pick[s], g[s \ {pick[s]}]>>] = f[pick[s]] + g[s \ {pick[s]}]
  <2> HIDE DEF step
  <2> QED BY <1>1, <1>2
<1>5. IsTotal(g, f, D)
  <2>1. g = [s \in SUBSET D |-> IF s = {} THEN 0 ELSE f[pick[s]] + g[s \ {pick[s]}]]
    <3> HIDE DEF step, pick
    <3> QED BY <1>3, <1>4 DEF IsFold
  <2> QED BY <2>1 DEF IsTotal
<1>6. IsTotal(Total(f, D), f, D)
  BY <1>5 DEF Total
<1>7. SumFunction(f) = Total(f, D)[D]
  BY DEF SumFunction, SumFunctionOnSet, FoldFunctionOnSet, MapThenFoldSet, Total, IsTotal
<1> DEFINE h == Total(f, D)
<1> HIDE DEF h
<1>8. /\ DOMAIN h = SUBSET D /\ h[{}] = 0
      /\ \A s \in SUBSET D : s # {} =>
           LET x == CHOOSE x \in s : TRUE IN h[s] = f[x] + h[s \ {x}]
      /\ h = [s \in SUBSET D |-> h[s]]
  <2>1. IsTotal(h, f, D)
    BY <1>6 DEF h
  <2> QED BY <2>1 DEF IsTotal
<1>e. \A s \in SUBSET D : s # {} => \E x \in s : h[s] = f[x] + h[s \ {x}]
  <2> TAKE s \in SUBSET D
  <2> HAVE s # {}
  <2> DEFINE x == CHOOSE x \in s : TRUE
  <2>1. x \in s
    OBVIOUS
  <2>2. h[s] = f[x] + h[s \ {x}]
    BY <1>8
  <2> QED BY <2>1, <2>2
<1>z. h[{}] = 0 /\ h = [s \in SUBSET D |-> h[s]]
  BY <1>8
<1>9. \A s \in SUBSET D : h[s] \in Int
  <2> DEFINE bad == {s \in SUBSET D : h[s] \notin Int}
  <2> SUFFICES ASSUME bad # {} PROVE FALSE
    OBVIOUS
  <2>1. PICK s \in bad : \A x \in s : s \ {x} \notin bad
    <3>1. bad \subseteq SUBSET D
      OBVIOUS
    <3> HIDE DEF bad
    <3> QED BY <3>1, SmallestSet
  <2>2. s # {}
    <3>1. h[s] \notin Int
      OBVIOUS
    <3>2. h[{}] = 0
      BY <1>z
    <3>3. h[{}] \in Int
      BY <3>2
    <3> QED BY <3>1, <3>3
  <2>3. PICK x \in s : h[s] = f[x] + h[s \ {x}]
    BY <1>e, <2>2
  <2>4. h[s \ {x}] \in Int /\ f[x] \in Int
    BY <2>1
  <2> QED BY <2>3, <2>4
<1>10. h \in [SUBSET D -> Int]
  BY <1>z, <1>9
<1> QED BY <1>7, <1>z, <1>10, <1>e DEF h, Peels

\* The order does not matter.
LEMMA AnyOrder ==
  ASSUME NEW D, IsFiniteSet(D), NEW f \in [D -> Int], NEW s \in SUBSET D, NEW x \in s
  PROVE  Total(f, D)[s] = f[x] + Total(f, D)[s \ {x}]
<1> DEFINE h == Total(f, D)
           bad == {t \in SUBSET D : \E y \in t : h[t] # f[y] + h[t \ {y}]}
<1>1. h \in [SUBSET D -> Int] /\ \A t \in SUBSET D : t # {} => \E y \in t : h[t] = f[y] + h[t \ {y}]
  <2> HIDE DEF bad
  <2>1. /\ Total(f, D) \in [SUBSET D -> Int]
    BY TotalFacts
  <2>2. Peels(Total(f, D), f, D)
    BY TotalFacts
  <2> QED BY <2>1, <2>2 DEF Peels
<1> HIDE DEF h
<1> SUFFICES ASSUME bad # {} PROVE FALSE
  BY DEF h
<1>2. PICK t \in bad : \A y \in t : t \ {y} \notin bad
  <2>1. bad \subseteq SUBSET D
    OBVIOUS
  <2> HIDE DEF bad
  <2> QED BY <2>1, SmallestSet
<1>3. PICK y \in t : h[t] # f[y] + h[t \ {y}]
  OBVIOUS
<1>4. PICK z \in t : h[t] = f[z] + h[t \ {z}]
  BY <1>1
<1>5. y # z
  BY <1>3, <1>4
<1>6. h[t \ {z}] = f[y] + h[(t \ {z}) \ {y}]
  BY <1>2, <1>5
<1>7. h[t \ {y}] = f[z] + h[(t \ {y}) \ {z}]
  BY <1>2, <1>5
<1>8. (t \ {y}) \ {z} = (t \ {z}) \ {y}
  OBVIOUS
<1>9. f[y] \in Int /\ f[z] \in Int /\ h[(t \ {z}) \ {y}] \in Int
  BY <1>1
<1> DEFINE rest == h[(t \ {z}) \ {y}]
<1>10. h[t] = f[z] + (f[y] + rest) /\ h[t \ {y}] = f[z] + rest
  BY <1>4, <1>6, <1>7, <1>8
<1> HIDE DEF rest
<1>11. f[y] \in Int /\ f[z] \in Int /\ rest \in Int
  BY <1>9 DEF rest
<1>12. f[z] + (f[y] + rest) = f[y] + (f[z] + rest)
  BY <1>11
<1> QED BY <1>3, <1>10, <1>12

\* What is at most as large everywhere sums up to at most as much.
LEMMA SumMonotone ==
  ASSUME NEW D, IsFiniteSet(D), NEW f \in [D -> Int], NEW g \in [D -> Int], NEW s \in SUBSET D,
         \A x \in s : f[x] <= g[x]
  PROVE  Total(f, D)[s] <= Total(g, D)[s]
<1> DEFINE bad == {t \in SUBSET s : ~(Total(f, D)[t] <= Total(g, D)[t])}
<1> SUFFICES ASSUME bad # {} PROVE FALSE
  OBVIOUS
<1>1. PICK t \in bad : \A y \in t : t \ {y} \notin bad
  <2>1. bad \subseteq SUBSET D
    OBVIOUS
  <2> HIDE DEF bad
  <2> QED BY <2>1, SmallestSet
<1>2. /\ Total(f, D) \in [SUBSET D -> Int] /\ Total(f, D)[{}] = 0
      /\ Total(g, D) \in [SUBSET D -> Int] /\ Total(g, D)[{}] = 0
  BY TotalFacts
<1>3. t # {}
  <2>1. CASE t = {}
    <3>1. Total(f, D)[t] = 0 /\ Total(g, D)[t] = 0
      BY <1>2, <2>1
    <3> QED BY <3>1
  <2> QED BY <2>1
<1>4. PICK x \in t : TRUE
  BY <1>3
<1>5. Total(f, D)[t] = f[x] + Total(f, D)[t \ {x}] /\ Total(g, D)[t] = g[x] + Total(g, D)[t \ {x}]
  <2>1. t \in SUBSET D
    OBVIOUS
  <2> HIDE DEF bad
  <2>2. Total(f, D)[t] = f[x] + Total(f, D)[t \ {x}]
    BY <1>4, <2>1, AnyOrder
  <2>3. Total(g, D)[t] = g[x] + Total(g, D)[t \ {x}]
    BY <1>4, <2>1, AnyOrder
  <2> QED BY <2>2, <2>3
<1>6. Total(f, D)[t \ {x}] <= Total(g, D)[t \ {x}]
  BY <1>1
<1>7. /\ Total(f, D)[t \ {x}] \in Int /\ Total(g, D)[t \ {x}] \in Int
      /\ f[x] \in Int /\ g[x] \in Int /\ f[x] <= g[x]
  BY <1>2
<1>8. ~(Total(f, D)[t] <= Total(g, D)[t])
  OBVIOUS
<1> QED BY <1>5, <1>6, <1>7, <1>8

\* Of a function into the naturals, and of one changed at one place.
LEMMA SumFacts ==
  ASSUME NEW D, IsFiniteSet(D), NEW f \in [D -> Nat]
  PROVE  /\ SumFunction(f) \in Nat
         /\ \A r \in D : f[r] <= SumFunction(f)
         /\ (\A r \in D : f[r] = 0) => SumFunction(f) = 0
         /\ \A g \in [D -> Nat] : (\A r \in D : g[r] <= f[r]) => SumFunction(g) <= SumFunction(f)
         /\ \A r \in D, v \in Nat :
              SumFunction([f EXCEPT ![r] = v]) = SumFunction(f) - f[r] + v
<1> DEFINE zero == [r \in D |-> 0]
<1>a. zero \in [D -> Int] /\ f \in [D -> Int]
  OBVIOUS
<1>b. /\ Total(f, D) \in [SUBSET D -> Int] /\ Total(f, D)[D] = SumFunction(f)
      /\ Total(zero, D) \in [SUBSET D -> Int] /\ Total(zero, D)[{}] = 0
  BY <1>a, TotalFacts
<1>1. \A s \in SUBSET D : Total(zero, D)[s] = 0
  <2> DEFINE bad == {t \in SUBSET D : Total(zero, D)[t] # 0}
  <2> SUFFICES ASSUME bad # {} PROVE FALSE
    OBVIOUS
  <2>1. PICK t \in bad : \A y \in t : t \ {y} \notin bad
    <3>1. bad \subseteq SUBSET D
      OBVIOUS
    <3> HIDE DEF bad
    <3> QED BY <3>1, SmallestSet
  <2>2. PICK x \in t : TRUE
    BY <1>b
  <2>3. Total(zero, D)[t] = zero[x] + Total(zero, D)[t \ {x}]
    BY <1>a, AnyOrder
  <2>4. Total(zero, D)[t \ {x}] = 0 /\ zero[x] = 0
    BY <2>1
  <2> HIDE DEF zero
  <2> QED BY <2>3, <2>4
<1>2. \A s \in SUBSET D : Total(f, D)[s] >= 0 /\ Total(f, D)[s] \in Nat
  <2> TAKE s \in SUBSET D
  <2>1. \A x \in s : zero[x] <= f[x]
    OBVIOUS
  <2>2. Total(zero, D)[s] <= Total(f, D)[s]
    <3> HIDE DEF zero
    <3> QED BY <1>a, <2>1, SumMonotone
  <2> HIDE DEF zero
  <2> QED BY <1>1, <1>b, <2>2
<1>3. ASSUME NEW r \in D PROVE f[r] <= SumFunction(f)
  <2>1. Total(f, D)[D] = f[r] + Total(f, D)[D \ {r}]
    BY <1>a, AnyOrder
  <2> QED BY <1>2, <1>b, <2>1
<1>4. ASSUME \A r \in D : f[r] = 0 PROVE SumFunction(f) = 0
  <2>1. f = zero
    BY <1>4
  <2> HIDE DEF zero
  <2> QED BY <1>1, <1>b, <2>1
<1>5. ASSUME NEW g \in [D -> Nat], \A r \in D : g[r] <= f[r] PROVE SumFunction(g) <= SumFunction(f)
  <2>1. g \in [D -> Int]
    OBVIOUS
  <2>2. Total(g, D)[D] = SumFunction(g)
    BY <2>1, TotalFacts
  <2> QED BY <1>a, <1>b, <1>5, <2>1, <2>2, SumMonotone
<1>6. ASSUME NEW r \in D, NEW v \in Nat
      PROVE  SumFunction([f EXCEPT ![r] = v]) = SumFunction(f) - f[r] + v
  <2> DEFINE g == [f EXCEPT ![r] = v]
  <2>1. g \in [D -> Int] /\ g[r] = v /\ \A x \in D \ {r} : g[x] = f[x]
    OBVIOUS
  <2> HIDE DEF g
  <2>2. /\ Total(g, D)[D] = SumFunction(g) /\ Total(g, D) \in [SUBSET D -> Int]
    BY <2>1, TotalFacts
  <2>a. Total(f, D)[D] = f[r] + Total(f, D)[D \ {r}]
    BY <1>a, AnyOrder
  <2>b. Total(g, D)[D] = g[r] + Total(g, D)[D \ {r}]
    BY <2>1, AnyOrder
  <2>3. \A x \in D \ {r} : f[x] <= g[x] /\ g[x] <= f[x]
    BY <2>1
  <2>4. D \ {r} \in SUBSET D
    OBVIOUS
  <2>5. Total(f, D)[D \ {r}] <= Total(g, D)[D \ {r}]
    BY <1>a, <2>1, <2>3, <2>4, SumMonotone
  <2>6. Total(g, D)[D \ {r}] <= Total(f, D)[D \ {r}]
    BY <1>a, <2>1, <2>3, <2>4, SumMonotone
  <2>7. Total(f, D)[D \ {r}] \in Int /\ Total(g, D)[D \ {r}] \in Int /\ f[r] \in Nat
    BY <1>b, <2>2, <2>4
  <2>8. SumFunction(g) = SumFunction(f) - f[r] + v
    BY <1>b, <2>1, <2>2, <2>a, <2>b, <2>5, <2>6, <2>7
  <2> QED BY <2>8 DEF g
<1> QED BY <1>2, <1>b, <1>3, <1>4, <1>5, <1>6

------------------------------------------------------------------------------
(* Numbers                                                                   *)

LEMMA Pairs ==
  ASSUME NEW a \in Int, NEW b \in Int
  PROVE  /\ Max({a, b}) \in Int /\ Max({a, b}) = (IF a >= b THEN a ELSE b)
         /\ Min({a, b}) \in Int /\ Min({a, b}) = (IF a <= b THEN a ELSE b)
<1> DEFINE big == IF a >= b THEN a ELSE b
           small == IF a <= b THEN a ELSE b
<1>1. big \in {a, b} /\ \A y \in {a, b} : big >= y
  OBVIOUS
<1>2. Max({a, b}) \in {a, b} /\ \A y \in {a, b} : Max({a, b}) >= y
  BY <1>1 DEF Max
<1>3. small \in {a, b} /\ \A y \in {a, b} : small <= y
  OBVIOUS
<1>4. Min({a, b}) \in {a, b} /\ \A y \in {a, b} : Min({a, b}) <= y
  BY <1>3 DEF Min
<1> QED BY <1>2, <1>4

LEMMA Triples ==
  ASSUME NEW a \in Int, NEW b \in Int, NEW c \in Int
  PROVE  /\ Min({a, b, c}) \in {a, b, c}
         /\ Min({a, b, c}) <= a /\ Min({a, b, c}) <= b /\ Min({a, b, c}) <= c
<1> DEFINE ab == IF a <= b THEN a ELSE b
           small == IF ab <= c THEN ab ELSE c
<1>1. small \in {a, b, c} /\ \A y \in {a, b, c} : small <= y
  OBVIOUS
<1>2. Min({a, b, c}) \in {a, b, c} /\ \A y \in {a, b, c} : Min({a, b, c}) <= y
  BY <1>1 DEF Min
<1> QED BY <1>2

LEMMA MinusFacts ==
  ASSUME NEW a \in Int, NEW b \in Int
  PROVE  Minus(a, b) \in Nat /\ Minus(a, b) = (IF a >= b THEN a - b ELSE 0)
<1>1. Max({a - b, 0}) = (IF a - b >= 0 THEN a - b ELSE 0)
  BY Pairs
<1> QED BY <1>1 DEF Minus

\* The least element of a set of naturals.
LEMMA MinOf ==
  ASSUME NEW S, S \subseteq Nat, S # {}
  PROVE  Min(S) \in S /\ \A y \in S : Min(S) <= y
<1>1. PICK x \in S : \A y \in S : x <= y
  BY LeastNatural
<1> QED BY <1>1 DEF Min

\* The last position of a non-empty set of positions.
LEMMA MaxOf ==
  ASSUME NEW n \in Nat, NEW s \in SUBSET (1 .. n), s # {}
  PROVE  Max(s) \in s /\ \A y \in s : Max(s) >= y
<1> DEFINE T == {n - x : x \in s}
<1>1. T \subseteq Nat /\ T # {}
  <2>1. \A x \in s : n - x \in Nat
    OBVIOUS
  <2> QED BY <2>1
<1> HIDE DEF T
<1>2. PICK t \in T : \A u \in T : t <= u
  BY <1>1, LeastNatural
<1>3. PICK x \in s : t = n - x
  BY <1>2 DEF T
<1>4. ASSUME NEW y \in s PROVE x >= y
  <2>1. n - y \in T
    BY DEF T
  <2>2. n - x <= n - y /\ x \in Nat /\ y \in Nat
    BY <1>2, <1>3, <2>1
  <2> QED BY <2>2
<1> QED BY <1>4 DEF Max

LEMMA MaxUpTo ==
  ASSUME NEW n \in Nat, NEW k \in 1 .. n
  PROVE  /\ 1 .. k \in SUBSET (1 .. n) /\ 1 .. k # {} /\ Max(1 .. k) = k
         /\ (1 .. k) \ {k} = 1 .. k - 1
<1>1. 1 .. k \in SUBSET (1 .. k) /\ 1 .. k # {} /\ k \in Nat /\ k \in 1 .. k
  OBVIOUS
<1>2. Max(1 .. k) \in 1 .. k /\ \A y \in 1 .. k : Max(1 .. k) >= y
  BY <1>1, MaxOf
<1>3. Max(1 .. k) = k
  BY <1>1, <1>2
<1> QED BY <1>3

LEMMA DivBounds ==
  ASSUME NEW n \in Nat, NEW b \in Nat \ {0}
  PROVE  /\ n \div b \in Nat /\ (n \div b) * b <= n /\ n < (n \div b) * b + b
  BY SMT

\* Ordering of multiples.
LEMMA Multiples ==
  ASSUME NEW x \in Int, NEW y \in Int, NEW b \in Nat \ {0}
  PROVE  /\ x * b \in Int /\ y * b \in Int
         /\ x * b < y * b => x < y /\ x * b + b <= y * b
         /\ x <= y => x * b <= y * b
<1>1. x * b \in Int /\ y * b \in Int
  OBVIOUS
<1>2. x <= y => x * b <= y * b
  BY SMT
<1>3. x >= y => x * b >= y * b
  BY SMT
<1>4. x + 1 <= y => (x + 1) * b <= y * b
  BY SMT
<1>5. (x + 1) * b = x * b + b
  BY SMT
<1> QED BY <1>1, <1>2, <1>3, <1>4, <1>5

\* Tokens that stay in the block of the first of them are in the blocks that
\* hold it.
LEMMA SameBlock ==
  ASSUME NEW c \in Nat, NEW m \in Nat \ {0}, NEW b \in Nat \ {0}, NEW h \in Nat,
         (c % b) + m <= b, c < h * b
  PROVE  c + m <= h * b
<1> DEFINE j == m - 1
<1>1. j \in Nat /\ (c % b) + j < b /\ c + j \in Nat /\ m = j + 1
  OBVIOUS
<1> HIDE DEF j
<1>2. (c + j) \div b = c \div b
  BY <1>1
<1> DEFINE q == c \div b
<1>3. q \in Nat /\ q * b <= c /\ c + j < q * b + b
  BY <1>1, <1>2, DivBounds
<1> HIDE DEF q
<1>4. q * b \in Int /\ h * b \in Int /\ (q * b < h * b => q * b + b <= h * b)
  BY <1>3, Multiples
<1>5. q * b < h * b
  BY <1>3, <1>4
<1> QED BY <1>1, <1>3, <1>4, <1>5

LEMMA CeilFacts ==
  ASSUME NEW t \in Nat
  PROVE  BlocksFor(t) \in Nat /\ t <= BlocksFor(t) * BlockSize
<1> DEFINE n == t + BlockSize - 1
<1>1. BlockSize \in Nat \ {0}
  BY LoopAssumption DEF LoopAssumption
<1>2. n \in Nat /\ t = n - (BlockSize - 1)
  BY <1>1
<1> HIDE DEF n
<1>3. n \div BlockSize \in Nat /\ n < (n \div BlockSize) * BlockSize + BlockSize
  BY <1>1, <1>2, DivBounds
<1> DEFINE q == n \div BlockSize
<1>4. q * BlockSize \in Int
  BY <1>1, <1>3
<1> HIDE DEF q
<1>5. t <= q * BlockSize
  BY <1>1, <1>2, <1>3, <1>4 DEF q
<1> QED BY <1>3, <1>5 DEF BlocksFor, q, n

------------------------------------------------------------------------------
(* Queues                                                                    *)

Sorted(s) == \A i, j \in DOMAIN s : i < j => s[i] < s[j]

LEMMA SetOf ==
  ASSUME NEW X, NEW s \in Seq(X)
  PROVE  /\ ToSet(s) \in SUBSET X
         /\ \A x : x \in ToSet(s) <=> \E i \in 1 .. Len(s) : s[i] = x
<1>1. DOMAIN s = 1 .. Len(s) /\ \A i \in 1 .. Len(s) : s[i] \in X
  OBVIOUS
<1> QED BY <1>1 DEF ToSet

LEMMA SetOfConcat ==
  ASSUME NEW X, NEW s \in Seq(X), NEW t \in Seq(X)
  PROVE  ToSet(s \o t) = ToSet(s) \cup ToSet(t)
<1>1. /\ s \o t \in Seq(X) /\ Len(s \o t) = Len(s) + Len(t) /\ Len(s) \in Nat /\ Len(t) \in Nat
      /\ \A i \in 1 .. Len(s) + Len(t) : (s \o t)[i] = IF i <= Len(s) THEN s[i] ELSE t[i - Len(s)]
  BY ConcatProperties
<1>2. ASSUME NEW x \in ToSet(s \o t) PROVE x \in ToSet(s) \cup ToSet(t)
  <2>1. PICK i \in 1 .. Len(s) + Len(t) : (s \o t)[i] = x
    BY <1>1, SetOf
  <2>2. CASE i <= Len(s)
    <3>1. i \in 1 .. Len(s) /\ s[i] = x
      BY <1>1, <2>1, <2>2
    <3> QED BY <3>1, SetOf
  <2>3. CASE ~ (i <= Len(s))
    <3>1. i - Len(s) \in 1 .. Len(t) /\ t[i - Len(s)] = x
      BY <1>1, <2>1, <2>3
    <3> QED BY <3>1, SetOf
  <2> QED BY <2>2, <2>3
<1>3. ASSUME NEW x \in ToSet(s) PROVE x \in ToSet(s \o t)
  <2>1. PICK i \in 1 .. Len(s) : s[i] = x
    BY SetOf
  <2>2. i \in 1 .. Len(s \o t) /\ (s \o t)[i] = x
    BY <1>1, <2>1
  <2> QED BY <1>1, <2>2, SetOf
<1>4. ASSUME NEW x \in ToSet(t) PROVE x \in ToSet(s \o t)
  <2>1. PICK i \in 1 .. Len(t) : t[i] = x
    BY SetOf
  <2>2. i + Len(s) \in 1 .. Len(s \o t) /\ (s \o t)[i + Len(s)] = x
    BY <1>1, <2>1
  <2> QED BY <1>1, <2>2, SetOf
<1> QED BY <1>2, <1>3, <1>4

LEMMA ReverseFacts ==
  ASSUME NEW X, NEW s \in Seq(X)
  PROVE  /\ Reverse(s) \in Seq(X) /\ Len(Reverse(s)) = Len(s)
         /\ \A i \in 1 .. Len(s) : Reverse(s)[i] = s[Len(s) - i + 1]
         /\ Reverse(Reverse(s)) = s /\ ToSet(Reverse(s)) = ToSet(s)
         /\ Reverse(s) = <<>> <=> s = <<>>
<1>1. Len(s) \in Nat /\ \A i \in 1 .. Len(s) : Len(s) - i + 1 \in 1 .. Len(s)
  OBVIOUS
<1>2. \A i \in 1 .. Len(s) : s[Len(s) - i + 1] \in X
  BY <1>1
<1>3. /\ Reverse(s) \in Seq(X) /\ Len(Reverse(s)) = Len(s)
      /\ \A i \in 1 .. Len(s) : Reverse(s)[i] = s[Len(s) - i + 1]
  BY <1>1, <1>2 DEF Reverse
<1> DEFINE t == Reverse(s)
<1> HIDE DEF t
<1>4. t \in Seq(X) /\ Len(t) = Len(s) /\ \A i \in 1 .. Len(s) : t[i] = s[Len(s) - i + 1]
  BY <1>3 DEF t
<1>5. Reverse(t) \in Seq(X) /\ Len(Reverse(t)) = Len(s)
  BY <1>1, <1>4 DEF Reverse
<1>6. \A i \in 1 .. Len(s) : Reverse(t)[i] = t[Len(s) - i + 1]
  BY <1>1, <1>4 DEF Reverse
<1>7. \A i \in 1 .. Len(s) : Reverse(t)[i] = s[i]
  <2> TAKE i \in 1 .. Len(s)
  <2> DEFINE j == Len(s) - i + 1
  <2>1. j \in 1 .. Len(s) /\ Len(s) - j + 1 = i
    BY <1>1
  <2> HIDE DEF j
  <2>2. t[j] = s[Len(s) - j + 1] /\ Reverse(t)[i] = t[j]
    BY <1>4, <1>6, <2>1 DEF j
  <2> QED BY <2>1, <2>2
<1>8. Reverse(t) = s
  BY <1>5, <1>7, SeqEqual
<1>9. \A x : x \in ToSet(t) <=> x \in ToSet(s)
  <2> TAKE x
  <2>1. (x \in ToSet(t) <=> \E i \in 1 .. Len(s) : t[i] = x)
        /\ (x \in ToSet(s) <=> \E i \in 1 .. Len(s) : s[i] = x)
    BY <1>4, SetOf
  <2>2. ASSUME NEW i \in 1 .. Len(s), t[i] = x PROVE \E j \in 1 .. Len(s) : s[j] = x
    BY <1>1, <1>4, <2>2
  <2>3. ASSUME NEW i \in 1 .. Len(s), s[i] = x PROVE \E j \in 1 .. Len(s) : t[j] = x
    <3> DEFINE j == Len(s) - i + 1
    <3>1. j \in 1 .. Len(s) /\ Len(s) - j + 1 = i
      BY <1>1
    <3> HIDE DEF j
    <3>2. t[j] = x
      BY <1>4, <2>3, <3>1
    <3> QED BY <3>1, <3>2
  <2> QED BY <2>1, <2>2, <2>3
<1>10. t = <<>> <=> s = <<>>
  <2>1. (t = <<>> <=> Len(t) = 0) /\ (s = <<>> <=> Len(s) = 0)
    BY <1>4
  <2> QED BY <1>4, <2>1
<1> QED BY <1>3, <1>8, <1>9, <1>10 DEF t

LEMMA ReverseConcat ==
  ASSUME NEW X, NEW s \in Seq(X), NEW t \in Seq(X)
  PROVE  Reverse(s \o t) = Reverse(t) \o Reverse(s)
<1> DEFINE st == s \o t
           l == Reverse(st)
           r == Reverse(t) \o Reverse(s)
<1>1. /\ Len(s) \in Nat /\ Len(t) \in Nat /\ st \in Seq(X) /\ Len(st) = Len(s) + Len(t)
      /\ \A i \in 1 .. Len(s) + Len(t) : st[i] = IF i <= Len(s) THEN s[i] ELSE t[i - Len(s)]
  BY ConcatProperties
<1> HIDE DEF st
<1>2. /\ l \in Seq(X) /\ Len(l) = Len(s) + Len(t)
      /\ \A i \in 1 .. Len(s) + Len(t) : l[i] = st[Len(s) + Len(t) - i + 1]
  BY <1>1, ReverseFacts
<1>3. /\ Reverse(t) \in Seq(X) /\ Len(Reverse(t)) = Len(t)
      /\ \A i \in 1 .. Len(t) : Reverse(t)[i] = t[Len(t) - i + 1]
  BY ReverseFacts
<1>4. /\ Reverse(s) \in Seq(X) /\ Len(Reverse(s)) = Len(s)
      /\ \A i \in 1 .. Len(s) : Reverse(s)[i] = s[Len(s) - i + 1]
  BY ReverseFacts
<1> DEFINE rt == Reverse(t)
           rs == Reverse(s)
<1> HIDE DEF l, rt, rs
<1>5. /\ rt \o rs \in Seq(X) /\ Len(rt \o rs) = Len(s) + Len(t)
      /\ \A i \in 1 .. Len(s) + Len(t) : (rt \o rs)[i] = IF i <= Len(t) THEN rt[i] ELSE rs[i - Len(t)]
  <2>1. rt \in Seq(X) /\ rs \in Seq(X) /\ Len(rt) = Len(t) /\ Len(rs) = Len(s)
    BY <1>3, <1>4 DEF rt, rs
  <2>2. /\ rt \o rs \in Seq(X) /\ Len(rt \o rs) = Len(rt) + Len(rs)
        /\ \A i \in 1 .. Len(rt) + Len(rs) :
             (rt \o rs)[i] = IF i <= Len(rt) THEN rt[i] ELSE rs[i - Len(rt)]
    BY <2>1, ConcatProperties
  <2>3. Len(rt) + Len(rs) = Len(s) + Len(t)
    BY <1>1, <2>1
  <2> QED BY <2>1, <2>2, <2>3
<1>6. \A i \in 1 .. Len(s) + Len(t) : l[i] = (rt \o rs)[i]
  <2> TAKE i \in 1 .. Len(s) + Len(t)
  <2> DEFINE j == Len(s) + Len(t) - i + 1
  <2>1. j \in 1 .. Len(s) + Len(t) /\ i \in Nat
    BY <1>1
  <2>2. l[i] = (IF j <= Len(s) THEN s[j] ELSE t[j - Len(s)])
    BY <1>1, <1>2, <2>1
  <2>3. CASE i <= Len(t)
    <3>1. ~ (j <= Len(s)) /\ j - Len(s) = Len(t) - i + 1 /\ i \in 1 .. Len(t)
      BY <1>1, <2>1, <2>3
    <3>2. rt[i] = t[Len(t) - i + 1]
      BY <1>3, <3>1 DEF rt
    <3> HIDE DEF j
    <3> QED BY <1>5, <2>2, <2>3, <3>1, <3>2
  <2>4. CASE ~ (i <= Len(t))
    <3> DEFINE m == i - Len(t)
    <3>1. j <= Len(s) /\ j = Len(s) - m + 1 /\ m \in 1 .. Len(s)
      BY <1>1, <2>1, <2>4
    <3>2. rs[m] = s[Len(s) - m + 1]
      BY <1>4, <3>1 DEF rs
    <3>3. (rt \o rs)[i] = rs[m]
      BY <1>5, <2>4
    <3> HIDE DEF j, m
    <3> QED BY <2>2, <3>1, <3>2, <3>3
  <2> QED BY <2>3, <2>4
<1>7. l = rt \o rs
  BY <1>2, <1>5, <1>6, SeqEqual
<1> QED BY <1>7 DEF l, rt, rs, st

\* The first elements of a queue and the last k.
LEMMA SplitAt ==
  ASSUME NEW X, NEW s \in Seq(X), NEW k \in 0 .. Len(s)
  PROVE  /\ SubSeq(s, 1, Len(s) - k) \in Seq(X) /\ Len(SubSeq(s, 1, Len(s) - k)) = Len(s) - k
         /\ LastOf(s, k) \in Seq(X) /\ Len(LastOf(s, k)) = k
         /\ \A i \in 1 .. Len(s) - k : SubSeq(s, 1, Len(s) - k)[i] = s[i]
         /\ s = SubSeq(s, 1, Len(s) - k) \o LastOf(s, k)
<1> DEFINE n == Len(s) - k
<1>1. /\ Len(s) \in Nat /\ n \in 0 .. Len(s) /\ 1 \in 1 .. Len(s) + 1 /\ 1 - 1 = 0
      /\ Len(s) \in n .. Len(s) /\ \A i \in 1 .. Len(s) : s[i] \in X
  OBVIOUS
<1>2. /\ SubSeq(s, 1, n) \in Seq(X) /\ Len(SubSeq(s, 1, n)) = n
      /\ \A i \in 1 .. n : SubSeq(s, 1, n)[i] = s[i]
  BY <1>1
<1>3. SubSeq(s, n + 1, Len(s)) \in Seq(X) /\ Len(SubSeq(s, n + 1, Len(s))) = k
  BY <1>1
<1>4. SubSeq(s, 1, n) \o SubSeq(s, n + 1, Len(s)) = SubSeq(s, 1, Len(s))
  <2> HIDE DEF n
  <2> QED BY <1>1, ConcatAdjacentSubSeq
<1>5. SubSeq(s, 1, Len(s)) = s
  BY SubSeqFull
<1> QED BY <1>2, <1>3, <1>4, <1>5 DEF LastOf

------------------------------------------------------------------------------
(* One request of the loops                                                  *)

LEMMA Constants ==
  /\ Req \subseteq Nat /\ IsFiniteSet(Req)
  /\ PromptLen \in [Req -> Nat \ {0}] /\ MaxTokens \in [Req -> Nat \ {0}]
  /\ MaxModelLen \in Nat \ {0} /\ BlockSize \in Nat \ {0} /\ NumBlocks \in Nat \ {0}
  /\ TokenBudget \in Nat \ {0} /\ MaxRunning \in Nat \ {0}
  /\ Watermark \in Nat /\ Lookahead \in Nat /\ ChunkThreshold \in Nat
BY LoopAssumption DEF LoopAssumption

LEMMA ObjectFields ==
  ASSUME NEW e \in Object
  PROVE  e.T \in Nat /\ e.C \in Nat /\ e.P \in Int /\ e.chunk \in BOOLEAN /\ e.status \in Statuses
BY DEF Object

LEMMA EntryIsObject ==
  ASSUME NEW e \in Entry
  PROVE  e \in Object
BY DEF Entry, Object

\* The alignment only takes tokens away.
LEMMA AlignFacts ==
  ASSUME NEW r \in Req, NEW e \in Object, NEW n \in Nat
  PROVE  AlignToBlocks(r, e, n) \in 0 .. n
<1> DEFINE lastCached == e.T - (e.T % BlockSize)
           floor == (n \div BlockSize) * BlockSize
<1>1. e.T \in Nat /\ e.C \in Nat /\ BlockSize \in Nat \ {0}
  BY ObjectFields, Constants
<1>2. lastCached \in Int
  BY <1>1
<1>3. floor \in 0 .. n
  <2> DEFINE q == n \div BlockSize
  <2>1. q \in Nat /\ q * BlockSize <= n
    BY <1>1, DivBounds
  <2> HIDE DEF q
  <2>2. q * BlockSize \in Nat
    BY <1>1, <2>1
  <2> QED BY <2>1, <2>2 DEF q
<1> HIDE DEF lastCached, floor
<1>4. \/ AlignToBlocks(r, e, n) = n
      \/ AlignToBlocks(r, e, n) = floor
      \/ /\ e.C < lastCached /\ lastCached < e.C + n
         /\ AlignToBlocks(r, e, n) = lastCached - e.C
  BY DEF AlignToBlocks, lastCached, floor
<1> QED BY <1>1, <1>2, <1>3, <1>4

LEMMA ChunkedFacts ==
  ASSUME NEW n \in Nat
  PROVE  Chunked(n) \in 0 .. n
<1>1. Min({ChunkThreshold, n}) = IF ChunkThreshold <= n THEN ChunkThreshold ELSE n
  BY Constants, Pairs
<1> QED BY <1>1, Constants DEF Chunked

\* The next n tokens are in the context, and known or promised.
InReach(e, n) ==
  /\ e.C + n < MaxModelLen
  /\ n > 0 => e.C + n <= e.T + e.P \/ e.C + n <= e.T

\* What a running request gets fits the budget, the context and its tokens.
LEMMA RunningTokensFacts ==
  ASSUME NEW r \in Req, NEW e \in Object, NEW budget \in Nat
  PROVE  /\ RunningTokens(r, e, budget) \in 0 .. budget
         /\ RunningTokens(r, e, budget) > 0 => InReach(e, RunningTokens(r, e, budget))
<1>1. e.T \in Nat /\ e.C \in Nat /\ e.P \in Int /\ MaxModelLen \in Nat \ {0}
  BY ObjectFields, Constants
<1>2. CASE PromisedItsLast(r, e) \/ Inconsistent(e)
  BY <1>2 DEF RunningTokens
<1>3. CASE ~ (PromisedItsLast(r, e) \/ Inconsistent(e))
  <2> DEFINE a == Chunked(e.T + e.P - e.C)
             c == ContextRoom(e)
             n == Min({a, budget, c})
  <2>1. e.T + e.P - e.C \in Nat
    BY <1>1, <1>3 DEF Inconsistent
  <2>2. a \in Nat /\ a <= e.T + e.P - e.C
    BY <2>1, ChunkedFacts
  <2>3. c \in Nat /\ c = (IF MaxModelLen >= e.C + 1 THEN MaxModelLen - (e.C + 1) ELSE 0)
    <3> DEFINE y == e.C + 1
    <3>1. y \in Int /\ MaxModelLen \in Int
      BY <1>1
    <3>2. c = Minus(MaxModelLen, y)
      BY DEF ContextRoom
    <3> HIDE DEF y, c
    <3>3. c \in Nat /\ c = (IF MaxModelLen >= y THEN MaxModelLen - y ELSE 0)
      BY <3>1, <3>2, MinusFacts
    <3> QED BY <3>3 DEF y
  <2>4. n \in {a, budget, c} /\ n <= budget /\ n <= c /\ n <= a
    <3>1. a \in Int /\ budget \in Int /\ c \in Int
      BY <2>2, <2>3
    <3> HIDE DEF a, c
    <3> QED BY <3>1, Triples
  <2>5. RunningTokens(r, e, budget) = AlignToBlocks(r, e, n)
    BY <1>3 DEF RunningTokens
  <2> HIDE DEF a, c, n
  <2>6. n \in Nat
    BY <2>2, <2>3, <2>4
  <2>7. AlignToBlocks(r, e, n) \in 0 .. n
    BY <2>6, AlignFacts
  <2>8. RunningTokens(r, e, budget) > 0 => InReach(e, RunningTokens(r, e, budget))
    BY <1>1, <2>2, <2>3, <2>4, <2>5, <2>6, <2>7 DEF InReach
  <2> QED BY <2>4, <2>5, <2>6, <2>7, <2>8
<1> QED BY <1>2, <1>3

\* What a waiting request gets fits the budget and its tokens.
LEMMA WaitingTokensFacts ==
  ASSUME NEW r \in Req, NEW e \in Object, NEW budget \in Nat, e.C = 0
  PROVE  /\ WaitingTokens(r, e, budget) \in 0 .. budget
         /\ WaitingTokens(r, e, budget) <= e.T
<1>1. e.T \in Nat /\ e.T - e.C = e.T
  BY ObjectFields
<1>2. CASE ~ChunkedPrefill /\ Chunked(e.T - e.C) > budget
  BY <1>1, <1>2 DEF WaitingTokens
<1>3. CASE ~ (~ChunkedPrefill /\ Chunked(e.T - e.C) > budget)
  <2> DEFINE a == Chunked(e.T - e.C)
             n == Min({a, budget})
  <2>1. a \in 0 .. e.T
    BY <1>1, ChunkedFacts
  <2>2. n = IF a <= budget THEN a ELSE budget
    <3> HIDE DEF a
    <3> QED BY <2>1, Pairs
  <2>3. WaitingTokens(r, e, budget) = AlignToBlocks(r, e, n)
    BY <1>3 DEF WaitingTokens
  <2> HIDE DEF a, n
  <2>4. n \in Nat /\ n <= budget /\ n <= e.T
    BY <1>1, <2>1, <2>2
  <2>5. AlignToBlocks(r, e, n) \in 0 .. n
    BY <2>4, AlignFacts
  <2> QED BY <1>1, <2>3, <2>4, <2>5
<1> QED BY <1>2, <1>3

\* The blocks of a step that stays in the context hold its tokens.
LEMMA NeededFacts ==
  ASSUME NEW e \in Object, NEW n \in Nat
  PROVE  /\ BlocksNeeded(e, n) \in Nat
         /\ e.C + n <= MaxModelLen => e.C + n <= BlocksNeeded(e, n) * BlockSize
<1> DEFINE c == Min({e.C, MaxModelLen})
           t == c + n + Lookahead
           m == Min({t, MaxModelLen})
<1>1. e.C \in Nat /\ MaxModelLen \in Nat \ {0} /\ Lookahead \in Nat /\ BlockSize \in Nat \ {0}
  BY ObjectFields, Constants
<1>2. c = IF e.C <= MaxModelLen THEN e.C ELSE MaxModelLen
  <2>1. e.C \in Int /\ MaxModelLen \in Int
    BY <1>1
  <2> QED BY <2>1, Pairs
<1> HIDE DEF c
<1>3. t \in Nat /\ c + n <= t
  BY <1>1, <1>2
<1> HIDE DEF t
<1>4. m = IF t <= MaxModelLen THEN t ELSE MaxModelLen
  BY <1>1, <1>3, Pairs
<1>5. m \in Nat
  BY <1>1, <1>3, <1>4
<1>6. BlocksNeeded(e, n) = BlocksFor(m)
  BY DEF BlocksNeeded, m, t, c
<1> HIDE DEF m
<1>7. BlocksFor(m) \in Nat /\ m <= BlocksFor(m) * BlockSize
  BY <1>5, CeilFacts
<1> DEFINE q == BlocksFor(m)
<1> HIDE DEF q
<1>8. q * BlockSize \in Nat /\ q \in Nat /\ m <= q * BlockSize
  BY <1>1, <1>7 DEF q
<1>9. e.C + n <= MaxModelLen => e.C + n <= m
  BY <1>1, <1>2, <1>3, <1>4
<1>10. e.C + n <= MaxModelLen => e.C + n <= q * BlockSize
  BY <1>1, <1>5, <1>8, <1>9
<1> QED BY <1>6, <1>8, <1>10 DEF q

\* The state of the loops.
LoopType ==
  [ run : Seq(Req), held : [Req -> Nat], tokens : [Req -> Nat], budget : Nat,
    preempted : Seq(Req), admitted : Seq(Req), over : BOOLEAN ]

LEMMA LoopFields ==
  ASSUME NEW s \in LoopType
  PROVE  /\ s.run \in Seq(Req) /\ s.held \in [Req -> Nat] /\ s.tokens \in [Req -> Nat]
         /\ s.budget \in Nat /\ s.preempted \in Seq(Req) /\ s.admitted \in Seq(Req)
         /\ s.over \in BOOLEAN
BY DEF LoopType

\* The blocks held once the last k running requests are gone, and the state of
\* the loop then.
Left(s, k) == Release(s.held, ToSet(LastOf(s.run, k)))

Popped(t, s, k) ==
  /\ t.run = SubSeq(s.run, 1, Len(s.run) - k)
  /\ t.preempted = s.preempted \o Reverse(LastOf(s.run, k))
  /\ t.admitted = s.admitted

\* The request at i runs with n tokens after the last k were preempted.
RunsWith(entry, s, t, i, k, n) ==
  LET r == s.run[i]
  IN  /\ i + k <= Len(s.run) /\ 0 < n /\ n <= s.budget /\ InReach(entry[r], n)
      /\ Fits(Left(s, k), r, entry[r], n, 0)
      /\ Popped(t, s, k) /\ ~t.over
      /\ t.held = Allocate(Left(s, k), r, entry[r], n)
      /\ t.tokens = [s.tokens EXCEPT ![r] = n] /\ t.budget = s.budget - n
Runs(entry, s, t, i) == \E k, n \in Nat : RunsWith(entry, s, t, i, k, n)

\* Nobody is left behind it and it does not fit either.
GivesUp(s, t, i) ==
  \E k \in Nat : /\ i + k = Len(s.run) + 1
                 /\ Popped(t, s, k) /\ t.over
                 /\ t.held = Left(s, k) /\ t.tokens = s.tokens /\ t.budget = s.budget

\* What RunOne can do.
LEMMA RunOneCases ==
  ASSUME NEW entry \in [Req -> Object], NEW s \in LoopType, NEW i \in Nat \ {0},
         NEW t, t = RunOne(entry, s, i)
  PROVE  /\ t \in LoopType
         /\ \/ t = s
            \/ /\ ~s.over /\ i <= Len(s.run)
               /\ Runs(entry, s, t, i) \/ GivesUp(s, t, i)
<1> DEFINE r == s.run[i]
           e == entry[r]
           n == RunningTokens(r, e, s.budget)
           k == Victims(s, i, e, n)
           behind == Len(s.run) - i
           gone == Reverse(LastOf(s.run, k))
           held_ == Release(s.held, ToSet(gone))
<1> SUFFICES ASSUME t # s PROVE t \in LoopType /\ ~s.over /\ i <= Len(s.run) /\ (Runs(entry, s, t, i) \/ GivesUp(s, t, i))
  OBVIOUS
<1>1. ~s.over /\ ~(i > Len(s.run)) /\ s.budget # 0 /\ n # 0
  BY DEF RunOne
<1>2. Len(s.run) \in Nat /\ i <= Len(s.run) /\ behind \in Nat /\ r \in Req
  BY <1>1, LoopFields
<1>3. e \in Object /\ s.budget \in Nat
  BY <1>2, LoopFields
<1>4. n \in Nat /\ 0 < n /\ n <= s.budget /\ InReach(e, n)
  <2> HIDE DEF r, e
  <2>1. n \in 0 .. s.budget /\ (n > 0 => InReach(e, n))
    BY <1>2, <1>3, RunningTokensFacts
  <2> HIDE DEF n
  <2> QED BY <1>1, <1>3, <2>1
<1>5. k \in 0 .. behind + 1 /\ (k <= behind => Fits(Left(s, k), r, e, n, 0))
  <2> DEFINE S == {j \in 0 .. behind : Fits(Left(s, j), r, e, n, 0)}
             V == S \cup {behind + 1}
  <2>1. k = Min(V)
    BY DEF Victims, Left
  <2>2. V \subseteq Nat /\ V # {}
    BY <1>2
  <2>3. Min(V) \in V
    <3> HIDE DEF V
    <3> QED BY <2>2, MinOf
  <2> HIDE DEF k, r, e, n
  <2>4. k \in S \/ k = behind + 1
    BY <2>1, <2>3
  <2> QED BY <1>2, <2>4
<1>6. k \in 0 .. Len(s.run)
  <2> HIDE DEF k
  <2> QED BY <1>2, <1>5
<1>7. held_ = Left(s, k) /\ held_ \in [Req -> Nat]
  <2>1. LastOf(s.run, k) \in Seq(Req)
    <3> HIDE DEF k
    <3> QED BY <1>6, LoopFields, SplitAt
  <2>2. ToSet(gone) = ToSet(LastOf(s.run, k))
    <3> HIDE DEF k
    <3> QED BY <2>1, ReverseFacts
  <2> HIDE DEF k, gone
  <2>3. held_ = Left(s, k)
    BY <2>2 DEF Left
  <2>4. held_ \in [Req -> Nat]
    BY LoopFields DEF Release
  <2> QED BY <2>3, <2>4
<1>8. /\ SubSeq(s.run, 1, Len(s.run) - k) \in Seq(Req) /\ s.preempted \o gone \in Seq(Req)
      /\ [s EXCEPT !.run = SubSeq(@, 1, Len(@) - k), !.preempted = @ \o gone,
                   !.held = held_] \in LoopType
  <2>1. SubSeq(s.run, 1, Len(s.run) - k) \in Seq(Req) /\ LastOf(s.run, k) \in Seq(Req)
    <3> HIDE DEF k
    <3> QED BY <1>6, LoopFields, SplitAt
  <2>2. gone \in Seq(Req)
    <3> HIDE DEF k
    <3> QED BY <2>1, ReverseFacts
  <2>3. s.preempted \o gone \in Seq(Req)
    <3> HIDE DEF gone
    <3> QED BY <2>2, LoopFields, ConcatProperties
  <2> HIDE DEF k, gone, held_
  <2> QED BY <1>7, <2>1, <2>3 DEF LoopType
<1> DEFINE fits == i + k <= Len(s.run)
           shrunk == [s EXCEPT !.run = SubSeq(@, 1, Len(@) - k), !.preempted = @ \o gone,
                               !.held = held_, !.over = ~fits]
<1>9. t = IF fits THEN [shrunk EXCEPT !.tokens[r] = n, !.budget = @ - n,
                                      !.held = Allocate(held_, r, e, n)]
          ELSE shrunk
  BY <1>1 DEF RunOne
<1>10. /\ shrunk \in LoopType /\ Popped(shrunk, s, k) /\ shrunk.held = Left(s, k)
       /\ shrunk.tokens = s.tokens /\ shrunk.budget = s.budget /\ shrunk.over = ~fits
  <2> DEFINE run_ == SubSeq(s.run, 1, Len(s.run) - k)
             pre_ == s.preempted \o gone
             over_ == ~fits
  <2>1. over_ \in BOOLEAN /\ run_ \in Seq(Req) /\ pre_ \in Seq(Req)
    BY <1>8
  <2>2. shrunk = [s EXCEPT !.run = run_, !.preempted = pre_, !.held = held_, !.over = over_]
    OBVIOUS
  <2> HIDE DEF run_, pre_, held_, over_, shrunk
  <2>3. /\ shrunk \in LoopType /\ shrunk.run = run_ /\ shrunk.preempted = pre_
        /\ shrunk.held = held_ /\ shrunk.over = over_ /\ shrunk.tokens = s.tokens
        /\ shrunk.budget = s.budget /\ shrunk.admitted = s.admitted
    BY <1>7, <2>1, <2>2 DEF LoopType
  <2> QED BY <1>7, <2>3 DEF Popped, run_, pre_, over_
<1> HIDE DEF shrunk
<1>11. CASE fits
  <2> DEFINE h == Allocate(held_, r, e, n)
             u == [shrunk EXCEPT !.tokens[r] = n, !.budget = @ - n, !.held = h]
  <2>1. t = u /\ k \in Nat
    <3>1. k \in Nat
      <4> HIDE DEF k
      <4> QED BY <1>6
    <3> QED BY <1>9, <1>11, <3>1
  <2>2. h \in [Req -> Nat]
    <3> HIDE DEF held_, r, e, n
    <3>1. BlocksNeeded(e, n) \in Nat
      BY <1>3, <1>4, NeededFacts
    <3>2. held_[r] \in Nat
      BY <1>2, <1>7
    <3>3. Max({held_[r], BlocksNeeded(e, n)}) \in Nat
      BY <3>1, <3>2, Pairs
    <3> QED BY <1>7, <3>3 DEF Allocate
  <2> HIDE DEF h, r, e, n, k, held_
  <2>3. s.budget - n \in Nat
    BY <1>3, <1>4
  <2>4. [s.tokens EXCEPT ![r] = n] \in [Req -> Nat]
    BY <1>4, LoopFields
  <2>5. /\ u \in LoopType /\ u.run = shrunk.run /\ u.preempted = shrunk.preempted
        /\ u.held = h /\ u.over = shrunk.over /\ u.tokens = [s.tokens EXCEPT ![r] = n]
        /\ u.budget = s.budget - n /\ u.admitted = shrunk.admitted
    BY <1>10, <2>2, <2>3, <2>4 DEF LoopType
  <2> HIDE DEF u
  <2>6. Popped(t, s, k) /\ ~t.over
    BY <1>10, <1>11, <2>1, <2>5 DEF Popped
  <2>7. Fits(Left(s, k), r, e, n, 0)
    BY <1>2, <1>5, <1>6, <1>11
  <2>8. RunsWith(entry, s, t, i, k, n)
    <3>1. i + k <= Len(s.run)
      BY <1>11
    <3>2. t.held = Allocate(Left(s, k), r, e, n) /\ t.tokens = [s.tokens EXCEPT ![r] = n]
          /\ t.budget = s.budget - n
      BY <1>7, <2>1, <2>5 DEF h
    <3> QED BY <1>4, <2>6, <2>7, <3>1, <3>2 DEF RunsWith, r, e
  <2>9. t \in LoopType
    BY <2>1, <2>5
  <2> QED BY <1>1, <1>2, <1>4, <2>1, <2>8, <2>9 DEF Runs
<1>12. CASE ~fits
  <2>1. t = shrunk
    BY <1>9, <1>12
  <2>2. i + k = Len(s.run) + 1 /\ k \in Nat
    <3>1. ~(i + k <= Len(s.run))
      BY <1>12
    <3> HIDE DEF k
    <3> QED BY <1>2, <1>5, <3>1
  <2>3. shrunk.over
    BY <1>10, <1>12
  <2> HIDE DEF k
  <2>4. GivesUp(s, t, i)
    BY <1>10, <2>1, <2>2, <2>3 DEF GivesUp
  <2> QED BY <1>1, <1>2, <1>10, <2>1, <2>4
<1> QED BY <1>11, <1>12

LEMMA ReleaseFacts ==
  ASSUME NEW h \in [Req -> Nat], NEW S
  PROVE  /\ Release(h, S) \in [Req -> Nat]
         /\ \A r \in Req : /\ r \in S => Release(h, S)[r] = 0
                           /\ r \notin S => Release(h, S)[r] = h[r]
                           /\ Release(h, S)[r] <= h[r]
         /\ SumFunction(Release(h, S)) \in Nat
         /\ SumFunction(Release(h, S)) <= SumFunction(h)
<1>1. /\ Release(h, S) \in [Req -> Nat]
      /\ \A r \in Req : /\ r \in S => Release(h, S)[r] = 0
                        /\ r \notin S => Release(h, S)[r] = h[r]
                        /\ Release(h, S)[r] <= h[r]
  BY DEF Release
<1> DEFINE g == Release(h, S)
<1> HIDE DEF g
<1>2. g \in [Req -> Nat] /\ \A r \in Req : g[r] <= h[r]
  BY <1>1 DEF g
<1>3. SumFunction(g) \in Nat
  BY <1>2, Constants, SumFacts
<1>4. SumFunction(g) <= SumFunction(h)
  BY <1>2, Constants, SumFacts
<1> QED BY <1>1, <1>3, <1>4 DEF g

\* What is allocated is held, and counted.
LEMMA AllocateFacts ==
  ASSUME NEW h \in [Req -> Nat], NEW r \in Req, NEW e \in Object, NEW n \in Nat
  PROVE  /\ Allocate(h, r, e, n) \in [Req -> Nat]
         /\ \A q \in Req \ {r} : Allocate(h, r, e, n)[q] = h[q]
         /\ h[r] <= Allocate(h, r, e, n)[r]
         /\ BlocksNeeded(e, n) <= Allocate(h, r, e, n)[r]
         /\ \A room \in Nat : Fits(h, r, e, n, room)
              => SumFunction(Allocate(h, r, e, n)) <= NumBlocks
<1> DEFINE b == BlocksNeeded(e, n)
           v == Max({h[r], b})
<1>1. b \in Nat /\ h[r] \in Nat /\ NumBlocks \in Nat /\ IsFiniteSet(Req)
  BY NeededFacts, Constants
<1>2. Allocate(h, r, e, n) = [h EXCEPT ![r] = v]
  BY DEF Allocate
<1>3. \A room : Fits(h, r, e, n, room) <=> Minus(b, h[r]) + room <= NumBlocks - SumFunction(h)
  BY DEF Fits, FreeBlocks
<1> HIDE DEF b
<1>4. v = IF h[r] >= b THEN h[r] ELSE b
  BY <1>1, Pairs
<1>5. Minus(b, h[r]) = IF b >= h[r] THEN b - h[r] ELSE 0
  <2> DEFINE a == h[r]
  <2>1. a \in Int /\ b \in Int
    BY <1>1
  <2> HIDE DEF a
  <2>2. Minus(b, a) = IF b >= a THEN b - a ELSE 0
    BY <2>1, MinusFacts
  <2> QED BY <2>2 DEF a
<1> HIDE DEF v
<1>6. v \in Nat
  BY <1>1, <1>4
<1>7. SumFunction([h EXCEPT ![r] = v]) = SumFunction(h) - h[r] + v /\ SumFunction(h) \in Nat
  BY <1>1, <1>6, SumFacts
<1>8. ASSUME NEW room \in Nat, Fits(h, r, e, n, room)
      PROVE  SumFunction([h EXCEPT ![r] = v]) <= NumBlocks
  BY <1>1, <1>3, <1>4, <1>5, <1>6, <1>7, <1>8
<1> DEFINE g == [h EXCEPT ![r] = v]
<1>9. g \in [Req -> Nat] /\ g[r] = v /\ \A q \in Req \ {r} : g[q] = h[q]
  BY <1>6
<1> HIDE DEF g
<1>10. h[r] <= g[r] /\ b <= g[r]
  BY <1>1, <1>4, <1>9
<1>11. \A room \in Nat : Fits(h, r, e, n, room) => SumFunction(g) <= NumBlocks
  BY <1>8 DEF g
<1>12. Allocate(h, r, e, n) = g
  BY <1>2 DEF g
<1> QED BY <1>9, <1>10, <1>11, <1>12 DEF b

\* What allocating leaves: only r's blocks changed, they cover its n tokens, and
\* the pool is not overdrawn.
Houses(g, h, r, e, n) ==
  /\ g \in [Req -> Nat] /\ \A q \in Req \ {r} : g[q] = h[q]
  /\ BlocksNeeded(e, n) <= g[r] /\ SumFunction(g) <= NumBlocks

LEMMA AllocateHouses ==
  ASSUME NEW h, NEW r, NEW e, NEW n, NEW room,
         h \in [Req -> Nat] /\ r \in Req /\ e \in Object /\ n \in Nat /\ room \in Nat,
         Fits(h, r, e, n, room)
  PROVE  Houses(Allocate(h, r, e, n), h, r, e, n)
<1> DEFINE g == Allocate(h, r, e, n)
<1>1. g \in [Req -> Nat]
  BY AllocateFacts
<1>2. \A q \in Req \ {r} : g[q] = h[q]
  BY AllocateFacts
<1>3. BlocksNeeded(e, n) <= g[r]
  BY AllocateFacts
<1>4. SumFunction(g) <= NumBlocks
  BY AllocateFacts
<1> HIDE DEF g
<1>5. Houses(g, h, r, e, n)
  BY <1>1, <1>2, <1>3, <1>4 DEF Houses
<1> QED BY <1>5 DEF g

\* The waiting request r is admitted with n tokens.
AdmitsWith(entry, s, t, r, n) ==
  /\ 0 < n /\ n <= s.budget /\ n <= entry[r].T /\ HasSeat(s.run)
  /\ Fits(s.held, r, entry[r], n, Headroom(s.run))
  /\ t.run = Append(s.run, r) /\ t.admitted = Append(s.admitted, r)
  /\ t.held = Allocate(s.held, r, entry[r], n)
  /\ t.tokens = [s.tokens EXCEPT ![r] = n] /\ t.budget = s.budget - n
  /\ t.preempted = s.preempted /\ ~t.over
Admits(entry, s, t, r) == \E n \in Nat : AdmitsWith(entry, s, t, r, n)

\* The loop is over, or leaves.
Leaves(s, t) ==
  /\ t.over /\ t.run = s.run /\ t.held = s.held /\ t.tokens = s.tokens
  /\ t.budget = s.budget /\ t.preempted = s.preempted /\ t.admitted = s.admitted

\* What AdmitOne can do.
LEMMA AdmitOneCases ==
  ASSUME NEW entry \in [Req -> Object], NEW s \in LoopType, NEW r \in Req, entry[r].C = 0,
         NEW t, t = AdmitOne(entry, s, r)
  PROVE  /\ t \in LoopType
         /\ Leaves(s, t) \/ (~s.over /\ Admits(entry, s, t, r))
<1> DEFINE e == entry[r]
           n == WaitingTokens(r, e, s.budget)
<1>1. e \in Object /\ e.C = 0 /\ s.budget \in Nat
  BY LoopFields
<1>2. n \in Nat /\ n <= s.budget /\ n <= e.T
  <2> HIDE DEF e
  <2>1. n \in 0 .. s.budget /\ n <= e.T
    BY <1>1, WaitingTokensFacts
  <2> HIDE DEF n
  <2> QED BY <1>1, <2>1
<1> DEFINE stops == s.budget = 0 \/ ~HasSeat(s.run) \/ n = 0 \/ ~Fits(s.held, r, e, n, Headroom(s.run))
<1>3. CASE s.over
  <2>1. t = s
    BY <1>3 DEF AdmitOne
  <2> QED BY <1>3, <2>1 DEF Leaves
<1>4. CASE ~s.over /\ stops
  <2>1. t = [s EXCEPT !.over = TRUE]
    BY <1>4 DEF AdmitOne
  <2>2. t \in LoopType /\ Leaves(s, t)
    BY <2>1 DEF LoopType, Leaves
  <2> QED BY <2>2
<1>5. CASE ~s.over /\ ~stops
  <2> DEFINE h == Allocate(s.held, r, e, n)
             run_ == Append(s.run, r)
             in_ == Append(s.admitted, r)
             left == s.budget - n
  <2>1. t = [s EXCEPT !.run = Append(@, r), !.admitted = Append(@, r), !.tokens[r] = n,
                      !.budget = @ - n, !.held = Allocate(@, r, e, n)]
    BY <1>5 DEF AdmitOne
  <2>2. HasSeat(s.run) /\ 0 < n /\ Fits(s.held, r, e, n, Headroom(s.run))
    <3>1. HasSeat(s.run) /\ n # 0 /\ Fits(s.held, r, e, n, Headroom(s.run))
      BY <1>5
    <3> HIDE DEF n
    <3> QED BY <1>2, <3>1
  <2> HIDE DEF e, n
  <2>3. h \in [Req -> Nat] /\ run_ \in Seq(Req) /\ in_ \in Seq(Req)
    <3>1. s.held \in [Req -> Nat] /\ s.run \in Seq(Req) /\ s.admitted \in Seq(Req)
      BY LoopFields
    <3>2. h \in [Req -> Nat]
      BY <1>1, <1>2, <3>1, AllocateFacts
    <3> QED BY <3>1, <3>2, AppendProperties
  <2>4. left \in Nat /\ [s.tokens EXCEPT ![r] = n] \in [Req -> Nat]
    BY <1>1, <1>2, LoopFields
  <2>5. t = [s EXCEPT !.run = run_, !.admitted = in_, !.tokens[r] = n, !.budget = left, !.held = h]
    BY <2>1
  <2> HIDE DEF h, run_, in_, left
  <2>6. /\ t \in LoopType /\ t.run = run_ /\ t.admitted = in_ /\ t.held = h
        /\ t.tokens = [s.tokens EXCEPT ![r] = n] /\ t.budget = left
        /\ t.preempted = s.preempted /\ t.over = s.over
    BY <2>3, <2>4, <2>5 DEF LoopType
  <2>7. AdmitsWith(entry, s, t, r, n)
    BY <1>2, <1>5, <2>2, <2>6 DEF AdmitsWith, e, h, run_, in_, left
  <2> QED BY <1>2, <1>5, <2>6, <2>7 DEF Admits
<1> QED BY <1>3, <1>4, <1>5

------------------------------------------------------------------------------
(* The loops, request by request                                             *)

\* g is the fold of step over the positions up to n, the last one first.
IsLoop(g, n, base, step) ==
  g = [s \in SUBSET (1 .. n) |-> IF s = {} THEN base ELSE step[<<Max(s), g[s \ {Max(s)}]>>]]
HasLoop(n, U, base, step) == \E g \in [SUBSET (1 .. n) -> U] : IsLoop(g, n, base, step)

LEMMA LoopExists ==
  ASSUME NEW n \in Nat, NEW U, NEW base \in U, NEW step, Closed(step, 1 .. n, U)
  PROVE  HasLoop(n, U, base, step)
<1> DEFINE D == 1 .. n
           pick == [s \in SUBSET D |-> Max(s)]
<1>1. Picks(pick, D)
  <2>1. \A s \in SUBSET D : s # {} => Max(s) \in s
    BY MaxOf
  <2> QED BY <2>1 DEF Picks
<1>2. IsFiniteSet(D)
  BY FS_Interval
<1>3. HasFold(D, U, base, pick, step)
  <2> HIDE DEF D, pick
  <2> QED BY <1>1, <1>2, FoldExists DEF D
<1>4. PICK g \in [SUBSET D -> U] : IsFold(g, SUBSET D, base, pick, step)
  BY <1>3 DEF HasFold
<1>5. IsLoop(g, n, base, step)
  BY <1>4 DEF IsFold, IsLoop
<1> QED BY <1>4, <1>5 DEF HasLoop

\* The states of the first loop: a[k] after the requests up to k.
Phase1States(a, entry, run, held_) ==
  /\ a[0] = Start(run, held_)
  /\ \A k \in 1 .. Len(run) : a[k] = RunOne(entry, a[k - 1], k)
  /\ \A k \in 0 .. Len(run) : a[k] \in LoopType
  /\ Phase1(entry, run, held_) = a[Len(run)]

\* The recursive function the fold is defined by.
RunOnes(g, entry, run, held_) ==
  LET seq == [i \in DOMAIN run |-> i]
  IN  g = [s \in SUBSET DOMAIN seq |->
             IF s = {} THEN Start(run, held_)
             ELSE CHOOSE x \in {RunOne(entry, t, seq[Max(s)]) : t \in {g[s \ {Max(s)}]}} : TRUE]

LEMMA Phase1Loop ==
  ASSUME NEW entry \in [Req -> Object], NEW run \in Seq(Req), NEW h \in [Req -> Nat]
  PROVE  \E a : Phase1States(a, entry, run, h)
<1> DEFINE n == Len(run)
           D == 1 .. n
           seq == [i \in DOMAIN run |-> i]
           U == LoopType
           base == Start(run, h)
           step == [z \in D \X U |-> RunOne(entry, z[2], z[1])]
           f == CHOOSE g : RunOnes(g, entry, run, h)
<1>1. n \in Nat /\ D = DOMAIN run /\ DOMAIN seq = D /\ \A i \in D : seq[i] = i
  OBVIOUS
<1>2. Phase1(entry, run, h) = f[DOMAIN seq]
  BY DEF Phase1, FoldLeft, MapThenFoldSet, Once, RunOnes
<1>3. base \in U
  <2>1. [r \in Req |-> 0] \in [Req -> Nat] /\ TokenBudget \in Nat /\ <<>> \in Seq(Req)
    BY Constants
  <2> QED BY <2>1 DEF Start, LoopType
<1>4. Closed(step, D, U)
  <2>1. ASSUME NEW i \in D, NEW u \in U PROVE step[<<i, u>>] \in U
    <3>1. i \in Nat \ {0} /\ step[<<i, u>>] = RunOne(entry, u, i)
      OBVIOUS
    <3> QED BY <3>1, RunOneCases
  <2> QED BY <2>1 DEF Closed
<1>5. PICK g \in [SUBSET D -> U] : IsLoop(g, n, base, step)
  <2>1. HasLoop(n, U, base, step)
    <3> HIDE DEF n, step, U, base
    <3> QED BY <1>1, <1>3, <1>4, LoopExists DEF D
  <2> QED BY <2>1 DEF HasLoop
<1>6. RunOnes(g, entry, run, h)
  <2>1. \A s \in SUBSET D : s # {} =>
          step[<<Max(s), g[s \ {Max(s)}]>>]
            = CHOOSE x \in {RunOne(entry, t, seq[Max(s)]) : t \in {g[s \ {Max(s)}]}} : TRUE
    <3> TAKE s \in SUBSET D
    <3> HAVE s # {}
    <3> DEFINE m == Max(s)
               u == g[s \ {m}]
    <3>1. m \in D
      BY <1>1, MaxOf
    <3>2. u \in U
      BY <1>5
    <3> HIDE DEF m, u
    <3>3. step[<<m, u>>] = RunOne(entry, u, m) /\ seq[m] = m
      BY <1>1, <3>1, <3>2
    <3> HIDE DEF step, seq
    <3>4. step[<<m, u>>] = CHOOSE x \in {RunOne(entry, t, seq[m]) : t \in {u}} : TRUE
      BY <3>3
    <3> QED BY <3>4 DEF m, u
  <2> HIDE DEF step, D
  <2>2. g = [s \in SUBSET D |->
              IF s = {} THEN base
              ELSE CHOOSE x \in {RunOne(entry, t, seq[Max(s)]) : t \in {g[s \ {Max(s)}]}} : TRUE]
    <3> HIDE DEF base, seq
    <3> QED BY <1>5, <2>1 DEF IsLoop, D
  <2> QED BY <1>1, <2>2 DEF RunOnes
<1>7. RunOnes(f, entry, run, h)
  BY <1>6
<1> HIDE DEF f
<1>8. f = [s \in SUBSET D |-> IF s = {} THEN base ELSE RunOne(entry, f[s \ {Max(s)}], seq[Max(s)])]
  <2>1. \A s \in SUBSET D : (CHOOSE x \in {RunOne(entry, t, seq[Max(s)]) : t \in {f[s \ {Max(s)}]}} : TRUE)
                              = RunOne(entry, f[s \ {Max(s)}], seq[Max(s)])
    OBVIOUS
  <2>2. f = [s \in SUBSET D |->
              IF s = {} THEN base
              ELSE CHOOSE x \in {RunOne(entry, t, seq[Max(s)]) : t \in {f[s \ {Max(s)}]}} : TRUE]
    BY <1>1, <1>7 DEF RunOnes
  <2> HIDE DEF seq, base, D
  <2> QED BY <2>1, <2>2
<1> DEFINE a == [k \in 0 .. n |-> f[1 .. k]]
<1>9. a[0] = base
  <2>1. 1 .. 0 = {} /\ {} \in SUBSET D
    OBVIOUS
  <2> HIDE DEF D, base, seq
  <2>2. f[{}] = base
    BY <1>8, <2>1
  <2> QED BY <2>1, <2>2
<1>10. \A k \in 1 .. n : a[k] = RunOne(entry, a[k - 1], k)
  <2> TAKE k \in 1 .. n
  <2> DEFINE s == 1 .. k
  <2>1. s \in SUBSET D /\ s # {} /\ Max(s) = k /\ s \ {k} = 1 .. k - 1 /\ seq[k] = k
    BY <1>1, MaxUpTo
  <2>2. a[k] = f[s] /\ a[k - 1] = f[1 .. k - 1]
    BY <1>1
  <2> HIDE DEF D, s, a, base, seq
  <2>3. f[s] = RunOne(entry, f[s \ {Max(s)}], seq[Max(s)])
    BY <1>8, <2>1
  <2> QED BY <2>1, <2>2, <2>3
<1>11. \A k \in 0 .. n : a[k] \in U
  <2> DEFINE S == [k \in 0 .. n |-> U]
  <2>1. a[0] \in S[0]
    BY <1>1, <1>3, <1>9
  <2>2. ASSUME NEW k \in 1 .. n, a[k - 1] \in S[k - 1] PROVE a[k] \in S[k]
    <3>1. k - 1 \in 0 .. n /\ k \in 0 .. n /\ k \in Nat \ {0}
      BY <1>1
    <3>2. a[k - 1] \in U
      BY <2>2, <3>1
    <3> HIDE DEF a
    <3>3. a[k] \in U
      BY <1>10, <3>1, <3>2, RunOneCases
    <3> QED BY <3>1, <3>3
  <2> HIDE DEF a, S, n
  <2>3. \A k \in 0 .. n : a[k] \in S[k]
    BY <1>1, <2>1, <2>2, Stays
  <2> QED BY <2>3 DEF S
<1>12. Phase1(entry, run, h) = a[n]
  BY <1>1, <1>2
<1> HIDE DEF a
<1> QED BY <1>9, <1>10, <1>11, <1>12 DEF Phase1States

\* The states of the second loop.
Phase2States(a, entry, s, queue) ==
  /\ a[0] = [s EXCEPT !.over = FALSE]
  /\ \A k \in 1 .. Len(queue) : a[k] = AdmitOne(entry, a[k - 1], queue[k])
  /\ \A k \in 0 .. Len(queue) : a[k] \in LoopType
  /\ Phase2(entry, s, queue) = a[Len(queue)]

AdmitOnes(g, entry, phase1, queue) ==
  g = [s \in SUBSET DOMAIN queue |->
         IF s = {} THEN [phase1 EXCEPT !.over = FALSE]
         ELSE CHOOSE x \in {AdmitOne(entry, t, queue[Max(s)]) : t \in {g[s \ {Max(s)}]}} : TRUE]

LEMMA Phase2Loop ==
  ASSUME NEW entry \in [Req -> Object], NEW phase1 \in LoopType, NEW queue \in Seq(Req),
         phase1.preempted = <<>>, \A k \in 1 .. Len(queue) : entry[queue[k]].C = 0
  PROVE  \E a : Phase2States(a, entry, phase1, queue)
<1> DEFINE n == Len(queue)
           D == 1 .. n
           U == LoopType
           base == [phase1 EXCEPT !.over = FALSE]
           step == [z \in D \X U |-> AdmitOne(entry, z[2], queue[z[1]])]
           f == CHOOSE g : AdmitOnes(g, entry, phase1, queue)
<1>1. n \in Nat /\ D = DOMAIN queue /\ \A i \in D : queue[i] \in Req /\ entry[queue[i]].C = 0
  OBVIOUS
<1>2. Phase2(entry, phase1, queue) = f[DOMAIN queue]
  BY DEF Phase2, FoldLeft, MapThenFoldSet, Once, AdmitOnes
<1>3. base \in U
  BY DEF LoopType
<1>4. Closed(step, D, U)
  <2>1. ASSUME NEW i \in D, NEW u \in U PROVE step[<<i, u>>] \in U
    <3>1. step[<<i, u>>] = AdmitOne(entry, u, queue[i])
      OBVIOUS
    <3> QED BY <1>1, <3>1, AdmitOneCases
  <2> QED BY <2>1 DEF Closed
<1>5. PICK g \in [SUBSET D -> U] : IsLoop(g, n, base, step)
  <2>1. HasLoop(n, U, base, step)
    <3> HIDE DEF n, step, U, base
    <3> QED BY <1>1, <1>3, <1>4, LoopExists DEF D
  <2> QED BY <2>1 DEF HasLoop
<1>6. AdmitOnes(g, entry, phase1, queue)
  <2>1. \A s \in SUBSET D : s # {} =>
          step[<<Max(s), g[s \ {Max(s)}]>>]
            = CHOOSE x \in {AdmitOne(entry, t, queue[Max(s)]) : t \in {g[s \ {Max(s)}]}} : TRUE
    <3> TAKE s \in SUBSET D
    <3> HAVE s # {}
    <3> DEFINE m == Max(s)
               u == g[s \ {m}]
    <3>1. m \in D
      BY <1>1, MaxOf
    <3>2. u \in U
      BY <1>5
    <3> HIDE DEF m, u
    <3>3. step[<<m, u>>] = AdmitOne(entry, u, queue[m])
      BY <1>1, <3>1, <3>2
    <3> HIDE DEF step
    <3>4. step[<<m, u>>] = CHOOSE x \in {AdmitOne(entry, t, queue[m]) : t \in {u}} : TRUE
      BY <3>3
    <3> QED BY <3>4 DEF m, u
  <2> HIDE DEF step, D
  <2>2. g = [s \in SUBSET D |->
              IF s = {} THEN base
              ELSE CHOOSE x \in {AdmitOne(entry, t, queue[Max(s)]) : t \in {g[s \ {Max(s)}]}} : TRUE]
    <3> HIDE DEF base
    <3> QED BY <1>5, <2>1 DEF IsLoop, D
  <2> QED BY <1>1, <2>2 DEF AdmitOnes
<1>7. AdmitOnes(f, entry, phase1, queue)
  BY <1>6
<1> HIDE DEF f
<1>8. f = [s \in SUBSET D |-> IF s = {} THEN base ELSE AdmitOne(entry, f[s \ {Max(s)}], queue[Max(s)])]
  <2>1. \A s \in SUBSET D : (CHOOSE x \in {AdmitOne(entry, t, queue[Max(s)]) : t \in {f[s \ {Max(s)}]}} : TRUE)
                              = AdmitOne(entry, f[s \ {Max(s)}], queue[Max(s)])
    OBVIOUS
  <2>2. f = [s \in SUBSET D |->
              IF s = {} THEN base
              ELSE CHOOSE x \in {AdmitOne(entry, t, queue[Max(s)]) : t \in {f[s \ {Max(s)}]}} : TRUE]
    BY <1>1, <1>7 DEF AdmitOnes
  <2> HIDE DEF base, D
  <2> QED BY <2>1, <2>2
<1> DEFINE a == [k \in 0 .. n |-> f[1 .. k]]
<1>9. a[0] = base
  <2>1. 1 .. 0 = {} /\ {} \in SUBSET D
    OBVIOUS
  <2> HIDE DEF D, base
  <2>2. f[{}] = base
    BY <1>8, <2>1
  <2> QED BY <2>1, <2>2
<1>10. \A k \in 1 .. n : a[k] = AdmitOne(entry, a[k - 1], queue[k])
  <2> TAKE k \in 1 .. n
  <2> DEFINE s == 1 .. k
  <2>1. s \in SUBSET D /\ s # {} /\ Max(s) = k /\ s \ {k} = 1 .. k - 1
    BY <1>1, MaxUpTo
  <2>2. a[k] = f[s] /\ a[k - 1] = f[1 .. k - 1]
    BY <1>1
  <2> HIDE DEF D, s, a, base
  <2>3. f[s] = AdmitOne(entry, f[s \ {Max(s)}], queue[Max(s)])
    BY <1>8, <2>1
  <2> QED BY <2>1, <2>2, <2>3
<1>11. \A k \in 0 .. n : a[k] \in U
  <2> DEFINE S == [k \in 0 .. n |-> U]
  <2>1. a[0] \in S[0]
    BY <1>1, <1>3, <1>9
  <2>2. ASSUME NEW k \in 1 .. n, a[k - 1] \in S[k - 1] PROVE a[k] \in S[k]
    <3>1. k - 1 \in 0 .. n /\ k \in 0 .. n /\ queue[k] \in Req /\ entry[queue[k]].C = 0
      BY <1>1
    <3>2. a[k - 1] \in U
      BY <2>2, <3>1
    <3> HIDE DEF a
    <3>3. a[k] \in U
      BY <1>10, <3>1, <3>2, AdmitOneCases
    <3> QED BY <3>1, <3>3
  <2> HIDE DEF a, S, n
  <2>3. \A k \in 0 .. n : a[k] \in S[k]
    BY <1>1, <2>1, <2>2, Stays
  <2> QED BY <2>3 DEF S
<1>12. Phase2(entry, phase1, queue) = a[n]
  BY <1>1, <1>2
<1> HIDE DEF a
<1> QED BY <1>9, <1>10, <1>11, <1>12 DEF Phase2States

------------------------------------------------------------------------------
(* What the loops keep                                                       *)

\* Two queues in order, the first before the second.
LEMMA SortedConcat ==
  ASSUME NEW s \in Seq(Req), NEW t \in Seq(Req)
  PROVE  Sorted(s \o t) <=> /\ Sorted(s) /\ Sorted(t)
                            /\ \A x \in ToSet(s), y \in ToSet(t) : x < y
<1> DEFINE st == s \o t
<1>1. /\ Len(s) \in Nat /\ Len(t) \in Nat /\ st \in Seq(Req) /\ Len(st) = Len(s) + Len(t)
      /\ \A i \in 1 .. Len(s) + Len(t) : st[i] = IF i <= Len(s) THEN s[i] ELSE t[i - Len(s)]
  BY ConcatProperties
<1> HIDE DEF st
<1>2. DOMAIN s = 1 .. Len(s) /\ DOMAIN t = 1 .. Len(t) /\ DOMAIN st = 1 .. Len(s) + Len(t)
  BY <1>1
<1>3. ASSUME Sorted(st)
      PROVE  Sorted(s) /\ Sorted(t) /\ \A x \in ToSet(s), y \in ToSet(t) : x < y
  <2>1. ASSUME NEW i \in DOMAIN s, NEW j \in DOMAIN s, i < j PROVE s[i] < s[j]
    <3>1. /\ i \in DOMAIN st /\ j \in DOMAIN st
          /\ i \in 1 .. Len(s) + Len(t) /\ j \in 1 .. Len(s) + Len(t) /\ i <= Len(s) /\ j <= Len(s)
      BY <1>1, <1>2
    <3>2. st[i] = s[i] /\ st[j] = s[j] /\ st[i] < st[j]
      BY <1>1, <1>3, <2>1, <3>1 DEF Sorted
    <3> QED BY <3>2
  <2>2. ASSUME NEW i \in DOMAIN t, NEW j \in DOMAIN t, i < j PROVE t[i] < t[j]
    <3> DEFINE a == i + Len(s)
               b == j + Len(s)
    <3>1. a \in DOMAIN st /\ b \in DOMAIN st /\ a < b /\ ~(a <= Len(s)) /\ ~(b <= Len(s))
          /\ a - Len(s) = i /\ b - Len(s) = j
      BY <1>1, <1>2, <2>2
    <3> HIDE DEF a, b
    <3>2. st[a] = t[i] /\ st[b] = t[j] /\ st[a] < st[b]
      BY <1>1, <1>2, <1>3, <3>1 DEF Sorted
    <3> QED BY <3>2
  <2>3. ASSUME NEW x \in ToSet(s), NEW y \in ToSet(t) PROVE x < y
    <3>1. PICK i \in 1 .. Len(s) : s[i] = x
      BY SetOf
    <3>2. PICK j \in 1 .. Len(t) : t[j] = y
      BY SetOf
    <3> DEFINE b == j + Len(s)
    <3>3. i \in DOMAIN st /\ b \in DOMAIN st /\ i < b /\ i <= Len(s) /\ ~(b <= Len(s)) /\ b - Len(s) = j
      BY <1>1, <1>2
    <3> HIDE DEF b
    <3>4. st[i] = s[i] /\ st[b] = t[j] /\ st[i] < st[b]
      BY <1>1, <1>2, <1>3, <3>3 DEF Sorted
    <3> QED BY <3>1, <3>2, <3>4
  <2> QED BY <2>1, <2>2, <2>3 DEF Sorted
<1>4. ASSUME Sorted(s), Sorted(t), \A x \in ToSet(s), y \in ToSet(t) : x < y,
             NEW i \in DOMAIN st, NEW j \in DOMAIN st, i < j
      PROVE  st[i] < st[j]
  <2>1. CASE j <= Len(s)
    <3>1. i \in DOMAIN s /\ j \in DOMAIN s /\ st[i] = s[i] /\ st[j] = s[j]
      BY <1>1, <1>2, <1>4, <2>1
    <3> QED BY <1>4, <3>1 DEF Sorted
  <2>2. CASE i > Len(s)
    <3> DEFINE a == i - Len(s)
               b == j - Len(s)
    <3>1. a \in DOMAIN t /\ b \in DOMAIN t /\ a < b /\ st[i] = t[a] /\ st[j] = t[b]
      BY <1>1, <1>2, <1>4, <2>2
    <3> HIDE DEF a, b
    <3> QED BY <1>4, <3>1 DEF Sorted
  <2>3. CASE i <= Len(s) /\ j > Len(s)
    <3> DEFINE b == j - Len(s)
    <3>1. i \in 1 .. Len(s) /\ b \in 1 .. Len(t) /\ st[i] = s[i] /\ st[j] = t[b]
      BY <1>1, <1>2, <1>4, <2>3
    <3>2. s[i] \in ToSet(s)
      BY <3>1, SetOf
    <3>3. t[b] \in ToSet(t)
      <4> HIDE DEF b
      <4> QED BY <3>1, SetOf
    <3> QED BY <1>4, <3>1, <3>2, <3>3
  <2> QED BY <1>1, <1>2, <2>1, <2>2, <2>3
<1> QED BY <1>3, <1>4 DEF st, Sorted

\* What is asked of the loops.
Schedulable(entry, run, h) ==
  /\ entry \in [Req -> Object] /\ run \in Seq(Req) /\ h \in [Req -> Nat]
  /\ Sorted(run) /\ SumFunction(h) <= NumBlocks
  /\ \A r \in Req : h[r] > 0 => r \in ToSet(run)
  /\ \A r \in ToSet(run) : entry[r].C <= h[r] * BlockSize /\ entry[r].C < MaxModelLen

\* The blocks held are there, are those of running requests, and cover what the
\* step computes, which stays in the context.
Covers(entry, s) ==
  /\ SumFunction(s.held) <= NumBlocks
  /\ \A r \in Req : s.held[r] > 0 => r \in ToSet(s.run)
  /\ \A r \in ToSet(s.run) : /\ entry[r].C + s.tokens[r] <= s.held[r] * BlockSize
                             /\ InReach(entry[r], s.tokens[r])

\* After the requests up to k: nobody behind them has tokens.
Phase1Keeps(entry, run, s, k) ==
  /\ s.run \o Reverse(s.preempted) = run /\ s.admitted = <<>>
  /\ Covers(entry, s)
  /\ \A r \in Req : s.tokens[r] > 0 => \E j \in 1 .. k : j <= Len(s.run) /\ s.run[j] = r

\* A line of requests reads the same however its parts were joined.
Associates(a, b, c) == (a \o b) \o c = a \o (b \o c)

LEMMA JoinedLine ==
  ASSUME NEW a, NEW b, NEW c, a \in Seq(Req) /\ b \in Seq(Req) /\ c \in Seq(Req)
  PROVE  Associates(a, b, c)
<1>1. (a \o b) \o c = a \o (b \o c)
  BY ConcatAssociative
<1> QED BY <1>1 DEF Associates

\* Popping the back of the running queue puts it in front of the preempted.
LEMMA PoppedLine ==
  ASSUME NEW s \in LoopType, NEW t \in LoopType, NEW k \in 0 .. Len(s.run), Popped(t, s, k)
  PROVE  /\ s.run = t.run \o LastOf(s.run, k)
         /\ Len(t.run) = Len(s.run) - k /\ \A i \in 1 .. Len(s.run) - k : t.run[i] = s.run[i]
         /\ t.run \o Reverse(t.preempted) = s.run \o Reverse(s.preempted)
         /\ ToSet(s.run) = ToSet(t.run) \cup ToSet(LastOf(s.run, k))
<1> DEFINE x == s.run
           y == t.run
           last == LastOf(x, k)
           gone == Reverse(s.preempted)
<1>1. /\ x \in Seq(Req) /\ s.preempted \in Seq(Req) /\ y \in Seq(Req)
      /\ y = SubSeq(x, 1, Len(x) - k) /\ t.preempted = s.preempted \o Reverse(last)
  BY LoopFields DEF Popped
<1> HIDE DEF x, y
<1>2. /\ last \in Seq(Req) /\ x = y \o last
      /\ Len(y) = Len(x) - k /\ \A i \in 1 .. Len(x) - k : y[i] = x[i]
  <2>1. k \in 0 .. Len(x)
    BY DEF x
  <2>2. /\ SubSeq(x, 1, Len(x) - k) \in Seq(Req) /\ Len(SubSeq(x, 1, Len(x) - k)) = Len(x) - k
        /\ LastOf(x, k) \in Seq(Req) /\ Len(LastOf(x, k)) = k
        /\ \A i \in 1 .. Len(x) - k : SubSeq(x, 1, Len(x) - k)[i] = x[i]
        /\ x = SubSeq(x, 1, Len(x) - k) \o LastOf(x, k)
    BY <1>1, <2>1, SplitAt
  <2> QED BY <1>1, <2>2
<1> HIDE DEF last
<1>3. Reverse(last) \in Seq(Req) /\ Reverse(Reverse(last)) = last /\ gone \in Seq(Req)
  BY <1>1, <1>2, ReverseFacts
<1>4. Reverse(t.preempted) = last \o gone
  BY <1>1, <1>3, ReverseConcat
<1> HIDE DEF gone
<1>5. y \o (last \o gone) = (y \o last) \o gone
  <2>1. y \in Seq(Req) /\ last \in Seq(Req) /\ gone \in Seq(Req)
    BY <1>1, <1>2, <1>3
  <2> HIDE DEF y
  <2>2. Associates(y, last, gone)
    BY <2>1, JoinedLine
  <2> QED BY <2>2 DEF Associates
<1>6. ToSet(y \o last) = ToSet(y) \cup ToSet(last)
  BY <1>1, <1>2, SetOfConcat
<1> QED BY <1>2, <1>4, <1>5, <1>6 DEF last, x, y, gone

\* Those who stay on the queue have nothing in common with the popped.
LEMMA PoppedApart ==
  ASSUME NEW entry, NEW run, NEW h, Schedulable(entry, run, h),
         NEW s \in LoopType, NEW t \in LoopType, NEW k \in 0 .. Len(s.run), Popped(t, s, k),
         s.run \o Reverse(s.preempted) = run
  PROVE  ToSet(t.run) \cap ToSet(LastOf(s.run, k)) = {}
<1> DEFINE x == s.run
           y == t.run
           last == LastOf(x, k)
           gone == Reverse(s.preempted)
<1>1. x \in Seq(Req) /\ y \in Seq(Req) /\ s.preempted \in Seq(Req)
  BY LoopFields
<1>2. x = y \o last /\ Sorted(x \o gone)
  BY PoppedLine DEF Schedulable
<1>3. gone \in Seq(Req) /\ last \in Seq(Req)
  <2>1. k \in 0 .. Len(x)
    OBVIOUS
  <2> HIDE DEF x
  <2> QED BY <1>1, <2>1, ReverseFacts, SplitAt
<1> HIDE DEF x, y, last, gone
<1>4. Sorted(x)
  BY <1>1, <1>2, <1>3, SortedConcat
<1>5. Sorted(y \o last)
  BY <1>2, <1>4
<1>6. \A a \in ToSet(y), b \in ToSet(last) : a < b
  BY <1>1, <1>3, <1>5, SortedConcat
<1>7. ToSet(y) \subseteq Nat
  BY <1>1, SetOf, Constants
<1>8. ASSUME NEW a \in ToSet(y), a \in ToSet(last) PROVE FALSE
  <2>1. a < a /\ a \in Nat
    BY <1>6, <1>7, <1>8
  <2> QED BY <2>1
<1> QED BY <1>8 DEF y, last, x

\* One more request of the running queue.
LEMMA Phase1Step ==
  ASSUME NEW entry, NEW run, NEW h, Schedulable(entry, run, h),
         NEW s \in LoopType, NEW i \in Nat \ {0}, Phase1Keeps(entry, run, s, i - 1),
         NEW t, t = RunOne(entry, s, i)
  PROVE  t \in LoopType /\ Phase1Keeps(entry, run, t, i)
<1>1. entry \in [Req -> Object] /\ Len(s.run) \in Nat /\ s.run \in Seq(Req)
  BY LoopFields DEF Schedulable
<1>2. t \in LoopType /\ (t = s \/ (~s.over /\ i <= Len(s.run) /\ (Runs(entry, s, t, i) \/ GivesUp(s, t, i))))
  BY <1>1, RunOneCases
<1>3. CASE t = s
  <2>1. \A r \in Req : s.tokens[r] > 0 => \E j \in 1 .. i : j <= Len(s.run) /\ s.run[j] = r
    BY DEF Phase1Keeps
  <2> QED BY <1>2, <1>3, <2>1 DEF Phase1Keeps
<1> DEFINE last(k) == ToSet(LastOf(s.run, k))
\* In both other cases the last k are popped, and the request at i may have run.
<1>4. ASSUME NEW k \in 0 .. Len(s.run), Popped(t, s, k), i <= Len(s.run), Len(s.run) - k >= i - 1
      PROVE  /\ t.run \o Reverse(t.preempted) = run /\ t.admitted = <<>>
             /\ Len(t.run) = Len(s.run) - k /\ \A j \in 1 .. Len(s.run) - k : t.run[j] = s.run[j]
             /\ ToSet(t.run) \cap last(k) = {} /\ ToSet(s.run) = ToSet(t.run) \cup last(k)
             /\ \A r \in Req : s.tokens[r] > 0
                  => \E j \in 1 .. i - 1 : j <= Len(t.run) /\ t.run[j] = r
  <2>1. /\ Len(t.run) = Len(s.run) - k /\ \A j \in 1 .. Len(s.run) - k : t.run[j] = s.run[j]
        /\ t.run \o Reverse(t.preempted) = s.run \o Reverse(s.preempted)
        /\ ToSet(s.run) = ToSet(t.run) \cup last(k)
    <3>1. /\ s.run = t.run \o LastOf(s.run, k)
          /\ Len(t.run) = Len(s.run) - k /\ \A j \in 1 .. Len(s.run) - k : t.run[j] = s.run[j]
          /\ t.run \o Reverse(t.preempted) = s.run \o Reverse(s.preempted)
          /\ ToSet(s.run) = ToSet(t.run) \cup ToSet(LastOf(s.run, k))
      BY <1>2, <1>4, PoppedLine
    <3> QED BY <3>1
  <2>2. s.run \o Reverse(s.preempted) = run /\ s.admitted = <<>> /\ t.admitted = s.admitted
    BY <1>4 DEF Phase1Keeps, Popped
  <2>3. ToSet(t.run) \cap last(k) = {}
    BY <1>2, <1>4, <2>2, PoppedApart
  <2>4. ASSUME NEW r \in Req, s.tokens[r] > 0
        PROVE  \E j \in 1 .. i - 1 : j <= Len(t.run) /\ t.run[j] = r
    <3>1. PICK j \in 1 .. i - 1 : j <= Len(s.run) /\ s.run[j] = r
      BY <2>4 DEF Phase1Keeps
    <3>2. j \in 1 .. Len(s.run) - k /\ j <= Len(t.run)
      BY <1>1, <1>4, <2>1
    <3> QED BY <2>1, <3>1, <3>2
  <2> QED BY <2>1, <2>2, <2>3, <2>4
<1>5. CASE i <= Len(s.run) /\ GivesUp(s, t, i)
  <2>1. PICK k \in Nat : /\ i + k = Len(s.run) + 1 /\ Popped(t, s, k) /\ t.held = Left(s, k)
                         /\ t.tokens = s.tokens
    BY <1>5 DEF GivesUp
  <2>2. k \in 0 .. Len(s.run) /\ Len(s.run) - k >= i - 1
    BY <1>1, <1>5, <2>1
  <2>3. /\ t.run \o Reverse(t.preempted) = run /\ t.admitted = <<>>
        /\ ToSet(t.run) \cap last(k) = {} /\ ToSet(s.run) = ToSet(t.run) \cup last(k)
        /\ \A r \in Req : s.tokens[r] > 0
             => \E j \in 1 .. i - 1 : j <= Len(t.run) /\ t.run[j] = r
    BY <1>4, <1>5, <2>1, <2>2
  <2>4. Covers(entry, t)
    <3>1. /\ SumFunction(t.held) <= SumFunction(s.held) /\ SumFunction(t.held) \in Nat
          /\ \A r \in Req : /\ r \in last(k) => t.held[r] = 0
                            /\ r \notin last(k) => t.held[r] = s.held[r]
      <4> DEFINE S == last(k)
                 g == s.held
      <4>1. g \in [Req -> Nat] /\ t.held = Release(g, S)
        BY <2>1, LoopFields DEF Left
      <4> HIDE DEF S, g
      <4>2. /\ SumFunction(t.held) <= SumFunction(g) /\ SumFunction(t.held) \in Nat
            /\ \A r \in Req : /\ r \in S => t.held[r] = 0
                              /\ r \notin S => t.held[r] = g[r]
        BY <4>1, ReleaseFacts
      <4> QED BY <4>2 DEF S, g
    <3>2. /\ SumFunction(s.held) <= NumBlocks
          /\ \A r \in Req : s.held[r] > 0 => r \in ToSet(s.run)
          /\ \A r \in ToSet(s.run) : /\ entry[r].C + s.tokens[r] <= s.held[r] * BlockSize
                                     /\ InReach(entry[r], s.tokens[r])
      BY DEF Phase1Keeps, Covers
    <3>3. SumFunction(t.held) <= NumBlocks
      <4>1. SumFunction(s.held) \in Nat /\ NumBlocks \in Nat
        BY LoopFields, SumFacts, Constants
      <4> QED BY <3>1, <3>2, <4>1
    <3>4. \A r \in Req : t.held[r] > 0 => r \in ToSet(t.run)
      BY <2>3, <3>1, <3>2
    <3>5. \A r \in ToSet(t.run) : r \in ToSet(s.run) /\ r \in Req /\ t.held[r] = s.held[r]
      <4>1. ToSet(s.run) \subseteq Req
        BY <1>1, SetOf
      <4> QED BY <2>3, <3>1, <4>1
    <3> QED BY <2>1, <3>2, <3>3, <3>4, <3>5 DEF Covers
  <2>5. \A r \in Req : t.tokens[r] > 0 => \E j \in 1 .. i : j <= Len(t.run) /\ t.run[j] = r
    BY <2>1, <2>3
  <2> QED BY <1>2, <2>3, <2>4, <2>5 DEF Phase1Keeps
<1>6. CASE i <= Len(s.run) /\ Runs(entry, s, t, i)
  <2>1. PICK k \in Nat, n \in Nat : RunsWith(entry, s, t, i, k, n)
    BY <1>6 DEF Runs
  <2> DEFINE r == s.run[i]
             h_ == Left(s, k)
  <2>2. /\ i + k <= Len(s.run) /\ 0 < n /\ InReach(entry[r], n)
        /\ Fits(h_, r, entry[r], n, 0) /\ Popped(t, s, k)
        /\ t.held = Allocate(h_, r, entry[r], n) /\ t.tokens = [s.tokens EXCEPT ![r] = n]
    BY <2>1 DEF RunsWith
  <2>3. k \in 0 .. Len(s.run) /\ Len(s.run) - k >= i - 1 /\ i \in 1 .. Len(s.run) - k /\ r \in Req
    BY <1>1, <1>6, <2>2
  <2>4. /\ t.run \o Reverse(t.preempted) = run /\ t.admitted = <<>>
        /\ Len(t.run) = Len(s.run) - k /\ \A j \in 1 .. Len(s.run) - k : t.run[j] = s.run[j]
        /\ ToSet(t.run) \cap last(k) = {} /\ ToSet(s.run) = ToSet(t.run) \cup last(k)
        /\ \A q \in Req : s.tokens[q] > 0
             => \E j \in 1 .. i - 1 : j <= Len(t.run) /\ t.run[j] = q
    BY <1>4, <1>6, <2>2, <2>3
  <2>5. t.run[i] = r /\ i <= Len(t.run) /\ r \in ToSet(t.run)
    <3>1. t.run[i] = r /\ i \in 1 .. Len(t.run)
      BY <2>3, <2>4
    <3> QED BY <1>2, <3>1, LoopFields, SetOf
  <2>6. Covers(entry, t)
    <3>1. /\ h_ \in [Req -> Nat]
          /\ \A q \in Req : /\ q \in last(k) => h_[q] = 0
                            /\ q \notin last(k) => h_[q] = s.held[q]
      <4> DEFINE S == last(k)
                 g == s.held
      <4>1. g \in [Req -> Nat] /\ h_ = Release(g, S)
        BY LoopFields DEF Left
      <4> HIDE DEF S, g, h_
      <4>2. /\ h_ \in [Req -> Nat]
            /\ \A q \in Req : /\ q \in S => h_[q] = 0
                              /\ q \notin S => h_[q] = g[q]
        BY <4>1, ReleaseFacts
      <4> QED BY <4>2 DEF S, g
    <3>2. entry[r] \in Object
      BY <1>1, <2>3
    <3> HIDE DEF r, h_, last
    <3>3. /\ t.held \in [Req -> Nat] /\ \A q \in Req \ {r} : t.held[q] = h_[q]
          /\ BlocksNeeded(entry[r], n) <= t.held[r] /\ SumFunction(t.held) <= NumBlocks
      <4> DEFINE e == entry[r]
      <4>1. h_ \in [Req -> Nat] /\ r \in Req /\ e \in Object /\ n \in Nat /\ 0 \in Nat
        BY <2>3, <3>1, <3>2
      <4>2. Fits(h_, r, e, n, 0) /\ t.held = Allocate(h_, r, e, n)
        BY <2>2
      <4> HIDE DEF e
      <4>3. Houses(Allocate(h_, r, e, n), h_, r, e, n)
        BY <4>1, <4>2, AllocateHouses
      <4>4. Houses(t.held, h_, r, e, n)
        BY <4>2, <4>3
      <4> QED BY <4>4 DEF Houses, e
    <3>4. /\ \A q \in Req : s.held[q] > 0 => q \in ToSet(s.run)
          /\ \A q \in ToSet(s.run) : /\ entry[q].C + s.tokens[q] <= s.held[q] * BlockSize
                                     /\ InReach(entry[q], s.tokens[q])
      BY DEF Phase1Keeps, Covers
    <3>5. \A q \in Req : t.held[q] > 0 => q \in ToSet(t.run)
      <4>1. ASSUME NEW q \in Req, q # r, t.held[q] > 0 PROVE q \in ToSet(t.run)
        <5>1. q \notin last(k) /\ s.held[q] > 0
          BY <3>1, <3>3, <4>1
        <5>2. q \in ToSet(s.run)
          BY <3>4, <5>1
        <5> QED BY <2>4, <5>1, <5>2
      <4> QED BY <2>5, <4>1
    <3>6. ASSUME NEW q \in ToSet(t.run), q # r
          PROVE  /\ entry[q].C + t.tokens[q] <= t.held[q] * BlockSize
                 /\ InReach(entry[q], t.tokens[q])
      <4>1. q \in ToSet(s.run) /\ q \in Req /\ q \notin last(k)
        <5>1. ToSet(s.run) \subseteq Req
          BY <1>1, SetOf
        <5> QED BY <2>4, <5>1
      <4>2. t.held[q] = s.held[q] /\ t.tokens[q] = s.tokens[q]
        <5>1. t.held[q] = h_[q] /\ h_[q] = s.held[q]
          BY <3>1, <3>3, <3>6, <4>1
        <5>2. t.tokens[q] = s.tokens[q]
          BY <2>2, <3>6, <4>1, LoopFields
        <5> QED BY <5>1, <5>2
      <4> QED BY <3>4, <4>1, <4>2
    <3>7. entry[r].C + t.tokens[r] <= t.held[r] * BlockSize /\ InReach(entry[r], t.tokens[r])
      <4>1. t.tokens[r] = n
        BY <2>2, <2>3, LoopFields
      <4> DEFINE b == BlocksNeeded(entry[r], n)
                 v == t.held[r]
                 c == entry[r].C
      <4>2. c \in Nat /\ MaxModelLen \in Nat /\ BlockSize \in Nat \ {0} /\ v \in Nat
        BY <2>3, <3>2, <3>3, ObjectFields, Constants
      <4>3. b \in Nat /\ c + n <= b * BlockSize
        <5>1. entry[r].C + n <= MaxModelLen
          BY <2>2, <4>2 DEF InReach
        <5> QED BY <3>2, <5>1, NeededFacts
      <4>4. b <= v
        BY <3>3
      <4> HIDE DEF b, v, c
      <4>5. b * BlockSize <= v * BlockSize /\ b * BlockSize \in Int /\ v * BlockSize \in Int
        BY <4>2, <4>3, <4>4, Multiples
      <4>6. c + n <= v * BlockSize
        BY <4>2, <4>3, <4>5
      <4> QED BY <2>2, <4>1, <4>6 DEF c, v
    <3> QED BY <3>3, <3>5, <3>6, <3>7 DEF Covers
  <2>7. ASSUME NEW q \in Req, t.tokens[q] > 0
        PROVE  \E j \in 1 .. i : j <= Len(t.run) /\ t.run[j] = q
    <3>1. CASE q = r
      BY <2>5, <3>1
    <3>2. CASE q # r
      <4>1. s.tokens[q] > 0
        BY <2>2, <2>7, <3>2, LoopFields
      <4>2. PICK j \in 1 .. i - 1 : j <= Len(t.run) /\ t.run[j] = q
        BY <2>4, <4>1
      <4> QED BY <4>2
    <3> QED BY <3>1, <3>2
  <2> QED BY <1>2, <2>4, <2>6, <2>7 DEF Phase1Keeps
<1> QED BY <1>2, <1>3, <1>5, <1>6

LEMMA EmptyQueue ==
  ASSUME NEW s \in Seq(Req)
  PROVE  /\ <<>> \in Seq(Req) /\ Reverse(<<>>) = <<>> /\ s \o <<>> = s /\ <<>> \o s = s
         /\ ToSet(<<>>) = {} /\ Len(<<>>) = 0
<1>1. <<>> \in Seq(Req) /\ Len(<<>>) = 0
  BY EmptySeq
<1>2. Reverse(<<>>) = <<>>
  BY <1>1, ReverseFacts
<1>3. ToSet(<<>>) = {}
  BY DEF ToSet
<1> QED BY <1>1, <1>2, <1>3, ConcatEmptySeq

\* The first loop.
LEMMA Phase1Result ==
  ASSUME NEW entry, NEW run, NEW h, Schedulable(entry, run, h)
  PROVE  Phase1(entry, run, h) \in LoopType
         /\ Phase1Keeps(entry, run, Phase1(entry, run, h), Len(run))
<1>1. entry \in [Req -> Object] /\ run \in Seq(Req) /\ h \in [Req -> Nat] /\ Len(run) \in Nat
  BY DEF Schedulable
<1>2. PICK a : Phase1States(a, entry, run, h)
  BY <1>1, Phase1Loop
<1> DEFINE n == Len(run)
           S == [k \in 0 .. n |-> {s \in LoopType : Phase1Keeps(entry, run, s, k)}]
<1>3. a[0] \in S[0]
  <2> DEFINE s == a[0]
  <2>1. s \in LoopType /\ s = Start(run, h)
    BY <1>1, <1>2 DEF Phase1States
  <2> HIDE DEF s
  <2>2. /\ s.run = run /\ s.held = h /\ s.tokens = [r \in Req |-> 0]
        /\ s.preempted = <<>> /\ s.admitted = <<>>
    BY <2>1 DEF Start
  <2>3. s.run \o Reverse(s.preempted) = run
    BY <1>1, <2>2, EmptyQueue
  <2>4. Covers(entry, s)
    <3>1. \A r \in ToSet(run) : r \in Req /\ entry[r].C \in Nat
      BY <1>1, SetOf, ObjectFields
    <3>2. \A r \in ToSet(run) : s.tokens[r] = 0 /\ entry[r].C + 0 = entry[r].C
      BY <2>2, <3>1
    <3>3. \A r \in ToSet(run) : entry[r].C <= h[r] * BlockSize /\ entry[r].C < MaxModelLen
      BY DEF Schedulable
    <3>4. \A r \in ToSet(run) : /\ entry[r].C + s.tokens[r] <= s.held[r] * BlockSize
                                /\ InReach(entry[r], s.tokens[r])
      <4> TAKE r \in ToSet(run)
      <4>1. entry[r].C + s.tokens[r] = entry[r].C
        BY <3>2
      <4>2. InReach(entry[r], s.tokens[r])
        BY <3>2, <3>3, <4>1 DEF InReach
      <4> QED BY <2>2, <3>3, <4>1, <4>2
    <3> QED BY <2>2, <3>4 DEF Covers, Schedulable
  <2>5. \A r \in Req : ~(s.tokens[r] > 0)
    BY <2>2
  <2>6. Phase1Keeps(entry, run, s, 0)
    BY <2>2, <2>3, <2>4, <2>5 DEF Phase1Keeps
  <2> QED BY <1>1, <2>1, <2>6 DEF s
<1>4. ASSUME NEW k \in 1 .. n, a[k - 1] \in S[k - 1]
      PROVE  a[k] \in S[k]
  <2>1. k - 1 \in 0 .. n /\ k \in 0 .. n /\ k \in Nat \ {0}
    BY <1>1
  <2>2. a[k - 1] \in LoopType /\ Phase1Keeps(entry, run, a[k - 1], k - 1)
    BY <1>4, <2>1
  <2>3. a[k] = RunOne(entry, a[k - 1], k)
    BY <1>2 DEF Phase1States
  <2>4. a[k] \in LoopType /\ Phase1Keeps(entry, run, a[k], k)
    BY <2>1, <2>2, <2>3, Phase1Step
  <2> QED BY <2>1, <2>4
<1>5. \A k \in 0 .. n : a[k] \in S[k]
  <2> HIDE DEF n, S
  <2> QED BY <1>1, <1>3, <1>4, Stays DEF n
<1>6. a[n] \in LoopType /\ Phase1Keeps(entry, run, a[n], n)
  BY <1>1, <1>5
<1> QED BY <1>2, <1>6 DEF Phase1States

\* What is asked of the waiting requests that are offered.
Offerable(entry, queue) ==
  /\ queue \in Seq(Req)
  /\ \A r \in ToSet(queue) : entry[r].C = 0 /\ entry[r].T < MaxModelLen

\* After k of the offered: the admitted are the first of them.
Phase2Keeps(entry, left, queue, s, k) ==
  /\ s.preempted = <<>> /\ s.run = left \o s.admitted
  /\ \E m \in 0 .. k : s.admitted = SubSeq(queue, 1, m) /\ (~s.over => m = k)
  /\ Len(s.run) <= MaxRunning
  /\ Covers(entry, s)
  /\ \A r \in Req : s.tokens[r] > 0 => r \in ToSet(s.run)

\* One more of the offered.
LEMMA Phase2Step ==
  ASSUME NEW entry \in [Req -> Object], NEW left \in Seq(Req), NEW queue, Offerable(entry, queue),
         NEW k \in 1 .. Len(queue), NEW s \in LoopType, Phase2Keeps(entry, left, queue, s, k - 1),
         NEW t, t = AdmitOne(entry, s, queue[k])
  PROVE  t \in LoopType /\ Phase2Keeps(entry, left, queue, t, k)
<1> DEFINE r == queue[k]
<1>1. queue \in Seq(Req) /\ Len(queue) \in Nat /\ r \in Req /\ r \in ToSet(queue) /\ k \in Nat
  <2>1. queue \in Seq(Req)
    BY DEF Offerable
  <2> QED BY <2>1, SetOf
<1>2. entry[r].C = 0 /\ entry[r].T < MaxModelLen /\ entry[r] \in Object
  BY <1>1 DEF Offerable
<1>3. t \in LoopType /\ (Leaves(s, t) \/ (~s.over /\ Admits(entry, s, t, r)))
  BY <1>1, <1>2, AdmitOneCases
<1>4. PICK m \in 0 .. k - 1 : s.admitted = SubSeq(queue, 1, m) /\ (~s.over => m = k - 1)
  BY DEF Phase2Keeps
<1>5. CASE Leaves(s, t)
  <2>1. m \in 0 .. k
    BY <1>1
  <2>2. \E j \in 0 .. k : t.admitted = SubSeq(queue, 1, j) /\ (~t.over => j = k)
    BY <1>4, <1>5, <2>1 DEF Leaves
  <2>3. Covers(entry, t)
    BY <1>5 DEF Leaves, Covers, Phase2Keeps
  <2> QED BY <1>3, <1>5, <2>2, <2>3 DEF Leaves, Phase2Keeps
<1>6. CASE ~s.over /\ Admits(entry, s, t, r)
  <2>1. PICK n \in Nat : AdmitsWith(entry, s, t, r, n)
    BY <1>6 DEF Admits
  <2>2. /\ 0 < n /\ n <= entry[r].T /\ Len(s.run) < MaxRunning
        /\ Fits(s.held, r, entry[r], n, Headroom(s.run))
        /\ t.run = Append(s.run, r) /\ t.admitted = Append(s.admitted, r)
        /\ t.held = Allocate(s.held, r, entry[r], n)
        /\ t.tokens = [s.tokens EXCEPT ![r] = n] /\ t.preempted = s.preempted /\ ~t.over
    BY <2>1 DEF AdmitsWith, HasSeat
  <2> HIDE DEF r
  <2>3. /\ s.run \in Seq(Req) /\ s.admitted \in Seq(Req) /\ s.held \in [Req -> Nat]
        /\ s.tokens \in [Req -> Nat] /\ Len(s.run) \in Nat /\ MaxRunning \in Nat
    <3>1. MaxRunning \in Nat
      BY Constants
    <3>2. /\ s.run \in Seq(Req) /\ s.admitted \in Seq(Req) /\ s.held \in [Req -> Nat]
          /\ s.tokens \in [Req -> Nat]
      BY LoopFields
    <3> QED BY <3>1, <3>2
  <2>4. t.admitted = SubSeq(queue, 1, k)
    <3>1. s.admitted = SubSeq(queue, 1, k - 1)
      BY <1>4, <1>6
    <3>2. /\ SubSeq(queue, 1, k) = SubSeq(queue, 1, k - 1) \o <<queue[k]>>
      <4>1. 1 \in 1 .. Len(queue) /\ k \in 1 .. Len(queue)
        BY <1>1
      <4> QED BY <1>1, <4>1, SubSeqRecursiveSecond
    <3>3. Append(s.admitted, r) = s.admitted \o <<r>>
      BY <1>1, <2>3, AppendIsConcat
    <3> QED BY <2>2, <3>1, <3>2, <3>3 DEF r
  <2>5. t.run = left \o t.admitted
    <3> DEFINE in == s.admitted
               one == <<r>>
    <3>1. s.run = left \o in /\ in \in Seq(Req) /\ one \in Seq(Req)
      BY <1>1, <2>3 DEF Phase2Keeps
    <3>2. t.run = s.run \o one /\ t.admitted = in \o one
      <4>1. Append(s.run, r) = s.run \o <<r>>
        BY <1>1, <2>3, AppendIsConcat
      <4>2. Append(s.admitted, r) = s.admitted \o <<r>>
        BY <1>1, <2>3, AppendIsConcat
      <4> QED BY <2>2, <4>1, <4>2
    <3> HIDE DEF in, one
    <3>3. left \in Seq(Req)
      BY <1>1
    <3>4. Associates(left, in, one)
      BY <3>1, <3>3, JoinedLine
    <3>5. (left \o in) \o one = left \o (in \o one)
      BY <3>4 DEF Associates
    <3> QED BY <3>1, <3>2, <3>5
  <2>6. Len(t.run) <= MaxRunning
    <3>1. Len(t.run) = Len(s.run) + 1
      BY <1>1, <2>2, <2>3, AppendProperties
    <3> QED BY <2>2, <2>3, <3>1
  <2>7. ToSet(t.run) = ToSet(s.run) \cup {r}
    <3>1. t.run = s.run \o <<r>> /\ <<r>> \in Seq(Req)
      <4>1. Append(s.run, r) = s.run \o <<r>>
        BY <1>1, <2>3, AppendIsConcat
      <4> QED BY <1>1, <2>2, <4>1
    <3>2. ToSet(<<r>>) = {r}
      BY DEF ToSet
    <3> DEFINE x == s.run
               y == <<r>>
    <3>3. x \in Seq(Req) /\ y \in Seq(Req)
      BY <2>3, <3>1
    <3> HIDE DEF x, y
    <3>4. ToSet(x \o y) = ToSet(x) \cup ToSet(y)
      BY <3>3, SetOfConcat
    <3> QED BY <3>1, <3>2, <3>4 DEF x, y
  <2>8. Covers(entry, t)
    <3>1. Headroom(s.run) \in Nat
      BY Constants DEF Headroom
    <3>2. /\ t.held \in [Req -> Nat] /\ \A q \in Req \ {r} : t.held[q] = s.held[q]
          /\ BlocksNeeded(entry[r], n) <= t.held[r] /\ SumFunction(t.held) <= NumBlocks
      <4> DEFINE g == s.held
                 e == entry[r]
                 room == Headroom(s.run)
      <4>1. g \in [Req -> Nat] /\ e \in Object /\ room \in Nat /\ Fits(g, r, e, n, room)
        BY <1>2, <2>2, <2>3, <3>1
      <4>2. t.held = Allocate(g, r, e, n)
        BY <2>2
      <4> HIDE DEF g, e, room
      <4>3. Houses(Allocate(g, r, e, n), g, r, e, n)
        <5>1. g \in [Req -> Nat] /\ r \in Req /\ e \in Object /\ n \in Nat /\ room \in Nat
          BY <1>1, <4>1
        <5> QED BY <4>1, <5>1, AllocateHouses
      <4>4. Houses(t.held, g, r, e, n)
        BY <4>2, <4>3
      <4> QED BY <4>4 DEF Houses, g, e
    <3>3. /\ \A q \in Req : s.held[q] > 0 => q \in ToSet(s.run)
          /\ \A q \in ToSet(s.run) : /\ entry[q].C + s.tokens[q] <= s.held[q] * BlockSize
                                     /\ InReach(entry[q], s.tokens[q])
      BY DEF Phase2Keeps, Covers
    <3>4. \A q \in Req : t.held[q] > 0 => q \in ToSet(t.run)
      BY <2>7, <3>2, <3>3
    <3>5. ASSUME NEW q \in ToSet(t.run), q # r
          PROVE  /\ entry[q].C + t.tokens[q] <= t.held[q] * BlockSize
                 /\ InReach(entry[q], t.tokens[q])
      <4>1. q \in ToSet(s.run) /\ q \in Req
        BY <2>3, <2>7, <3>5, SetOf
      <4>2. t.held[q] = s.held[q] /\ t.tokens[q] = s.tokens[q]
        BY <2>2, <2>3, <3>2, <3>5, <4>1
      <4> QED BY <3>3, <4>1, <4>2
    <3>6. entry[r].C + t.tokens[r] <= t.held[r] * BlockSize /\ InReach(entry[r], t.tokens[r])
      <4> DEFINE b == BlocksNeeded(entry[r], n)
                 v == t.held[r]
      <4>1. /\ t.tokens[r] = n /\ entry[r].C + n = n /\ v \in Nat /\ entry[r].T \in Nat
            /\ MaxModelLen \in Nat /\ BlockSize \in Nat \ {0}
        BY <1>1, <1>2, <2>2, <2>3, <3>2, ObjectFields, Constants
      <4>2. n <= MaxModelLen /\ n < MaxModelLen
        BY <1>2, <2>2, <4>1
      <4>3. b \in Nat /\ n <= b * BlockSize
        <5>1. entry[r].C + n <= MaxModelLen
          BY <4>1, <4>2
        <5>2. b \in Nat /\ entry[r].C + n <= b * BlockSize
          BY <1>2, <5>1, NeededFacts
        <5> QED BY <4>1, <5>2
      <4>4. b <= v
        BY <3>2
      <4> HIDE DEF b, v
      <4>5. b * BlockSize <= v * BlockSize /\ b * BlockSize \in Int /\ v * BlockSize \in Int
        BY <4>1, <4>3, <4>4, Multiples
      <4>6. n <= v * BlockSize
        BY <4>3, <4>5
      <4>7. InReach(entry[r], t.tokens[r])
        BY <2>2, <4>1, <4>2 DEF InReach
      <4> QED BY <4>1, <4>6, <4>7 DEF v
    <3> QED BY <3>2, <3>4, <3>5, <3>6 DEF Covers
  <2>9. ASSUME NEW q \in Req, t.tokens[q] > 0 PROVE q \in ToSet(t.run)
    <3>1. CASE q # r
      <4>1. s.tokens[q] > 0
        BY <2>2, <2>3, <2>9, <3>1
      <4> QED BY <2>7, <4>1 DEF Phase2Keeps
    <3> QED BY <2>7, <3>1
  <2>10. \E j \in 0 .. k : t.admitted = SubSeq(queue, 1, j) /\ (~t.over => j = k)
    BY <1>1, <2>4
  <2>11. t.preempted = <<>>
    BY <2>2 DEF Phase2Keeps
  <2> QED BY <1>3, <2>5, <2>6, <2>8, <2>9, <2>10, <2>11 DEF Phase2Keeps
<1> QED BY <1>3, <1>5, <1>6

\* The second loop, when nobody was preempted.
LEMMA Phase2Result ==
  ASSUME NEW entry \in [Req -> Object], NEW s \in LoopType, NEW queue, Offerable(entry, queue),
         s.preempted = <<>>, s.admitted = <<>>, Covers(entry, s), Len(s.run) <= MaxRunning,
         \A r \in Req : s.tokens[r] > 0 => r \in ToSet(s.run)
  PROVE  Phase2(entry, s, queue) \in LoopType
         /\ Phase2Keeps(entry, s.run, queue, Phase2(entry, s, queue), Len(queue))
<1> DEFINE n == Len(queue)
           left == s.run
           S == [k \in 0 .. n |-> {u \in LoopType : Phase2Keeps(entry, left, queue, u, k)}]
<1>1. /\ queue \in Seq(Req) /\ n \in Nat /\ left \in Seq(Req)
      /\ \A k \in 1 .. n : entry[queue[k]].C = 0
  <2>1. queue \in Seq(Req) /\ left \in Seq(Req)
    BY LoopFields DEF Offerable
  <2>2. \A k \in 1 .. n : queue[k] \in ToSet(queue)
    BY <2>1, SetOf
  <2> QED BY <2>1, <2>2 DEF Offerable
<1>2. PICK a : Phase2States(a, entry, s, queue)
  BY <1>1, Phase2Loop
<1>3. a[0] \in S[0]
  <2> DEFINE u == a[0]
  <2>1. u = [s EXCEPT !.over = FALSE]
    BY <1>2 DEF Phase2States
  <2> HIDE DEF u
  <2>2. /\ u \in LoopType /\ u.run = s.run /\ u.held = s.held /\ u.tokens = s.tokens
        /\ u.preempted = <<>> /\ u.admitted = <<>>
    BY <2>1 DEF LoopType
  <2>3. u.run = left \o u.admitted
    BY <1>1, <2>2, EmptyQueue
  <2>4. SubSeq(queue, 1, 0) = <<>>
    BY SubSeqEmpty
  <2>5. \E m \in 0 .. 0 : u.admitted = SubSeq(queue, 1, m) /\ (~u.over => m = 0)
    BY <2>2, <2>4
  <2>6. Covers(entry, u)
    BY <2>2 DEF Covers
  <2>7. Phase2Keeps(entry, left, queue, u, 0)
    <3> HIDE DEF left
    <3>1. Len(u.run) <= MaxRunning /\ \A r \in Req : u.tokens[r] > 0 => r \in ToSet(u.run)
      BY <2>2
    <3> QED BY <2>2, <2>3, <2>5, <2>6, <3>1 DEF Phase2Keeps
  <2> QED BY <1>1, <2>2, <2>7 DEF u
<1>4. ASSUME NEW k \in 1 .. n, a[k - 1] \in S[k - 1]
      PROVE  a[k] \in S[k]
  <2>1. k - 1 \in 0 .. n /\ k \in 0 .. n
    BY <1>1
  <2>2. a[k - 1] \in LoopType /\ Phase2Keeps(entry, left, queue, a[k - 1], k - 1)
    BY <1>4, <2>1
  <2>3. a[k] = AdmitOne(entry, a[k - 1], queue[k])
    BY <1>2 DEF Phase2States
  <2> HIDE DEF left
  <2>4. a[k] \in LoopType /\ Phase2Keeps(entry, left, queue, a[k], k)
    BY <1>1, <2>1, <2>2, <2>3, Phase2Step
  <2> QED BY <2>1, <2>4
<1>5. \A k \in 0 .. n : a[k] \in S[k]
  <2> HIDE DEF n, S
  <2> QED BY <1>1, <1>3, <1>4, Stays DEF n
<1>6. a[n] \in LoopType /\ Phase2Keeps(entry, left, queue, a[n], n)
  BY <1>1, <1>5
<1> QED BY <1>2, <1>6 DEF Phase2States

\* The running queue a step leaves: the front of the one before, and the first
\* of the offered behind it; not both preempted and admitted.
StepShape(d, left, run, queue) ==
  /\ left \in Seq(Req) /\ d.run = left \o d.admitted /\ left \o Reverse(d.preempted) = run
  /\ \E m \in 0 .. Len(queue) : d.admitted = SubSeq(queue, 1, m)
  /\ d.preempted = <<>> \/ d.admitted = <<>>

\* What a step leaves.
StepKeeps(entry, run, queue, d) ==
  /\ d \in LoopType /\ Len(d.run) <= MaxRunning
  /\ Covers(entry, d)
  /\ \A r \in Req : d.tokens[r] > 0 => r \in ToSet(d.run)
  /\ \E left : StepShape(d, left, run, queue)

LEMMA ScheduleKeeps ==
  ASSUME NEW entry, NEW run, NEW h, Schedulable(entry, run, h), Len(run) <= MaxRunning,
         NEW queue, Offerable(entry, queue)
  PROVE  StepKeeps(entry, run, queue, Schedule(entry, run, queue, h))
<1> DEFINE s == Phase1(entry, run, h)
           d == Schedule(entry, run, queue, h)
<1>1. d = Phase2(entry, s, queue)
  BY DEF Schedule, Once
<1>2. s \in LoopType /\ Phase1Keeps(entry, run, s, Len(run))
  BY Phase1Result
<1> HIDE DEF s, d
<1>3. /\ entry \in [Req -> Object] /\ run \in Seq(Req) /\ queue \in Seq(Req)
      /\ s.run \in Seq(Req) /\ s.preempted \in Seq(Req) /\ s.tokens \in [Req -> Nat]
  BY <1>2, LoopFields DEF Schedulable, Offerable
<1>4. /\ s.run \o Reverse(s.preempted) = run /\ s.admitted = <<>> /\ Covers(entry, s)
  BY <1>2 DEF Phase1Keeps
<1>5. Len(s.run) <= MaxRunning
  <2> DEFINE gone == Reverse(s.preempted)
  <2>1. gone \in Seq(Req)
    BY <1>3, ReverseFacts
  <2> HIDE DEF gone
  <2>2. s.run \o gone = run
    BY <1>4 DEF gone
  <2>3. Len(s.run \o gone) = Len(s.run) + Len(gone) /\ Len(s.run) \in Nat /\ Len(gone) \in Nat
    BY <1>3, <2>1, ConcatProperties
  <2> QED BY <2>2, <2>3, Constants
<1>6. \A r \in Req : s.tokens[r] > 0 => r \in ToSet(s.run)
  <2> TAKE r \in Req
  <2> HAVE s.tokens[r] > 0
  <2>1. PICK j \in 1 .. Len(run) : j <= Len(s.run) /\ s.run[j] = r
    BY <1>2 DEF Phase1Keeps
  <2>2. j \in 1 .. Len(s.run)
    BY <1>3, <2>1
  <2> QED BY <1>3, <2>1, <2>2, SetOf
<1>7. ASSUME s.preempted # <<>> PROVE StepKeeps(entry, run, queue, d)
  <2>1. d = s
    BY <1>1, <1>7 DEF Phase2
  <2>2. s.run \o s.admitted = s.run
    BY <1>3, <1>4, EmptyQueue
  <2>3. s.admitted = SubSeq(queue, 1, 0) /\ 0 \in 0 .. Len(queue)
    BY <1>3, <1>4, SubSeqEmpty
  <2>4. StepShape(d, s.run, run, queue)
    BY <1>3, <1>4, <2>1, <2>2, <2>3 DEF StepShape
  <2> QED BY <1>2, <1>4, <1>5, <1>6, <2>1, <2>4 DEF StepKeeps
<1>8. ASSUME s.preempted = <<>> PROVE StepKeeps(entry, run, queue, d)
  <2>1. d \in LoopType /\ Phase2Keeps(entry, s.run, queue, d, Len(queue))
    BY <1>1, <1>2, <1>3, <1>4, <1>5, <1>6, <1>8, Phase2Result
  <2>2. s.run = run
    BY <1>3, <1>4, <1>8, EmptyQueue
  <2>3. d.preempted = <<>> /\ s.run \o Reverse(d.preempted) = run
    BY <1>4, <1>8, <2>1 DEF Phase2Keeps
  <2>4. StepShape(d, s.run, run, queue)
    BY <1>3, <2>1, <2>3 DEF StepShape, Phase2Keeps
  <2>5. Covers(entry, d) /\ Len(d.run) <= MaxRunning
        /\ \A r \in Req : d.tokens[r] > 0 => r \in ToSet(d.run)
    BY <2>1 DEF Phase2Keeps
  <2> QED BY <2>1, <2>4, <2>5 DEF StepKeeps
<1> QED BY <1>7, <1>8 DEF d

\* Rebuilding the waiting queue puts everybody back in line.
LEMMA LineStays ==
  ASSUME NEW run \in Seq(Req), NEW offered \in Seq(Req), NEW rest \in Seq(Req),
         NEW d \in LoopType, NEW left, StepShape(d, left, run, offered)
  PROVE  /\ Rebuilt(d, offered, rest) \in Seq(Req)
         /\ d.run \o Rebuilt(d, offered, rest) = run \o (offered \o rest)
<1> DEFINE back == Reverse(d.preempted)
           in == d.admitted
           k == Len(in) + 1
           out == SubSeq(offered, k, Len(offered))
<1>1. /\ left \in Seq(Req) /\ d.run = left \o in /\ left \o back = run
      /\ in \in Seq(Req) /\ d.preempted \in Seq(Req)
      /\ d.preempted = <<>> \/ in = <<>>
  BY LoopFields DEF StepShape
<1>2. back \in Seq(Req)
  BY <1>1, ReverseFacts
<1>3. PICK m \in 0 .. Len(offered) : in = SubSeq(offered, 1, m)
  BY DEF StepShape
<1>4. Len(in) = m /\ Len(offered) \in Nat
  BY <1>3
<1>5. out \in Seq(Req) /\ in \o out = offered
  <2>1. /\ 1 \in 1 .. Len(offered) + 1 /\ m \in 1 - 1 .. Len(offered)
        /\ Len(offered) \in m .. Len(offered)
    BY <1>4
  <2>2. SubSeq(offered, 1, m) \o SubSeq(offered, m + 1, Len(offered)) = SubSeq(offered, 1, Len(offered))
    BY <2>1, ConcatAdjacentSubSeq
  <2>3. SubSeq(offered, 1, Len(offered)) = offered
    BY SubSeqFull
  <2>4. SubSeq(offered, m + 1, Len(offered)) \in Seq(Req)
    BY <1>4
  <2> QED BY <1>3, <1>4, <2>2, <2>3, <2>4
<1>6. Rebuilt(d, offered, rest) = back \o out \o rest
  BY DEF Rebuilt
<1> HIDE DEF back, in, out
<1>7. back \o out \in Seq(Req) /\ back \o out \o rest \in Seq(Req) /\ out \o rest \in Seq(Req)
  <2>1. back \o out \in Seq(Req) /\ out \o rest \in Seq(Req)
    BY <1>2, <1>5, ConcatProperties
  <2> QED BY <2>1, ConcatProperties
<1>8. CASE in = <<>>
  <2>1. d.run = left /\ out = offered
    BY <1>1, <1>5, <1>8, EmptyQueue
  <2>2. (back \o offered) \o rest = back \o (offered \o rest)
    <3>1. back \in Seq(Req) /\ offered \in Seq(Req) /\ rest \in Seq(Req)
      BY <1>2
    <3>2. Associates(back, offered, rest)
      BY <3>1, JoinedLine
    <3> QED BY <3>2 DEF Associates
  <2>3. offered \o rest \in Seq(Req)
    BY ConcatProperties
  <2>4. left \o (back \o (offered \o rest)) = (left \o back) \o (offered \o rest)
    <3> DEFINE w == offered \o rest
    <3>1. w \in Seq(Req) /\ left \in Seq(Req) /\ back \in Seq(Req)
      BY <1>1, <1>2, <2>3
    <3> HIDE DEF w
    <3>2. Associates(left, back, w)
      BY <3>1, JoinedLine
    <3> QED BY <3>2 DEF w, Associates
  <2> QED BY <1>1, <1>6, <1>7, <2>1, <2>2, <2>4
<1>9. CASE d.preempted = <<>>
  <2>1. back = <<>>
    BY <1>9, EmptyQueue DEF back
  <2>2. left = run /\ back \o out = out
    BY <1>1, <1>5, <2>1, EmptyQueue
  <2>3. (run \o in) \o (out \o rest) = run \o (in \o (out \o rest))
    <3> DEFINE w == out \o rest
    <3>1. w \in Seq(Req) /\ in \in Seq(Req)
      BY <1>1, <1>7
    <3> HIDE DEF w
    <3>2. run \in Seq(Req)
      OBVIOUS
    <3>3. Associates(run, in, w)
      BY <3>1, <3>2, JoinedLine
    <3> QED BY <3>3 DEF w, Associates
  <2>4. in \o (out \o rest) = (in \o out) \o rest
    <3>1. in \in Seq(Req) /\ out \in Seq(Req)
      BY <1>1, <1>5
    <3>2. rest \in Seq(Req)
      OBVIOUS
    <3>3. Associates(in, out, rest)
      BY <3>1, <3>2, JoinedLine
    <3> QED BY <3>3 DEF Associates
  <2> QED BY <1>1, <1>5, <1>6, <1>7, <2>2, <2>3, <2>4
<1> QED BY <1>1, <1>8, <1>9

------------------------------------------------------------------------------
(* Requests that leave a queue                                               *)

\* The recursive function Without is defined by.
KeepsOthers(g, q, S) ==
  g = [s \in SUBSET DOMAIN q |->
         IF s = {} THEN <<>>
         ELSE IF q[Max(s)] \in S THEN g[s \ {Max(s)}] ELSE Append(g[s \ {Max(s)}], q[Max(s)])]

\* The queue after k requests were looked at.
WithoutStates(a, q, S) ==
  /\ a[0] = <<>>
  /\ \A k \in 1 .. Len(q) : a[k] = IF q[k] \in S THEN a[k - 1] ELSE Append(a[k - 1], q[k])
  /\ Without(q, S) = a[Len(q)]

LEMMA WithoutLoop ==
  ASSUME NEW q \in Seq(Req), NEW S
  PROVE  \E a : WithoutStates(a, q, S)
<1> DEFINE n == Len(q)
           D == 1 .. n
           U == Seq(Req)
           step == [z \in D \X U |-> IF q[z[1]] \in S THEN z[2] ELSE Append(z[2], q[z[1]])]
           f == CHOOSE g : KeepsOthers(g, q, S)
<1>1. n \in Nat /\ D = DOMAIN q /\ \A i \in D : q[i] \in Req
  OBVIOUS
<1>2. Without(q, S) = f[DOMAIN q]
  BY DEF Without, FoldLeft, MapThenFoldSet, KeepsOthers
<1>3. <<>> \in U
  OBVIOUS
<1>4. Closed(step, D, U)
  <2>1. ASSUME NEW i \in D, NEW u \in U PROVE step[<<i, u>>] \in U
    <3>1. step[<<i, u>>] = IF q[i] \in S THEN u ELSE Append(u, q[i])
      OBVIOUS
    <3>2. Append(u, q[i]) \in U
      BY <1>1, AppendProperties
    <3> HIDE DEF step, U
    <3> QED BY <3>1, <3>2
  <2> QED BY <2>1 DEF Closed
<1>5. PICK g \in [SUBSET D -> U] : IsLoop(g, n, <<>>, step)
  <2>1. HasLoop(n, U, <<>>, step)
    <3> HIDE DEF n, step, U
    <3> QED BY <1>1, <1>3, <1>4, LoopExists DEF D
  <2> QED BY <2>1 DEF HasLoop
<1>6. KeepsOthers(g, q, S)
  <2>1. \A s \in SUBSET D : s # {} =>
          step[<<Max(s), g[s \ {Max(s)}]>>]
            = IF q[Max(s)] \in S THEN g[s \ {Max(s)}] ELSE Append(g[s \ {Max(s)}], q[Max(s)])
    <3> TAKE s \in SUBSET D
    <3> HAVE s # {}
    <3> DEFINE m == Max(s)
               u == g[s \ {m}]
    <3>1. m \in D
      BY <1>1, MaxOf
    <3>2. u \in U
      BY <1>5
    <3> HIDE DEF m, u
    <3>3. step[<<m, u>>] = IF q[m] \in S THEN u ELSE Append(u, q[m])
      BY <1>1, <3>1, <3>2
    <3> HIDE DEF step
    <3> QED BY <3>3 DEF m, u
  <2> HIDE DEF step, D
  <2>2. g = [s \in SUBSET D |->
              IF s = {} THEN <<>>
              ELSE IF q[Max(s)] \in S THEN g[s \ {Max(s)}] ELSE Append(g[s \ {Max(s)}], q[Max(s)])]
    BY <1>5, <2>1 DEF IsLoop, D
  <2> QED BY <1>1, <2>2 DEF KeepsOthers
<1>7. KeepsOthers(f, q, S)
  BY <1>6
<1> HIDE DEF f
<1>8. \A s \in SUBSET D : f[s] = IF s = {} THEN <<>>
         ELSE IF q[Max(s)] \in S THEN f[s \ {Max(s)}] ELSE Append(f[s \ {Max(s)}], q[Max(s)])
  BY <1>1, <1>7 DEF KeepsOthers
<1> DEFINE a == [k \in 0 .. n |-> f[1 .. k]]
<1>9. a[0] = <<>>
  <2>1. 1 .. 0 = {} /\ {} \in SUBSET D
    OBVIOUS
  <2> HIDE DEF D
  <2>2. f[{}] = <<>>
    BY <1>8, <2>1
  <2> QED BY <2>1, <2>2
<1>10. \A k \in 1 .. n : a[k] = IF q[k] \in S THEN a[k - 1] ELSE Append(a[k - 1], q[k])
  <2> TAKE k \in 1 .. n
  <2> DEFINE s == 1 .. k
  <2>1. s \in SUBSET D /\ s # {} /\ Max(s) = k /\ s \ {k} = 1 .. k - 1
    BY <1>1, MaxUpTo
  <2>2. a[k] = f[s] /\ a[k - 1] = f[1 .. k - 1]
    BY <1>1
  <2> HIDE DEF D, s, a
  <2>3. f[s] = IF q[Max(s)] \in S THEN f[s \ {Max(s)}] ELSE Append(f[s \ {Max(s)}], q[Max(s)])
    BY <1>8, <2>1
  <2> QED BY <2>1, <2>2, <2>3
<1>11. Without(q, S) = a[n]
  BY <1>1, <1>2
<1> HIDE DEF a
<1> QED BY <1>9, <1>10, <1>11 DEF WithoutStates

\* After k requests: the others so far, in their order.
Others(q, S, t, k) ==
  /\ t \in Seq(Req) /\ Len(t) <= k
  /\ \A x : x \in ToSet(t) <=> x \notin S /\ \E i \in 1 .. k : q[i] = x
  /\ Sorted(q) => Sorted(t)

LEMMA OneMore ==
  ASSUME NEW t \in Seq(Req), NEW x \in Req
  PROVE  /\ Append(t, x) \in Seq(Req) /\ Len(Append(t, x)) = Len(t) + 1
         /\ ToSet(Append(t, x)) = ToSet(t) \cup {x}
         /\ Sorted(t) /\ (\A y \in ToSet(t) : y < x) => Sorted(Append(t, x))
<1> DEFINE u == Append(t, x)
<1>1. /\ u \in Seq(Req) /\ Len(u) = Len(t) + 1 /\ Len(t) \in Nat /\ u[Len(t) + 1] = x
      /\ \A i \in 1 .. Len(t) : u[i] = t[i]
  BY AppendProperties
<1> HIDE DEF u
<1>2. DOMAIN t = 1 .. Len(t) /\ DOMAIN u = 1 .. Len(t) + 1 /\ Len(t) + 1 \in 1 .. Len(t) + 1
  BY <1>1
<1>3. \A i \in 1 .. Len(t) + 1 : i \in 1 .. Len(t) \/ i = Len(t) + 1
  BY <1>1
<1>4. ToSet(u) = ToSet(t) \cup {x}
  <2>1. \A y : y \in ToSet(u) <=> \E i \in 1 .. Len(t) + 1 : u[i] = y
    BY <1>1, SetOf
  <2>2. \A y : y \in ToSet(t) <=> \E i \in 1 .. Len(t) : t[i] = y
    BY SetOf
  <2>3. \A i \in 1 .. Len(t) : i \in 1 .. Len(t) + 1
    BY <1>1
  <2>4. ASSUME NEW y \in ToSet(u) PROVE y \in ToSet(t) \cup {x}
    <3>1. PICK i \in 1 .. Len(t) + 1 : u[i] = y
      BY <2>1, <2>4
    <3> QED BY <1>1, <1>3, <2>2, <3>1
  <2>5. ASSUME NEW y \in ToSet(t) PROVE y \in ToSet(u)
    <3>1. PICK i \in 1 .. Len(t) : t[i] = y
      BY <2>2, <2>5
    <3> QED BY <1>1, <2>1, <2>3, <3>1
  <2>6. x \in ToSet(u)
    BY <1>1, <1>2, <2>1
  <2> QED BY <2>4, <2>5, <2>6
<1>5. ASSUME Sorted(t), \A y \in ToSet(t) : y < x PROVE Sorted(u)
  <2>1. ASSUME NEW i \in DOMAIN u, NEW j \in DOMAIN u, i < j PROVE u[i] < u[j]
    <3>1. i \in 1 .. Len(t)
      BY <1>1, <1>2, <2>1
    <3>2. CASE j \in 1 .. Len(t)
      <4>1. t[i] < t[j]
        BY <1>2, <1>5, <2>1, <3>1, <3>2 DEF Sorted
      <4> QED BY <1>1, <3>1, <3>2, <4>1
    <3>3. CASE j = Len(t) + 1
      <4>1. t[i] \in ToSet(t)
        BY <3>1, SetOf
      <4>2. t[i] < x
        BY <1>5, <4>1
      <4> QED BY <1>1, <3>1, <3>3, <4>2
    <3> QED BY <1>2, <1>3, <3>2, <3>3
  <2> QED BY <2>1 DEF Sorted
<1> QED BY <1>1, <1>4, <1>5 DEF u

LEMMA WithoutFacts ==
  ASSUME NEW q \in Seq(Req), NEW S
  PROVE  /\ Without(q, S) \in Seq(Req) /\ Len(Without(q, S)) <= Len(q)
         /\ ToSet(Without(q, S)) = ToSet(q) \ S
         /\ Sorted(q) => Sorted(Without(q, S))
<1> DEFINE n == Len(q)
<1>1. n \in Nat /\ \A i \in 1 .. n : q[i] \in Req /\ q[i] \in Nat
  <2>1. n \in Nat /\ \A i \in 1 .. n : q[i] \in Req
    OBVIOUS
  <2> QED BY <2>1, Constants
<1>2. PICK a : WithoutStates(a, q, S)
  BY WithoutLoop
<1> DEFINE A == [k \in 0 .. n |-> {t \in Seq(Req) : Others(q, S, t, k)}]
<1>3. a[0] \in A[0]
  <2>1. a[0] = <<>> /\ 0 \in 0 .. n /\ <<>> \in Seq(Req)
    BY <1>1, <1>2 DEF WithoutStates
  <2>2. Others(q, S, <<>>, 0)
    <3>1. /\ Len(<<>>) <= 0 /\ \A x : x \notin ToSet(<<>>)
          /\ ~ \E i \in 1 .. 0 : TRUE
      BY DEF ToSet
    <3>2. Sorted(<<>>)
      BY DEF Sorted
    <3> QED BY <2>1, <3>1, <3>2 DEF Others
  <2> QED BY <2>1, <2>2
<1>4. ASSUME NEW k \in 1 .. n, a[k - 1] \in A[k - 1] PROVE a[k] \in A[k]
  <2>1. k - 1 \in 0 .. n /\ k \in 0 .. n /\ k \in 1 .. k /\ q[k] \in Req
        /\ (\A i \in 1 .. k : i \in 1 .. k - 1 \/ i = k)
        /\ (\A i \in 1 .. k - 1 : i \in 1 .. k /\ i \in 1 .. n /\ i < k)
    BY <1>1
  <2> DEFINE t == a[k - 1]
             x == q[k]
  <2>2. t \in Seq(Req) /\ Others(q, S, t, k - 1)
    BY <1>4, <2>1
  <2>3. a[k] = IF x \in S THEN t ELSE Append(t, x)
    BY <1>2 DEF WithoutStates
  <2> HIDE DEF t
  <2>4. CASE x \in S
    <3>1. Len(t) <= k
      BY <2>2 DEF Others
    <3>2. \A y : y \in ToSet(t) <=> y \notin S /\ \E i \in 1 .. k : q[i] = y
      BY <2>1, <2>2, <2>4 DEF Others
    <3>3. Others(q, S, t, k)
      BY <2>2, <3>1, <3>2 DEF Others
    <3> QED BY <2>1, <2>2, <2>3, <2>4, <3>3
  <2>5. CASE x \notin S
    <3> DEFINE u == Append(t, x)
    <3>1. /\ u \in Seq(Req) /\ Len(u) = Len(t) + 1 /\ ToSet(u) = ToSet(t) \cup {x}
          /\ Sorted(t) /\ (\A y \in ToSet(t) : y < x) => Sorted(u)
      BY <2>1, <2>2, OneMore
    <3> HIDE DEF u
    <3>2. Len(u) <= k
      BY <2>2, <3>1 DEF Others
    <3>3. \A y : y \in ToSet(u) <=> y \notin S /\ \E i \in 1 .. k : q[i] = y
      BY <2>1, <2>2, <2>5, <3>1 DEF Others
    <3>4. ASSUME Sorted(q) PROVE Sorted(u)
      <4>1. ASSUME NEW y \in ToSet(t) PROVE y < x
        <5>1. PICK i \in 1 .. k - 1 : q[i] = y
          BY <2>2, <4>1 DEF Others
        <5>2. i \in DOMAIN q /\ k \in DOMAIN q /\ i < k
          BY <1>1, <2>1, <5>1
        <5> QED BY <3>4, <5>1, <5>2 DEF Sorted
      <4> QED BY <2>2, <3>1, <3>4, <4>1 DEF Others
    <3>5. Others(q, S, u, k)
      BY <3>1, <3>2, <3>3, <3>4 DEF Others
    <3>6. a[k] = u
      BY <2>3, <2>5 DEF u
    <3> QED BY <2>1, <3>1, <3>5, <3>6
  <2> QED BY <2>4, <2>5
<1>5. \A k \in 0 .. n : a[k] \in A[k]
  <2> HIDE DEF A, n
  <2> QED BY <1>1, <1>3, <1>4, Stays
<1>6. a[n] \in Seq(Req) /\ Others(q, S, a[n], n) /\ Without(q, S) = a[n]
  BY <1>1, <1>2, <1>5 DEF WithoutStates
<1>7. \A x : x \in ToSet(q) <=> \E i \in 1 .. n : q[i] = x
  BY SetOf
<1> HIDE DEF n
<1>8. ToSet(a[n]) = ToSet(q) \ S
  BY <1>6, <1>7 DEF Others
<1> QED BY <1>6, <1>8 DEF Others, n

------------------------------------------------------------------------------
(***************************************************************************)
(* The invariant.  Its parts are stated of the records rq, the queues run  *)
(* and wait, the blocks h and the table tb, so that a step is a lemma about *)
(* the old values of them and the new ones.                                *)
(***************************************************************************)

Waits(e) == e.status \in {"WAITING", "PREEMPTED"}

\* The queues hold everybody by status, in the order of arrival.
Placed(rq, run, wait) ==
  /\ run \in Seq(Req) /\ wait \in Seq(Req) /\ Sorted(run \o wait)
  /\ \A r \in Req : /\ r \in ToSet(run) <=> rq[r].status = "RUNNING"
                    /\ r \in ToSet(wait) <=> Waits(rq[r])

\* The blocks held are there, and cover what running requests computed.
Housed(rq, h) ==
  /\ h \in [Req -> Nat] /\ SumFunction(h) <= NumBlocks
  /\ \A r \in Req : /\ h[r] > 0 => rq[r].status = "RUNNING"
                    /\ rq[r].status = "RUNNING" => rq[r].C <= h[r] * BlockSize

\* What a request has computed fits its context; it has computed nothing unless
\* it runs or is over, and is over once it is as long as it may be.
Sound(e, r) ==
  /\ e.C < MaxModelLen
  /\ e.status = "NEW" \/ Waits(e) => e.C = 0
  /\ e.status # "FINISHED" => e.T < LengthCap(r)

\* Requests arrive in the order of their numbers.
Lives(rq) ==
  /\ rq \in [Req -> Object] /\ \A r \in Req : Sound(rq[r], r)
  /\ \A q, p \in Req : q < p /\ rq[p].status # "NEW" => rq[q].status # "NEW"

\* Both records of a running request agree on what is computed.
Agrees(rq, tb, run) == \A r \in ToSet(run) : tb[r] # NoEntry => tb[r].C = rq[r].C

IInv ==
  /\ TypeOK
  /\ Placed(req, running, waiting) /\ Housed(req, held) /\ Lives(req)
  /\ ~dirty => Agrees(req, table, running)

\* The length a request may have.
LEMMA CapFacts ==
  ASSUME NEW r \in Req
  PROVE  /\ LengthCap(r) \in Nat /\ LengthCap(r) <= MaxModelLen /\ PromptLen[r] < LengthCap(r)
         /\ BurstLimit(r) \in Int /\ BurstLimit(r) < MaxModelLen
<1> DEFINE a == PromptLen[r] + MaxTokens[r]
           b == MaxModelLen - 1
<1>1. /\ a \in Nat /\ MaxModelLen \in Nat \ {0} /\ b \in Int /\ PromptLen[r] \in Nat
      /\ PromptLen[r] < a /\ PromptLen[r] < MaxModelLen
  BY LoopAssumption DEF LoopAssumption
<1>2. Min({MaxModelLen, a}) = IF MaxModelLen <= a THEN MaxModelLen ELSE a
  <2> HIDE DEF a
  <2> QED BY <1>1, Pairs
<1>3. Min({b, a}) = IF b <= a THEN b ELSE a
  <2>1. a \in Int /\ b \in Int
    BY <1>1
  <2> HIDE DEF a, b
  <2> QED BY <2>1, Pairs
<1>4. LengthCap(r) = Min({MaxModelLen, a}) /\ BurstLimit(r) = Min({b, a})
  BY DEF LengthCap, BurstLimit
<1> QED BY <1>1, <1>2, <1>3, <1>4

\* What marshalling and applying a step do to an entry.
LEMMA PackFacts ==
  ASSUME NEW e \in Object
  PROVE  /\ Pack(e) \in Entry /\ Pack(e) \in Object /\ Pack(e) # NoEntry
         /\ Pack(e).C = e.C /\ Pack(e).T = e.T /\ Pack(e).status = e.status
<1> DEFINE p == Max({0, e.P})
<1>1. e.P \in Int
  BY ObjectFields
<1>2. p \in Nat
  <2>1. p = IF 0 >= e.P THEN 0 ELSE e.P
    BY <1>1, Pairs
  <2> QED BY <1>1, <2>1
<1>3. Pack(e) = [e EXCEPT !.P = p]
  BY DEF Pack
<1> HIDE DEF p
<1>4. Pack(e) \in Entry /\ Pack(e).C = e.C /\ Pack(e).T = e.T /\ Pack(e).status = e.status
  BY <1>2, <1>3 DEF Object, Entry
<1>5. Pack(e) \in Object
  BY <1>2, <1>3 DEF Object
<1> QED BY <1>4, <1>5, EntryAssumption DEF EntryAssumption

LEMMA AdvanceFacts ==
  ASSUME NEW e \in Object, NEW n \in Nat
  PROVE  /\ Advance(e, n) \in Object /\ Advance(e, n).C = e.C + n /\ Advance(e, n).T = e.T
         /\ Advance(e, n).status = e.status
         /\ e \in Entry => Advance(e, n) \in Entry
<1> DEFINE c == e.C + n
           k == c < e.T + e.P
           p == IF k THEN e.P ELSE e.P + 1
<1>1. Advance(e, n) = [e EXCEPT !.C = c, !.chunk = k, !.P = p]
  BY DEF Advance
<1>2. c \in Nat /\ k \in BOOLEAN /\ p \in Int /\ (e.P \in Nat => p \in Nat)
  BY ObjectFields
<1>3. e \in Entry => e.P \in Nat
  BY DEF Entry
<1> HIDE DEF c, k, p
<1>4. /\ Advance(e, n) \in Object /\ Advance(e, n).C = c /\ Advance(e, n).T = e.T
      /\ Advance(e, n).status = e.status
  BY <1>1, <1>2 DEF Object
<1>5. e \in Entry => Advance(e, n) \in Entry
  BY <1>1, <1>2, <1>3 DEF Entry
<1> QED BY <1>4, <1>5 DEF c

LEMMA PreemptFacts ==
  ASSUME NEW e \in Object
  PROVE  /\ Preempt(e) \in Object /\ Preempt(e).C = 0 /\ Preempt(e).T = e.T
         /\ Preempt(e).status = "PREEMPTED"
         /\ e \in Entry => Preempt(e) \in Entry
<1> DEFINE k == 0 < e.T
           none == 0
           status == "PREEMPTED"
<1>1. Preempt(e) = [e EXCEPT !.status = status, !.C = none, !.P = none, !.chunk = k]
  BY DEF Preempt
<1>2. status \in Statuses /\ k \in BOOLEAN /\ none \in Nat /\ none \in Int
  BY DEF Statuses, Live
<1> HIDE DEF k, none, status
<1>3. /\ Preempt(e) \in Object /\ Preempt(e).C = none /\ Preempt(e).T = e.T
      /\ Preempt(e).status = status
  BY <1>1, <1>2 DEF Object
<1>4. e \in Entry => Preempt(e) \in Entry
  BY <1>1, <1>2 DEF Entry
<1> QED BY <1>3, <1>4 DEF none, status

LEMMA AdmittedFacts ==
  ASSUME NEW e \in Object
  PROVE  LET f == [e EXCEPT !.status = "RUNNING"]
         IN  /\ f \in Object /\ f.C = e.C /\ f.T = e.T /\ f.status = "RUNNING"
             /\ e \in Entry => f \in Entry
<1>1. "RUNNING" \in Statuses
  BY DEF Statuses, Live
<1> QED BY <1>1 DEF Object, Entry

LEMMA BurstAdvanceFacts ==
  ASSUME NEW e \in Object, NEW n \in Nat
  PROVE  /\ BurstAdvance(e, n) \in Object /\ BurstAdvance(e, n).C = e.C + n
         /\ BurstAdvance(e, n).T = e.T /\ BurstAdvance(e, n).status = e.status
         /\ e \in Entry => BurstAdvance(e, n) \in Entry
<1> DEFINE c == e.C + n
           k == c < e.T + e.P
           p == e.P + n
<1>1. BurstAdvance(e, n) = [e EXCEPT !.C = c, !.chunk = k, !.P = p]
  BY DEF BurstAdvance
<1>2. c \in Nat /\ k \in BOOLEAN /\ p \in Int /\ (e.P \in Nat => p \in Nat)
  BY ObjectFields
<1>3. e \in Entry => e.P \in Nat
  BY DEF Entry
<1> HIDE DEF c, k, p
<1>4. /\ BurstAdvance(e, n) \in Object /\ BurstAdvance(e, n).C = c /\ BurstAdvance(e, n).T = e.T
      /\ BurstAdvance(e, n).status = e.status
  BY <1>1, <1>2 DEF Object
<1>5. e \in Entry => BurstAdvance(e, n) \in Entry
  BY <1>1, <1>2, <1>3 DEF Entry
<1> QED BY <1>4, <1>5 DEF c

\* What a step did to the record e of the request r, which is now a.
AppliedTo(e, a, d, r) ==
  /\ a \in Object /\ a.T = e.T
  /\ e \in Entry => a \in Entry
  /\ r \in ToSet(d.preempted) => a.status = "PREEMPTED" /\ a.C = 0
  /\ r \notin ToSet(d.preempted) =>
       /\ a.C = e.C + d.tokens[r]
       /\ a.status = IF r \in ToSet(d.admitted) THEN "RUNNING" ELSE e.status

LEMMA AppliedFacts ==
  ASSUME NEW entry, NEW d \in LoopType, NEW r \in Req
  PROVE  /\ entry[r] = NoEntry => Applied(entry, d)[r] = NoEntry
         /\ entry[r] \in Object => AppliedTo(entry[r], Applied(entry, d)[r], d, r)
<1> DEFINE e == entry[r]
           f == [e EXCEPT !.status = "RUNNING"]
           n == d.tokens[r]
           pre == r \in ToSet(d.preempted)
           in == r \in ToSet(d.admitted)
           a == Applied(entry, d)[r]
<1>1. n \in Nat
  BY LoopFields
<1>2. a = IF e = NoEntry THEN NoEntry
          ELSE IF pre THEN Preempt(e)
          ELSE IF in THEN Advance(f, n)
          ELSE IF n > 0 THEN Advance(e, n)
          ELSE e
  BY DEF Applied
<1>3. ASSUME e \in Object PROVE AppliedTo(e, a, d, r)
  <2>1. e # NoEntry
    BY <1>3, EntryAssumption DEF EntryAssumption
  <2>2. f \in Object /\ f.C = e.C /\ f.T = e.T /\ f.status = "RUNNING" /\ (e \in Entry => f \in Entry)
    BY <1>3, AdmittedFacts
  <2>3. e.C \in Nat
    BY <1>3, ObjectFields
  <2> HIDE DEF e, f, n, pre, in, a
  <2>4. CASE pre
    <3>1. /\ a \in Object /\ a.C = 0 /\ a.T = e.T /\ a.status = "PREEMPTED"
          /\ e \in Entry => a \in Entry
      BY <1>2, <1>3, <2>1, <2>4, PreemptFacts
    <3> QED BY <2>4, <3>1 DEF AppliedTo, pre
  <2>5. CASE ~pre /\ in
    <3>1. /\ a \in Object /\ a.C = e.C + n /\ a.T = e.T /\ a.status = "RUNNING"
          /\ e \in Entry => a \in Entry
      BY <1>1, <1>2, <2>1, <2>2, <2>5, AdvanceFacts
    <3> QED BY <2>5, <3>1 DEF AppliedTo, pre, in, n
  <2>6. CASE ~pre /\ ~in
    <3>1. /\ a \in Object /\ a.C = e.C + n /\ a.T = e.T /\ a.status = e.status
          /\ e \in Entry => a \in Entry
      <4>1. CASE n > 0
        BY <1>1, <1>2, <1>3, <2>1, <2>6, <4>1, AdvanceFacts
      <4>2. CASE ~ (n > 0)
        <5>1. n = 0 /\ a = e
          BY <1>1, <1>2, <2>1, <2>6, <4>2
        <5>2. e.C + n = e.C
          BY <2>3, <5>1
        <5> QED BY <1>3, <5>1, <5>2
      <4> QED BY <4>1, <4>2
    <3> QED BY <2>6, <3>1 DEF AppliedTo, pre, in, n
  <2> QED BY <2>4, <2>5, <2>6
<1>4. ASSUME e = NoEntry PROVE a = NoEntry
  BY <1>2, <1>4
<1> QED BY <1>3, <1>4

\* Objects stay objects, and entries entries.
LEMMA AppliedTypes ==
  ASSUME NEW d \in LoopType
  PROVE  /\ \A entry \in [Req -> Object] : Applied(entry, d) \in [Req -> Object]
         /\ \A entry \in [Req -> Entry \cup {NoEntry}] :
              Applied(entry, d) \in [Req -> Entry \cup {NoEntry}]
<1>1. ASSUME NEW entry \in [Req -> Object] PROVE Applied(entry, d) \in [Req -> Object]
  <2>1. \A r \in Req : Applied(entry, d)[r] \in Object
    BY AppliedFacts DEF AppliedTo
  <2> QED BY <2>1 DEF Applied
<1>2. ASSUME NEW entry \in [Req -> Entry \cup {NoEntry}]
      PROVE  Applied(entry, d) \in [Req -> Entry \cup {NoEntry}]
  <2>1. ASSUME NEW r \in Req PROVE Applied(entry, d)[r] \in Entry \cup {NoEntry}
    <3>1. CASE entry[r] = NoEntry
      BY <3>1, AppliedFacts
    <3>2. CASE entry[r] \in Entry
      <4>1. entry[r] \in Object
        BY <3>2, EntryIsObject
      <4> QED BY <3>2, <4>1, AppliedFacts DEF AppliedTo
    <3> QED BY <3>1, <3>2
  <2> QED BY <2>1 DEF Applied
<1> QED BY <1>1, <1>2

\* Those who run after a step, and those who wait, are who was in the line.
Split(d, left, run, wait, queue) ==
  /\ queue \in Seq(Req) /\ Sorted(d.run \o queue)
  /\ ToSet(run) = ToSet(left) \cup ToSet(d.preempted)
  /\ ToSet(left) \cap ToSet(d.preempted) = {}
  /\ ToSet(d.run) = ToSet(left) \cup ToSet(d.admitted)
  /\ ToSet(d.admitted) \subseteq ToSet(wait)
  /\ ToSet(run) \cap ToSet(wait) = {} /\ ToSet(d.run) \cap ToSet(queue) = {}
  /\ ToSet(run) \cup ToSet(wait) = ToSet(d.run) \cup ToSet(queue)

LEMMA LineSplit ==
  ASSUME NEW rq, NEW run, NEW wait, Placed(rq, run, wait),
         NEW offered \in Seq(Req), NEW rest \in Seq(Req), wait = offered \o rest,
         NEW d \in LoopType, NEW left, StepShape(d, left, run, offered)
  PROVE  Split(d, left, run, wait, Rebuilt(d, offered, rest))
<1> DEFINE queue == Rebuilt(d, offered, rest)
           back == Reverse(d.preempted)
<1>1. run \in Seq(Req) /\ wait \in Seq(Req) /\ Sorted(run \o wait)
  BY DEF Placed
<1>2. /\ left \in Seq(Req) /\ d.run = left \o d.admitted /\ left \o back = run
      /\ d.run \in Seq(Req) /\ d.admitted \in Seq(Req) /\ d.preempted \in Seq(Req)
  BY LoopFields DEF StepShape
<1>3. queue \in Seq(Req) /\ d.run \o queue = run \o wait
  <2>1. run \in Seq(Req)
    BY <1>1
  <2>2. Rebuilt(d, offered, rest) \in Seq(Req)
    BY <2>1, LineStays
  <2>3. d.run \o Rebuilt(d, offered, rest) = run \o (offered \o rest)
    BY <2>1, LineStays
  <2> QED BY <2>2, <2>3
<1> HIDE DEF queue
<1>4. back \in Seq(Req) /\ ToSet(back) = ToSet(d.preempted)
  BY <1>2, ReverseFacts
<1> HIDE DEF back
<1>5. Sorted(d.run \o queue)
  BY <1>1, <1>3
<1>6. /\ \A x \in ToSet(run), y \in ToSet(wait) : x < y
      /\ Sorted(run)
  BY <1>1, SortedConcat
<1>7. \A x \in ToSet(d.run), y \in ToSet(queue) : x < y
  BY <1>2, <1>3, <1>5, SortedConcat
<1>8. \A x \in ToSet(left), y \in ToSet(back) : x < y
  <2>1. Sorted(left \o back)
    BY <1>2, <1>6
  <2> QED BY <1>2, <1>4, <2>1, SortedConcat
<1>9. /\ ToSet(run) \subseteq Nat /\ ToSet(d.run) \subseteq Nat /\ ToSet(left) \subseteq Nat
  BY <1>1, <1>2, SetOf, Constants
<1>10. ToSet(run) \cap ToSet(wait) = {} /\ ToSet(d.run) \cap ToSet(queue) = {}
       /\ ToSet(left) \cap ToSet(back) = {}
  BY <1>6, <1>7, <1>8, <1>9
<1>11. ToSet(left \o back) = ToSet(left) \cup ToSet(back)
  <2>1. left \in Seq(Req) /\ back \in Seq(Req)
    BY <1>2, <1>4
  <2> QED BY <2>1, SetOfConcat
<1>12. ToSet(left \o d.admitted) = ToSet(left) \cup ToSet(d.admitted)
  BY <1>2, SetOfConcat
<1>13. ToSet(run \o wait) = ToSet(run) \cup ToSet(wait)
  <2>1. run \in Seq(Req) /\ wait \in Seq(Req)
    BY <1>1
  <2>2. \A t \in Seq(Req) : ToSet(run \o t) = ToSet(run) \cup ToSet(t)
    BY <2>1, SetOfConcat
  <2> QED BY <2>1, <2>2
<1>14. ToSet(d.run \o queue) = ToSet(d.run) \cup ToSet(queue)
  <2> DEFINE x == d.run
  <2>1. x \in Seq(Req) /\ queue \in Seq(Req)
    BY <1>2, <1>3
  <2> HIDE DEF x
  <2>2. ToSet(x \o queue) = ToSet(x) \cup ToSet(queue)
    BY <2>1, SetOfConcat
  <2> QED BY <2>2 DEF x
<1>15. ToSet(d.admitted) \subseteq ToSet(wait)
  <2>1. PICK m \in 0 .. Len(offered) : d.admitted = SubSeq(offered, 1, m)
    BY DEF StepShape
  <2>2. ToSet(d.admitted) \subseteq ToSet(offered)
    <3> DEFINE in == d.admitted
    <3>1. \A i \in 1 .. Len(in) : i \in 1 .. Len(offered) /\ in[i] = offered[i]
      BY <2>1
    <3>2. in \in Seq(Req)
      BY <1>2
    <3> HIDE DEF in
    <3>3. ToSet(in) \subseteq ToSet(offered)
      BY <3>1, <3>2, SetOf
    <3> QED BY <3>3 DEF in
  <2>3. ToSet(offered \o rest) = ToSet(offered) \cup ToSet(rest)
    BY SetOfConcat
  <2> QED BY <2>2, <2>3
<1> QED BY <1>2, <1>3, <1>4, <1>5, <1>10, <1>11, <1>12, <1>13, <1>14, <1>15 DEF queue, Split

\* The records once a step was applied to them.
AfterStep(py, rq, d, queue) ==
  /\ Placed(py, d.run, queue) /\ Housed(py, d.held) /\ Lives(py)
  /\ \A r \in ToSet(d.run) : /\ py[r].C = rq[r].C + d.tokens[r]
                             /\ r \notin ToSet(d.preempted)

LEMMA AppliedKeeps ==
  ASSUME NEW rq, NEW run, NEW wait, Placed(rq, run, wait), Lives(rq),
         NEW offered \in Seq(Req), NEW rest \in Seq(Req), wait = offered \o rest,
         NEW entry, \A r \in ToSet(run) \cup ToSet(wait) : entry[r].C = rq[r].C,
         NEW d, StepKeeps(entry, run, offered, d)
  PROVE  AfterStep(Applied(rq, d), rq, d, Rebuilt(d, offered, rest))
<1> DEFINE py == Applied(rq, d)
           queue == Rebuilt(d, offered, rest)
<1>1. /\ d \in LoopType /\ Covers(entry, d)
      /\ \A r \in Req : d.tokens[r] > 0 => r \in ToSet(d.run)
  BY DEF StepKeeps
<1>2. PICK left : StepShape(d, left, run, offered)
  BY DEF StepKeeps
<1>3. Split(d, left, run, wait, queue)
  BY <1>1, <1>2, LineSplit
<1>4. /\ d.run \in Seq(Req) /\ d.held \in [Req -> Nat] /\ d.tokens \in [Req -> Nat]
      /\ rq \in [Req -> Object]
  BY <1>1, LoopFields DEF Lives
<1>5. /\ run \in Seq(Req) /\ wait \in Seq(Req)
      /\ \A r \in Req : /\ r \in ToSet(run) <=> rq[r].status = "RUNNING"
                        /\ r \in ToSet(wait) <=> Waits(rq[r])
  BY DEF Placed
<1>6. ToSet(run) \subseteq Req /\ ToSet(d.run) \subseteq Req
  BY <1>4, <1>5, SetOf
<1>7. \A r \in Req : AppliedTo(rq[r], py[r], d, r)
  BY <1>1, <1>4, AppliedFacts
<1>8. py \in [Req -> Object]
  BY <1>1, <1>4, AppliedTypes
<1> HIDE DEF py, queue
<1> DEFINE pre == ToSet(d.preempted)
           in == ToSet(d.admitted)
           D == ToSet(d.run)
           Q == ToSet(queue)
           R == ToSet(run)
           W == ToSet(wait)
           L == ToSet(left)
<1>9. /\ R = L \cup pre /\ L \cap pre = {} /\ D = L \cup in /\ in \subseteq W
      /\ R \cap W = {} /\ D \cap Q = {} /\ R \cup W = D \cup Q
  BY <1>3 DEF Split
<1>10. /\ pre \subseteq R /\ D \cap pre = {} /\ in \subseteq D
  BY <1>9
<1>11. ASSUME NEW r \in Req
       PROVE  /\ r \in R <=> rq[r].status = "RUNNING"
              /\ r \in W <=> rq[r].status \in {"WAITING", "PREEMPTED"}
              /\ py[r].T = rq[r].T
              /\ r \in pre => py[r].status = "PREEMPTED" /\ py[r].C = 0
              /\ r \in in => py[r].status = "RUNNING"
              /\ r \notin pre /\ r \notin in => py[r].status = rq[r].status
              /\ r \notin pre => py[r].C = rq[r].C + d.tokens[r]
  BY <1>5, <1>7, <1>9, <1>10 DEF AppliedTo, Waits
<1> HIDE DEF pre, in, D, Q, R, W, L
<1>12. ASSUME NEW r \in Req
       PROVE  /\ r \in D <=> py[r].status = "RUNNING"
              /\ r \in Q <=> py[r].status \in {"WAITING", "PREEMPTED"}
              /\ py[r].status = "NEW" <=> rq[r].status = "NEW"
              /\ py[r].status = "FINISHED" <=> rq[r].status = "FINISHED"
              /\ py[r].status # "RUNNING" /\ r \notin pre => rq[r].status = py[r].status
  <2>1. r \in R \cup W <=> r \in D \cup Q
    BY <1>9
  <2>2. CASE r \in pre
    BY <1>9, <1>10, <1>11, <2>1, <2>2
  <2>3. CASE r \notin pre /\ r \in in
    BY <1>9, <1>10, <1>11, <2>1, <2>3
  <2>4. CASE r \notin pre /\ r \notin in
    <3>1. r \in D <=> r \in R
      BY <1>9, <2>4
    <3>2. r \in Q <=> r \in W
      BY <1>9, <2>1, <2>4, <3>1
    <3> QED BY <1>11, <2>4, <3>1, <3>2
  <2> QED BY <2>2, <2>3, <2>4
<1>13. Placed(py, d.run, queue)
  BY <1>3, <1>4, <1>12 DEF Placed, Split, Waits, D, Q
<1>14. \A r \in D : py[r].C = rq[r].C + d.tokens[r] /\ r \notin pre
  BY <1>6, <1>10, <1>11 DEF D
<1>15. \A r \in D : entry[r].C = rq[r].C
  BY <1>9 DEF R, W
<1>16. Housed(py, d.held)
  <2>1. SumFunction(d.held) <= NumBlocks
    BY <1>1 DEF Covers
  <2>2. ASSUME NEW r \in Req
        PROVE  /\ d.held[r] > 0 => py[r].status = "RUNNING"
               /\ py[r].status = "RUNNING" => py[r].C <= d.held[r] * BlockSize
    <3>1. d.held[r] > 0 => r \in D
      BY <1>1 DEF Covers, D
    <3>2. r \in D => entry[r].C + d.tokens[r] <= d.held[r] * BlockSize
      BY <1>1 DEF Covers, D
    <3> QED BY <1>12, <1>14, <1>15, <3>1, <3>2
  <2> QED BY <1>4, <2>1, <2>2 DEF Housed
<1>17. ASSUME NEW r \in Req PROVE Sound(py[r], r)
  <2>1. Sound(rq[r], r) /\ rq[r] \in Object /\ rq[r].C \in Nat /\ MaxModelLen \in Nat \ {0}
    BY <1>4, ObjectFields, Constants DEF Lives
  <2>2. CASE r \in D
    <3>1. entry[r].C + d.tokens[r] < MaxModelLen
      BY <1>1, <2>2 DEF Covers, D, InReach
    <3>2. py[r].C < MaxModelLen
      BY <1>14, <1>15, <2>2, <3>1
    <3>3. py[r].status = "RUNNING" /\ rq[r].status # "FINISHED"
      BY <1>12, <2>2
    <3> QED BY <1>11, <2>1, <3>2, <3>3 DEF Sound, Waits
  <2>3. CASE r \in pre
    <3>1. py[r].C = 0 /\ rq[r].status = "RUNNING"
      BY <1>9, <1>11, <2>3
    <3> QED BY <1>11, <2>1, <3>1 DEF Sound, Waits
  <2>4. CASE r \notin D /\ r \notin pre
    <3>1. d.tokens[r] = 0
      BY <1>1, <1>4, <2>4 DEF D
    <3>2. py[r].C = rq[r].C /\ py[r].T = rq[r].T /\ py[r].status = rq[r].status
      BY <1>11, <1>12, <2>1, <2>4, <3>1
    <3> QED BY <2>1, <3>2 DEF Sound, Waits
  <2> QED BY <2>2, <2>3, <2>4
<1>18. \A q, p \in Req : q < p /\ py[p].status # "NEW" => py[q].status # "NEW"
  BY <1>12 DEF Lives
<1>19. Lives(py)
  BY <1>8, <1>17, <1>18 DEF Lives
<1> QED BY <1>13, <1>14, <1>16, <1>19 DEF AfterStep, D, pre, py, queue

\* A burst moves the records of the batch.
LEMMA MovedFacts ==
  ASSUME NEW S, NEW delta \in Nat
  PROVE  /\ \A f \in [Req -> Object] : \A r \in Req :
              LET a == Moved(f, S, delta)[r]
              IN  /\ a \in Object /\ a.T = f[r].T /\ a.status = f[r].status
                  /\ a.C = IF r \in S THEN f[r].C + delta ELSE f[r].C
         /\ \A f \in [Req -> Entry \cup {NoEntry}] : \A r \in Req :
              LET a == Moved(f, S, delta)[r]
              IN  /\ a \in Entry \cup {NoEntry} /\ (f[r] = NoEntry => a = NoEntry)
                  /\ f[r] # NoEntry => a.C = IF r \in S THEN f[r].C + delta ELSE f[r].C
<1>1. ASSUME NEW f, NEW r \in Req, DOMAIN f = Req, f[r] \in Object
      PROVE  LET a == Moved(f, S, delta)[r]
             IN  /\ a \in Object /\ a.T = f[r].T /\ a.status = f[r].status
                 /\ a.C = IF r \in S THEN f[r].C + delta ELSE f[r].C
                 /\ f[r] \in Entry => a \in Entry
  <2>1. f[r] # NoEntry
    BY <1>1, EntryAssumption DEF EntryAssumption
  <2> DEFINE e == f[r]
             a == Moved(f, S, delta)[r]
  <2>2. a = IF r \in S /\ e # NoEntry THEN BurstAdvance(e, delta) ELSE e
    BY <1>1 DEF Moved
  <2>3. e \in Object /\ e # NoEntry
    BY <1>1, <2>1
  <2> HIDE DEF e, a
  <2>4. /\ a \in Object /\ a.T = e.T /\ a.status = e.status
        /\ a.C = IF r \in S THEN e.C + delta ELSE e.C
        /\ e \in Entry => a \in Entry
    <3>1. CASE r \in S
      BY <2>2, <2>3, <3>1, BurstAdvanceFacts
    <3>2. CASE r \notin S
      BY <2>2, <2>3, <3>2
    <3> QED BY <3>1, <3>2
  <2> QED BY <2>4 DEF e, a
<1>2. ASSUME NEW f \in [Req -> Object], NEW r \in Req
      PROVE  LET a == Moved(f, S, delta)[r]
             IN  /\ a \in Object /\ a.T = f[r].T /\ a.status = f[r].status
                 /\ a.C = IF r \in S THEN f[r].C + delta ELSE f[r].C
  BY <1>1
<1>3. ASSUME NEW f \in [Req -> Entry \cup {NoEntry}], NEW r \in Req
      PROVE  LET a == Moved(f, S, delta)[r]
             IN  /\ a \in Entry \cup {NoEntry} /\ (f[r] = NoEntry => a = NoEntry)
                 /\ f[r] # NoEntry => a.C = IF r \in S THEN f[r].C + delta ELSE f[r].C
  <2>1. CASE f[r] = NoEntry
    BY <2>1 DEF Moved
  <2>2. CASE f[r] # NoEntry
    <3>1. f[r] \in Entry /\ f[r] \in Object /\ DOMAIN f = Req
      BY <2>2, EntryIsObject
    <3> QED BY <1>1, <2>2, <3>1
  <2> QED BY <2>1, <2>2
<1> QED BY <1>2, <1>3

\* Where both records of a request agree, they do afterwards.
LEMMA MovedAgree ==
  ASSUME NEW S, NEW delta \in Nat, NEW f \in [Req -> Object],
         NEW g \in [Req -> Entry \cup {NoEntry}], NEW r \in Req,
         g[r] # NoEntry => g[r].C = f[r].C, Moved(g, S, delta)[r] # NoEntry
  PROVE  Moved(g, S, delta)[r].C = Moved(f, S, delta)[r].C
<1> DEFINE a == Moved(f, S, delta)[r]
           b == Moved(g, S, delta)[r]
<1>1. a.C = IF r \in S THEN f[r].C + delta ELSE f[r].C
  <2>1. \A q \in Req : LET m == Moved(f, S, delta)[q]
                       IN  /\ m \in Object /\ m.T = f[q].T /\ m.status = f[q].status
                           /\ m.C = IF q \in S THEN f[q].C + delta ELSE f[q].C
    BY MovedFacts
  <2> QED BY <2>1
<1>2. /\ g[r] = NoEntry => b = NoEntry
      /\ g[r] # NoEntry => b.C = IF r \in S THEN g[r].C + delta ELSE g[r].C
  BY MovedFacts
<1> HIDE DEF a, b
<1>3. g[r] # NoEntry
  BY <1>2 DEF b
<1>4. b.C = a.C
  BY <1>1, <1>2, <1>3
<1> QED BY <1>4 DEF a, b

\* Objects stay objects, and entries entries.
LEMMA MovedTypes ==
  ASSUME NEW S, NEW delta \in Nat
  PROVE  /\ \A f \in [Req -> Object] : Moved(f, S, delta) \in [Req -> Object]
         /\ \A f \in [Req -> Entry \cup {NoEntry}] :
              Moved(f, S, delta) \in [Req -> Entry \cup {NoEntry}]
<1>1. ASSUME NEW f \in [Req -> Object] PROVE Moved(f, S, delta) \in [Req -> Object]
  <2>1. \A r \in Req : Moved(f, S, delta)[r] \in Object
    BY MovedFacts
  <2> QED BY <2>1 DEF Moved
<1>2. ASSUME NEW f \in [Req -> Entry \cup {NoEntry}]
      PROVE  Moved(f, S, delta) \in [Req -> Entry \cup {NoEntry}]
  <2>1. \A r \in Req : Moved(f, S, delta)[r] \in Entry \cup {NoEntry}
    BY MovedFacts
  <2> QED BY <2>1 DEF Moved
<1> QED BY <1>1, <1>2

\* The batch has room for the tokens of the burst.
HasRoom(py, h, S, delta) ==
  \A r \in S : /\ py[r].status = "RUNNING"
               /\ py[r].C + delta <= h[r] * BlockSize /\ py[r].C + delta < MaxModelLen

LEMMA MovedKeeps ==
  ASSUME NEW py, NEW run, NEW wait, NEW h, Placed(py, run, wait), Housed(py, h), Lives(py),
         NEW S \in SUBSET Req, NEW delta \in Nat, HasRoom(py, h, S, delta)
  PROVE  /\ Placed(Moved(py, S, delta), run, wait) /\ Housed(Moved(py, S, delta), h)
         /\ Lives(Moved(py, S, delta))
<1> DEFINE m == Moved(py, S, delta)
<1>1. py \in [Req -> Object]
  BY DEF Lives
<1>2. ASSUME NEW r \in Req
      PROVE  /\ m[r].T = py[r].T /\ m[r].status = py[r].status
             /\ m[r].C = IF r \in S THEN py[r].C + delta ELSE py[r].C
  BY <1>1, MovedFacts
<1>3. m \in [Req -> Object]
  BY <1>1, MovedTypes
<1> HIDE DEF m
<1>4. Placed(m, run, wait)
  BY <1>2 DEF Placed, Waits
<1>5. Housed(m, h)
  <2>1. ASSUME NEW r \in Req
        PROVE  /\ h[r] > 0 => m[r].status = "RUNNING"
               /\ m[r].status = "RUNNING" => m[r].C <= h[r] * BlockSize
    <3>1. CASE r \in S
      BY <1>2, <3>1 DEF HasRoom
    <3>2. CASE r \notin S
      BY <1>2, <3>2 DEF Housed
    <3> QED BY <3>1, <3>2
  <2> QED BY <2>1 DEF Housed
<1>6. ASSUME NEW r \in Req PROVE Sound(m[r], r)
  <2>1. Sound(py[r], r)
    BY DEF Lives
  <2>2. CASE r \in S
    <3>1. m[r].status = "RUNNING" /\ m[r].C < MaxModelLen /\ m[r].T = py[r].T /\ py[r].status = "RUNNING"
      BY <1>2, <2>2 DEF HasRoom
    <3> QED BY <2>1, <3>1 DEF Sound, Waits
  <2>3. CASE r \notin S
    <3>1. m[r].status = py[r].status /\ m[r].C = py[r].C /\ m[r].T = py[r].T
      BY <1>2, <2>3
    <3> QED BY <2>1, <3>1 DEF Sound, Waits
  <2> QED BY <2>2, <2>3
<1>7. Lives(m)
  <2>1. \A q, p \in Req : q < p /\ m[p].status # "NEW" => m[q].status # "NEW"
    BY <1>2 DEF Lives
  <2> QED BY <1>3, <1>6, <2>1 DEF Lives
<1> QED BY <1>4, <1>5, <1>7 DEF m

\* The bursts that fit, fit every request of the batch.
LEMMA QuotientFits ==
  ASSUME NEW a \in Nat, NEW b \in Nat \ {0}, b <= a
  PROVE  /\ a \div b \in Nat \ {0}
         /\ \A k \in Nat : k <= a \div b => b * k <= a
<1> DEFINE q == a \div b
<1>1. q \in Nat /\ q * b <= a /\ a < q * b + b
  BY DivBounds
<1> HIDE DEF q
<1>2. q # 0
  BY <1>1
<1>3. ASSUME NEW k \in Nat, k <= q PROVE b * k <= a
  <2>1. k * b \in Int /\ q * b \in Int /\ k * b <= q * b
    BY <1>1, <1>3, Multiples
  <2>2. b * k = k * b
    BY SMT
  <2> QED BY <1>1, <2>1, <2>2
<1> QED BY <1>1, <1>2, <1>3 DEF q

LEMMA StepsFacts ==
  ASSUME NEW S \in SUBSET Req, S # {}, NEW entry \in [Req -> Object],
         \A r \in S : entry[r].C >= 1 /\ BurstGate(r, entry[r], BurstN),
         NEW k \in Nat, k <= StepsThatFit(S, entry)
  PROVE  \A r \in S : /\ ((entry[r].C - 1) % BlockSize) + BurstN * k <= BlockSize
                      /\ (entry[r].C - 1) + BurstN * k <= BurstLimit(r)
<1> DEFINE c(r) == entry[r].C - 1
           A(r) == BlockSize - (c(r) % BlockSize)
           B(r) == BurstLimit(r) - c(r)
           room(r) == Min({BurstSteps, A(r) \div BurstN, B(r) \div BurstN})
           rooms == {room(r) : r \in S}
<1>1. BurstN \in Nat \ {0} /\ BurstSteps \in Nat \ {0} /\ BlockSize \in Nat \ {0}
  BY TableAssumption, Constants DEF TableAssumption
<1>2. ASSUME NEW r \in S PROVE A(r) \in Nat /\ B(r) \in Nat /\ BurstN <= A(r) /\ BurstN <= B(r)
  <2>1. entry[r].C \in Nat /\ entry[r].C >= 1 /\ BurstLimit(r) \in Int
    BY ObjectFields, CapFacts
  <2>2. c(r) \in Nat
    BY <2>1
  <2>3. (c(r) % BlockSize) + BurstN <= BlockSize /\ c(r) + BurstN <= BurstLimit(r)
    BY DEF BurstGate, ComputedBefore
  <2>4. c(r) % BlockSize \in Nat
    BY <1>1, <2>2
  <2> QED BY <1>1, <2>1, <2>2, <2>3, <2>4
<1>3. ASSUME NEW r \in S
      PROVE  /\ room(r) \in Nat /\ room(r) >= 1
             /\ room(r) <= A(r) \div BurstN /\ room(r) <= B(r) \div BurstN
  <2> DEFINE x == A(r) \div BurstN
             y == B(r) \div BurstN
  <2>1. x \in Nat \ {0}
    <3> HIDE DEF A
    <3> QED BY <1>1, <1>2, QuotientFits
  <2>2. y \in Nat \ {0}
    <3> HIDE DEF B
    <3> QED BY <1>1, <1>2, QuotientFits
  <2> HIDE DEF x, y
  <2>3. LET m == Min({BurstSteps, x, y})
        IN  m \in {BurstSteps, x, y} /\ m <= BurstSteps /\ m <= x /\ m <= y
    <3>1. BurstSteps \in Int /\ x \in Int /\ y \in Int
      BY <1>1, <2>1, <2>2
    <3> QED BY <3>1, Triples
  <2> QED BY <1>1, <2>1, <2>2, <2>3 DEF x, y
<1>4. StepsThatFit(S, entry) = Max({1, Min(rooms)})
  BY DEF StepsThatFit, ComputedBefore
<1> HIDE DEF room
<1>5. rooms \subseteq Nat /\ rooms # {} /\ \A m \in rooms : m >= 1
  BY <1>3
<1>6. Min(rooms) \in rooms /\ \A m \in rooms : Min(rooms) <= m
  <2> HIDE DEF rooms
  <2> QED BY <1>5, MinOf
<1>7. StepsThatFit(S, entry) = Min(rooms)
  <2> DEFINE m == Min(rooms)
  <2>1. m \in Nat /\ m >= 1
    BY <1>5, <1>6
  <2> HIDE DEF m
  <2>2. Max({1, m}) = m
    <3>1. Max({1, m}) = IF 1 >= m THEN 1 ELSE m
      BY <2>1, Pairs
    <3> QED BY <2>1, <3>1
  <2> QED BY <1>4, <2>2 DEF m
<1>8. ASSUME NEW r \in S PROVE BurstN * k <= A(r) /\ BurstN * k <= B(r)
  <2>1. k <= room(r)
    <3>1. room(r) \in rooms /\ Min(rooms) \in Nat
      BY <1>5, <1>6
    <3>2. Min(rooms) <= room(r)
      BY <1>6, <3>1
    <3> HIDE DEF rooms
    <3> QED BY <1>3, <1>7, <3>1, <3>2
  <2>2. A(r) \div BurstN \in Nat /\ B(r) \div BurstN \in Nat
        /\ \A j \in Nat : j <= A(r) \div BurstN => BurstN * j <= A(r)
    <3> HIDE DEF A, B
    <3> QED BY <1>1, <1>2, QuotientFits
  <2>3. \A j \in Nat : j <= B(r) \div BurstN => BurstN * j <= B(r)
    <3> HIDE DEF A, B
    <3> QED BY <1>1, <1>2, QuotientFits
  <2> HIDE DEF A, B
  <2>4. k <= A(r) \div BurstN /\ k <= B(r) \div BurstN
    BY <1>3, <2>1, <2>2
  <2> QED BY <2>2, <2>3, <2>4
<1>9. ASSUME NEW r \in S
      PROVE  (c(r) % BlockSize) + BurstN * k <= BlockSize /\ c(r) + BurstN * k <= BurstLimit(r)
  <2>1. entry[r].C \in Nat /\ entry[r].C >= 1 /\ BurstLimit(r) \in Int
    BY ObjectFields, CapFacts
  <2>2. c(r) \in Nat
    BY <2>1
  <2>3. c(r) % BlockSize \in Nat
    BY <1>1, <2>2
  <2>4. BurstN * k \in Nat
    BY <1>1
  <2>5. BurstN * k <= BlockSize - (c(r) % BlockSize) /\ BurstN * k <= BurstLimit(r) - c(r)
    BY <1>8
  <2> HIDE DEF c
  <2> DEFINE x == BurstN * k
             y == c(r) % BlockSize
  <2> HIDE DEF x, y
  <2>6. y + x <= BlockSize /\ c(r) + x <= BurstLimit(r)
    BY <1>1, <2>1, <2>2, <2>3, <2>4, <2>5 DEF x, y
  <2> QED BY <2>6 DEF x, y
<1> QED BY <1>9

\* A burst that was granted has room.
LEMMA BurstHasRoom ==
  ASSUME NEW py, NEW rq, NEW d \in LoopType, NEW queue, AfterStep(py, rq, d, queue), Lives(rq),
         \A r \in Req : d.tokens[r] > 0 => r \in ToSet(d.run),
         BurstEligible(d, BurstCap), BurstGranted(Scheduled(d), py),
         NEW k \in 1 .. BurstSteps, k <= StepsThatFit(Scheduled(d), py)
  PROVE  /\ BurstN * k - 1 \in Nat
         /\ HasRoom(py, d.held, Scheduled(d), BurstN * k - 1)
<1> DEFINE S == Scheduled(d)
           b == BurstN * k
<1>1. BurstN \in Nat \ {0} /\ BurstSteps \in Nat \ {0} /\ BlockSize \in Nat \ {0}
      /\ k \in Nat \ {0}
  BY TableAssumption, Constants DEF TableAssumption
<1>2. b \in Nat \ {0} /\ b - 1 \in Nat
  <2>1. 1 * k <= BurstN * k /\ BurstN * k \in Nat /\ 1 * k = k
    <3>1. 1 \in Int /\ BurstN \in Int /\ k \in Nat \ {0} /\ 1 <= BurstN
      BY <1>1
    <3>2. 1 * k <= BurstN * k
      BY <3>1, Multiples
    <3> QED BY <1>1, <3>2
  <2> QED BY <1>1, <2>1
<1>3. S \in SUBSET Req /\ S # {} /\ \A r \in S : d.tokens[r] = 1
  BY DEF BurstEligible, Scheduled
<1>4. /\ d.run \in Seq(Req) /\ d.held \in [Req -> Nat] /\ d.tokens \in [Req -> Nat]
      /\ py \in [Req -> Object] /\ rq \in [Req -> Object]
  BY LoopFields DEF AfterStep, Lives
<1>5. ASSUME NEW r \in S
      PROVE  /\ r \in Req /\ py[r].status = "RUNNING" /\ py[r].C = rq[r].C + 1
             /\ py[r].C \in Nat /\ rq[r].C \in Nat /\ py[r].C >= 1
             /\ py[r].C <= d.held[r] * BlockSize /\ d.held[r] \in Nat
  <2>1. r \in Req /\ d.tokens[r] = 1 /\ r \in ToSet(d.run)
    BY <1>3 DEF Scheduled
  <2>2. py[r].status = "RUNNING"
    BY <2>1 DEF AfterStep, Placed
  <2>3. py[r].C = rq[r].C + 1
    BY <2>1 DEF AfterStep
  <2>4. py[r].C <= d.held[r] * BlockSize
    BY <2>1, <2>2 DEF AfterStep, Housed
  <2>5. py[r].C \in Nat /\ rq[r].C \in Nat /\ d.held[r] \in Nat
    BY <1>4, <2>1, ObjectFields
  <2> QED BY <2>1, <2>2, <2>3, <2>4, <2>5
<1>6. ASSUME NEW r \in S
      PROVE  /\ ((py[r].C - 1) % BlockSize) + b <= BlockSize
             /\ (py[r].C - 1) + b <= BurstLimit(r)
  <2>1. \A q \in S : py[q].C >= 1 /\ BurstGate(q, py[q], BurstN)
    BY <1>5 DEF BurstGranted
  <2>2. k \in Nat /\ k <= StepsThatFit(S, py)
    BY <1>1
  <2> HIDE DEF S
  <2> QED BY <1>3, <1>4, <2>1, <2>2, StepsFacts
<1>7. ASSUME NEW r \in S
      PROVE  /\ py[r].C + (b - 1) <= d.held[r] * BlockSize /\ py[r].C + (b - 1) < MaxModelLen
  <2> DEFINE c == py[r].C - 1
             h == d.held[r]
  <2>1. c \in Nat /\ h \in Nat /\ c + 1 <= h * BlockSize /\ py[r].C = c + 1
    BY <1>5
  <2>2. (c % BlockSize) + b <= BlockSize /\ c + b <= BurstLimit(r)
    BY <1>6
  <2>3. BurstLimit(r) \in Int /\ BurstLimit(r) < MaxModelLen /\ MaxModelLen \in Nat
    BY <1>5, CapFacts, Constants
  <2> HIDE DEF c, h, b
  <2>4. h * BlockSize \in Nat
    BY <1>1, <2>1
  <2>5. c < h * BlockSize
    BY <2>1, <2>4
  <2>6. c + b <= h * BlockSize
    BY <1>1, <1>2, <2>1, <2>2, <2>5, SameBlock
  <2>7. c + 1 + (b - 1) <= h * BlockSize /\ c + 1 + (b - 1) < MaxModelLen
    BY <1>2, <2>1, <2>2, <2>3, <2>4, <2>6
  <2> QED BY <2>1, <2>7 DEF h
<1>8. HasRoom(py, d.held, S, b - 1)
  BY <1>5, <1>7 DEF HasRoom
<1> QED BY <1>2, <1>8

------------------------------------------------------------------------------
(* The steps                                                                 *)

InFlightType == [tokens : [Req -> Nat], promised : Nat, samples : SUBSET Req]
TableType == [Req -> Entry \cup {NoEntry}]

\* The parts of the invariant, of new values.
Settled(rq, tb, run, wait, h, dty) ==
  /\ Placed(rq, run, wait) /\ Housed(rq, h) /\ Lives(rq) /\ tb \in TableType
  /\ ~dty => Agrees(rq, tb, run)

Flags == pipeline \in Seq(InFlightType) /\ Len(pipeline) <= Depth
         /\ dirty \in BOOLEAN /\ bursts \in BOOLEAN /\ alarmed \in BOOLEAN

LEMMA Parts ==
  IInv <=> /\ Settled(req, table, running, waiting, held, dirty) /\ Flags
           /\ Len(running) <= MaxRunning
<1>1. ASSUME IInv PROVE Settled(req, table, running, waiting, held, dirty) /\ Flags
                        /\ Len(running) <= MaxRunning
  BY <1>1 DEF IInv, TypeOK, Settled, Flags, TableType, InFlightType
<1>2. ASSUME Settled(req, table, running, waiting, held, dirty), Flags, Len(running) <= MaxRunning
      PROVE  IInv
  <2>1. /\ Placed(req, running, waiting) /\ Housed(req, held) /\ Lives(req) /\ table \in TableType
        /\ ~dirty => Agrees(req, table, running)
    BY <1>2 DEF Settled
  <2>2. held \in [Req -> 0 .. NumBlocks]
    <3>1. /\ held \in [Req -> Nat] /\ SumFunction(held) <= NumBlocks
          /\ NumBlocks \in Nat /\ IsFiniteSet(Req)
      BY <2>1, Constants DEF Housed
    <3>2. SumFunction(held) \in Nat /\ \A r \in Req : held[r] <= SumFunction(held)
      BY <3>1, SumFacts
    <3> QED BY <3>1, <3>2
  <2>3. TypeOK
    BY <1>2, <2>1, <2>2 DEF TypeOK, Lives, Placed, Flags, TableType, InFlightType
  <2> QED BY <2>1, <2>3 DEF IInv
<1> QED BY <1>1, <1>2

LEMMA PartsPrime ==
  (/\ Settled(req, table, running, waiting, held, dirty) /\ Flags
   /\ Len(running) <= MaxRunning)' => IInv'
<1>1. /\ Settled(req, table, running, waiting, held, dirty) /\ Flags
      /\ Len(running) <= MaxRunning
      => IInv
  BY Parts
<1> QED BY <1>1, PTL

\* The step that is queued.
LEMMA EnqueueFacts ==
  ASSUME NEW d \in LoopType, NEW promised \in Nat, NEW py, Flags, Len(pipeline) < Depth,
         Enqueue(InFlight(d, promised, py))
  PROVE  pipeline' \in Seq(InFlightType) /\ Len(pipeline') <= Depth
<1> DEFINE step == InFlight(d, promised, py)
<1>1. d.tokens \in [Req -> Nat]
  BY LoopFields
<1>2. step \in InFlightType
  <2>1. {r \in Scheduled(d) : ~py[r].chunk} \in SUBSET Req
    BY DEF Scheduled
  <2> QED BY <1>1, <2>1 DEF InFlight, InFlightType
<1> HIDE DEF step
<1>3. pipeline' = pipeline \/ pipeline' = Append(pipeline, step)
  BY DEF Enqueue, step
<1>4. pipeline \in Seq(InFlightType) /\ Len(pipeline) \in Nat
  BY DEF Flags
<1>5. /\ Append(pipeline, step) \in Seq(InFlightType)
      /\ Len(Append(pipeline, step)) = Len(pipeline) + 1
  BY <1>2, <1>4, AppendProperties
<1> QED BY <1>3, <1>4, <1>5 DEF Depth

\* Committing the step, with a burst or without.
LEMMA CommitKeeps ==
  ASSUME Flags, Len(pipeline) < Depth, NEW nobodyWaits, NEW wasDirty \in BOOLEAN,
         NEW rq, Lives(rq), NEW d \in LoopType, NEW queue, NEW py, AfterStep(py, rq, d, queue),
         \A r \in Req : d.tokens[r] > 0 => r \in ToSet(d.run),
         NEW rs \in TableType, Agrees(py, rs, d.run),
         CommitBurst(d, py, rs, nobodyWaits, wasDirty)
  PROVE  Settled(req', table', d.run, queue, d.held, dirty') /\ Flags'
<1> DEFINE S == Scheduled(d)
           batch == SelectSeq(d.run, LAMBDA r : r \in S)
           asked == BurstAsked(d, nobodyWaits)
           granted == asked /\ BurstGranted(S, py)
           alarm == asked /\ BurstAlarm(batch, py) /\ ~alarmed
           delta(k) == BurstN * k - 1
<1>1. /\ Placed(py, d.run, queue) /\ Housed(py, d.held) /\ Lives(py)
      /\ py \in [Req -> Object] /\ d.run \in Seq(Req)
  BY LoopFields DEF AfterStep, Lives
<1>2. /\ pipeline \in Seq(InFlightType) /\ Len(pipeline) <= Depth
      /\ dirty \in BOOLEAN /\ bursts \in BOOLEAN /\ alarmed \in BOOLEAN
  BY DEF Flags
<1>3. \/ /\ req' = py /\ table' = rs
         /\ Enqueue(InFlight(d, 1, py))
         /\ alarmed' = (alarmed \/ alarm)
         /\ dirty' = (wasDirty \/ alarm)
         /\ UNCHANGED bursts
      \/ \E k \in 1 .. BurstSteps :
         /\ granted /\ k <= StepsThatFit(S, py)
         /\ req' = Moved(py, S, delta(k))
         /\ table' = Moved(rs, S, delta(k))
         /\ Enqueue(InFlight(d, BurstN * k, py))
         /\ dirty' = wasDirty
         /\ UNCHANGED <<bursts, alarmed>>
      \/ \E moved \in SUBSET S, k \in 1 .. BurstSteps :
         /\ granted /\ k <= StepsThatFit(S, py)
         /\ req' = py
         /\ table' = Moved(rs, moved, delta(k))
         /\ Enqueue(InFlight(d, 1, py))
         /\ bursts' = FALSE
         /\ dirty' = TRUE
         /\ UNCHANGED alarmed
  BY DEF CommitBurst
<1>4. ASSUME granted, NEW k \in 1 .. BurstSteps, k <= StepsThatFit(S, py)
      PROVE  delta(k) \in Nat /\ HasRoom(py, d.held, S, delta(k)) /\ BurstN * k \in Nat
  <2>1. BurstEligible(d, BurstCap) /\ BurstGranted(S, py)
    BY <1>4 DEF BurstAsked
  <2>2. BurstN * k - 1 \in Nat /\ HasRoom(py, d.held, S, BurstN * k - 1)
    BY <1>4, <2>1, BurstHasRoom
  <2>3. BurstN * k \in Nat
    BY <2>2, TableAssumption DEF TableAssumption
  <2> QED BY <2>2, <2>3
<1>5. S \in SUBSET Req
  BY DEF Scheduled
<1>6. ASSUME NEW x \in Nat, NEW moved \in SUBSET S PROVE Moved(rs, moved, x) \in TableType
  BY <1>6, MovedTypes DEF TableType
<1> HIDE DEF S, asked, granted, alarm, delta
<1>7. CASE /\ req' = py /\ table' = rs
           /\ Enqueue(InFlight(d, 1, py))
           /\ alarmed' = (alarmed \/ alarm)
           /\ dirty' = (wasDirty \/ alarm)
           /\ UNCHANGED bursts
  <2>1. Settled(req', table', d.run, queue, d.held, dirty')
    BY <1>1, <1>7 DEF Settled
  <2>2. pipeline' \in Seq(InFlightType) /\ Len(pipeline') <= Depth
    BY <1>7, EnqueueFacts
  <2>3. dirty' \in BOOLEAN /\ bursts' \in BOOLEAN /\ alarmed' \in BOOLEAN
    BY <1>2, <1>7
  <2> QED BY <2>1, <2>2, <2>3 DEF Flags
<1>8. ASSUME NEW k \in 1 .. BurstSteps, granted, k <= StepsThatFit(S, py),
             req' = Moved(py, S, delta(k)), table' = Moved(rs, S, delta(k)),
             Enqueue(InFlight(d, BurstN * k, py)), dirty' = wasDirty, UNCHANGED <<bursts, alarmed>>
      PROVE  Settled(req', table', d.run, queue, d.held, dirty') /\ Flags'
  <2>1. delta(k) \in Nat /\ HasRoom(py, d.held, S, delta(k)) /\ BurstN * k \in Nat
    BY <1>4, <1>8
  <2>2. Placed(req', d.run, queue) /\ Housed(req', d.held) /\ Lives(req')
    BY <1>1, <1>5, <1>8, <2>1, MovedKeeps
  <2>3. Agrees(req', table', d.run)
    <3>1. ASSUME NEW r \in ToSet(d.run), table'[r] # NoEntry PROVE table'[r].C = req'[r].C
      <4>1. r \in Req
        BY <1>1, SetOf
      <4> DEFINE x == delta(k)
      <4>2. x \in Nat /\ table' = Moved(rs, S, x) /\ req' = Moved(py, S, x)
        BY <1>8, <2>1
      <4> HIDE DEF x
      <4>3. rs \in [Req -> Entry \cup {NoEntry}] /\ (rs[r] # NoEntry => rs[r].C = py[r].C)
        BY <3>1 DEF Agrees, TableType
      <4>4. Moved(rs, S, x)[r] # NoEntry
        BY <3>1, <4>2
      <4>5. Moved(rs, S, x)[r].C = Moved(py, S, x)[r].C
        BY <1>1, <4>1, <4>2, <4>3, <4>4, MovedAgree
      <4> QED BY <4>2, <4>5
    <3> QED BY <3>1 DEF Agrees
  <2>4. table' \in TableType
    BY <1>6, <1>8, <2>1
  <2>5. pipeline' \in Seq(InFlightType) /\ Len(pipeline') <= Depth
    BY <1>8, <2>1, EnqueueFacts
  <2>6. dirty' \in BOOLEAN /\ bursts' \in BOOLEAN /\ alarmed' \in BOOLEAN
    BY <1>2, <1>8
  <2> QED BY <2>2, <2>3, <2>4, <2>5, <2>6 DEF Settled, Flags
<1>9. ASSUME NEW moved \in SUBSET S, NEW k \in 1 .. BurstSteps, granted, k <= StepsThatFit(S, py),
             req' = py, table' = Moved(rs, moved, delta(k)), Enqueue(InFlight(d, 1, py)),
             bursts' = FALSE, dirty' = TRUE, UNCHANGED alarmed
      PROVE  Settled(req', table', d.run, queue, d.held, dirty') /\ Flags'
  <2>1. delta(k) \in Nat
    BY <1>4, <1>9
  <2>2. table' \in TableType
    BY <1>6, <1>9, <2>1
  <2>3. Settled(req', table', d.run, queue, d.held, dirty')
    BY <1>1, <1>9, <2>2 DEF Settled
  <2>4. pipeline' \in Seq(InFlightType) /\ Len(pipeline') <= Depth
    BY <1>9, EnqueueFacts
  <2>5. dirty' \in BOOLEAN /\ bursts' \in BOOLEAN /\ alarmed' \in BOOLEAN
    BY <1>2, <1>9
  <2> QED BY <2>3, <2>4, <2>5 DEF Flags
<1> QED BY <1>3, <1>7, <1>8, <1>9

\* The front of a queue and what is behind it.
LEMMA FrontAndRest ==
  ASSUME NEW q \in Seq(Req), NEW k \in 0 .. Len(q)
  PROVE  /\ SubSeq(q, 1, k) \in Seq(Req) /\ SubSeq(q, k + 1, Len(q)) \in Seq(Req)
         /\ q = SubSeq(q, 1, k) \o SubSeq(q, k + 1, Len(q))
<1>1. Len(q) \in Nat
  OBVIOUS
<1>2. SubSeq(q, 1, k) \in Seq(Req) /\ SubSeq(q, k + 1, Len(q)) \in Seq(Req)
  BY <1>1
<1>3. /\ 1 \in 1 .. Len(q) + 1 /\ k \in 1 - 1 .. Len(q) /\ Len(q) \in k .. Len(q)
  BY <1>1
<1>4. SubSeq(q, 1, k) \o SubSeq(q, k + 1, Len(q)) = SubSeq(q, 1, Len(q))
  BY <1>3, ConcatAdjacentSubSeq
<1>5. SubSeq(q, 1, Len(q)) = q
  BY SubSeqFull
<1> QED BY <1>2, <1>4, <1>5

\* The invariant is what the loops ask of the records they read.
Reads(entry, rq, run, wait) ==
  /\ entry \in [Req -> Object]
  /\ \A r \in ToSet(run) \cup ToSet(wait) : entry[r].C = rq[r].C
  /\ \A r \in ToSet(wait) : entry[r].T = rq[r].T

LEMMA AskedOfTheLoops ==
  ASSUME NEW rq, NEW tb, NEW run, NEW wait, NEW h, NEW dty, Settled(rq, tb, run, wait, h, dty),
         NEW offered \in Seq(Req), NEW rest \in Seq(Req), wait = offered \o rest,
         NEW entry, Reads(entry, rq, run, wait)
  PROVE  Schedulable(entry, run, h) /\ Offerable(entry, offered)
<1>1. Placed(rq, run, wait) /\ Housed(rq, h) /\ Lives(rq)
  BY DEF Settled
<1>2. /\ run \in Seq(Req) /\ wait \in Seq(Req) /\ Sorted(run \o wait)
      /\ \A r \in Req : /\ r \in ToSet(run) <=> rq[r].status = "RUNNING"
                        /\ r \in ToSet(wait) <=> Waits(rq[r])
  BY <1>1 DEF Placed
<1>3. Sorted(run)
  BY <1>2, SortedConcat
<1>4. ToSet(run) \subseteq Req /\ ToSet(offered) \subseteq Req
  BY <1>2, SetOf
<1>5. ToSet(offered) \subseteq ToSet(wait)
  <2>1. ToSet(offered \o rest) = ToSet(offered) \cup ToSet(rest)
    BY SetOfConcat
  <2> QED BY <2>1
<1>6. \A r \in Req : Sound(rq[r], r)
  BY <1>1 DEF Lives
<1>7. Schedulable(entry, run, h)
  <2>1. entry \in [Req -> Object] /\ h \in [Req -> Nat] /\ SumFunction(h) <= NumBlocks
    BY <1>1 DEF Reads, Housed
  <2>2. \A r \in Req : h[r] > 0 => r \in ToSet(run)
    BY <1>1, <1>2 DEF Housed
  <2>3. \A r \in ToSet(run) : entry[r].C <= h[r] * BlockSize /\ entry[r].C < MaxModelLen
    <3> TAKE r \in ToSet(run)
    <3>1. r \in Req /\ entry[r].C = rq[r].C /\ rq[r].status = "RUNNING"
      BY <1>2, <1>4 DEF Reads
    <3>2. rq[r].C <= h[r] * BlockSize
      BY <1>1, <3>1 DEF Housed
    <3>3. rq[r].C < MaxModelLen
      BY <1>6, <3>1 DEF Sound
    <3> QED BY <3>1, <3>2, <3>3
  <2> QED BY <1>2, <1>3, <2>1, <2>2, <2>3 DEF Schedulable
<1>8. Offerable(entry, offered)
  <2> SUFFICES ASSUME NEW r \in ToSet(offered)
               PROVE  entry[r].C = 0 /\ entry[r].T < MaxModelLen
    BY DEF Offerable
  <2>1. r \in Req /\ entry[r].C = rq[r].C /\ entry[r].T = rq[r].T /\ Waits(rq[r])
    BY <1>2, <1>4, <1>5 DEF Reads
  <2>2. rq[r].C = 0 /\ rq[r].T < LengthCap(r)
    BY <1>6, <2>1 DEF Sound, Waits
  <2>3. LengthCap(r) \in Nat /\ LengthCap(r) <= MaxModelLen /\ MaxModelLen \in Nat
    BY <2>1, CapFacts, Constants
  <2>4. rq[r].T \in Nat
    BY <1>1, <2>1, ObjectFields DEF Lives
  <2> QED BY <2>1, <2>2, <2>3, <2>4
<1> QED BY <1>7, <1>8

\* What a step of the crate reads, and what it leaves of the records.
CrateStep(loaded, entry, offered, rest, d, nobodyWaits, wasDirty) ==
  /\ Len(pipeline) < Depth
  /\ running' = d.run /\ waiting' = Rebuilt(d, offered, rest) /\ held' = d.held
  /\ CommitBurst(d, Applied(req, d), Applied(Resident(loaded, d), d), nobodyWaits, wasDirty)
  /\ offered \in Seq(Req) /\ rest \in Seq(Req) /\ waiting = offered \o rest
  /\ wasDirty \in BOOLEAN
  /\ \A r \in ToSet(running) :
       /\ entry[r] = loaded[r] /\ loaded[r] \in Entry /\ loaded[r].C = req[r].C
       /\ loaded[r] = Pack(req[r]) \/ (~dirty /\ loaded[r] = table[r])
  /\ \A r \in Req \ ToSet(running) : entry[r] = Pack(req[r])
  /\ Schedulable(entry, running, held) /\ Offerable(entry, offered)
  /\ d = Schedule(entry, running, offered, held)
  /\ StepKeeps(entry, running, offered, d)
  /\ AfterStep(Applied(req, d), req, d, Rebuilt(d, offered, rest))
  /\ Resident(loaded, d) \in TableType /\ Applied(Resident(loaded, d), d) \in TableType
  /\ \A r \in ToSet(d.run) : r \in ToSet(running) \/ r \in ToSet(d.admitted)

\* A step the crate schedules.
LEMMA ScheduleStepCases ==
  ASSUME IInv, ScheduleStep
  PROVE  \E loaded, entry, offered, rest, d, nobodyWaits, wasDirty :
           CrateStep(loaded, entry, offered, rest, d, nobodyWaits, wasDirty)
<1> DEFINE resident == ~dirty /\ \A r \in ToSet(running) : table[r] # NoEntry
           loaded == [r \in Req |-> IF ~resident /\ r \in ToSet(running)
                                    THEN Pack(req[r]) ELSE table[r]]
           entry == [r \in Req |-> IF r \in ToSet(running) THEN loaded[r] ELSE Pack(req[r])]
           capped == running # <<>> /\ MixedCap > 0 /\ Len(waiting) > MixedCap
           offer == IF capped THEN MixedCap ELSE Len(waiting)
           offered == SubSeq(waiting, 1, offer)
           rest == SubSeq(waiting, offer + 1, Len(waiting))
           skewed == \E r \in ToSet(running) : Inconsistent(entry[r])
           d == Schedule(entry, running, offered, held)
           queue == Rebuilt(d, offered, rest)
           py == Applied(req, d)
           rs == Applied(Resident(loaded, d), d)
           wasDirty == skewed /\ Scheduled(d) = {} /\ d.run # <<>>
           nobodyWaits == Len(waiting') <= Len(rest)
<1>1. /\ Len(pipeline) < Depth /\ running' = d.run /\ waiting' = queue /\ held' = d.held
      /\ CommitBurst(d, py, rs, nobodyWaits, wasDirty)
  <2>1. /\ Len(pipeline) < Depth
        /\ \E x \in {Schedule(entry, running, offered, held)} :
             /\ running' = x.run
             /\ waiting' = Rebuilt(x, offered, rest)
             /\ held' = x.held
             /\ CommitBurst(x, Applied(req, x), Applied(Resident(loaded, x), x), nobodyWaits,
                            skewed /\ Scheduled(x) = {} /\ x.run # <<>>)
    BY DEF ScheduleStep
  <2> HIDE DEF resident, loaded, entry, offer, offered, rest, skewed, nobodyWaits
  <2> QED BY <2>1
<1>2. /\ Settled(req, table, running, waiting, held, dirty) /\ Flags
      /\ Len(running) <= MaxRunning
  BY Parts
<1>3. /\ Placed(req, running, waiting) /\ Housed(req, held) /\ Lives(req) /\ table \in TableType
      /\ ~dirty => Agrees(req, table, running)
  BY <1>2 DEF Settled
<1>4. /\ running \in Seq(Req) /\ waiting \in Seq(Req) /\ req \in [Req -> Object]
      /\ ToSet(running) \subseteq Req /\ ToSet(waiting) \subseteq Req
  <2>1. running \in Seq(Req) /\ waiting \in Seq(Req) /\ req \in [Req -> Object]
    BY <1>3 DEF Placed, Lives
  <2> QED BY <2>1, SetOf
<1>5. offered \in Seq(Req) /\ rest \in Seq(Req) /\ waiting = offered \o rest
  <2>1. offer \in 0 .. Len(waiting)
    BY <1>4, TableAssumption DEF TableAssumption
  <2> HIDE DEF offer
  <2> QED BY <1>4, <2>1, FrontAndRest
<1>6. ASSUME NEW r \in ToSet(running)
      PROVE  /\ loaded[r] \in Entry /\ loaded[r].C = req[r].C
             /\ loaded[r] = Pack(req[r]) \/ (~dirty /\ loaded[r] = table[r])
  <2>1. r \in Req /\ req[r] \in Object /\ table[r] \in Entry \cup {NoEntry}
    BY <1>3, <1>4, <1>6 DEF TableType
  <2>2. CASE resident
    <3>1. loaded[r] = table[r] /\ table[r] # NoEntry /\ ~dirty
      BY <1>6, <2>1, <2>2
    <3> HIDE DEF loaded
    <3> QED BY <1>3, <1>6, <2>1, <3>1 DEF Agrees
  <2>3. CASE ~resident
    <3>1. loaded[r] = Pack(req[r])
      BY <1>6, <2>1, <2>3
    <3> HIDE DEF loaded
    <3> QED BY <2>1, <3>1, PackFacts
  <2> QED BY <2>2, <2>3
<1>7. loaded \in TableType
  <2>1. ASSUME NEW r \in Req PROVE loaded[r] \in Entry \cup {NoEntry}
    <3>1. CASE r \in ToSet(running)
      <4> HIDE DEF loaded
      <4> QED BY <1>6, <3>1
    <3>2. CASE r \notin ToSet(running)
      BY <1>3, <3>2 DEF TableType
    <3> QED BY <3>1, <3>2
  <2> QED BY <2>1 DEF TableType
<1> HIDE DEF loaded
<1>8. Reads(entry, req, running, waiting)
  <2>1. ASSUME NEW r \in Req
        PROVE  /\ entry[r] \in Object /\ entry[r].C = req[r].C
               /\ r \notin ToSet(running) => entry[r].T = req[r].T
    <3>1. CASE r \in ToSet(running)
      <4>1. entry[r] = loaded[r]
        BY <3>1
      <4> HIDE DEF entry
      <4> QED BY <1>6, <3>1, <4>1, EntryIsObject
    <3>2. CASE r \notin ToSet(running)
      <4>1. entry[r] = Pack(req[r]) /\ req[r] \in Object
        BY <1>4, <3>2
      <4> HIDE DEF entry
      <4> QED BY <3>2, <4>1, PackFacts
    <3> QED BY <3>1, <3>2
  <2>2. entry \in [Req -> Object]
    <3>1. \A r \in Req : entry[r] \in Object
      BY <2>1
    <3> QED BY <3>1
  <2> HIDE DEF entry
  <2>3. ToSet(running) \cap ToSet(waiting) = {}
    BY <1>3, <1>4 DEF Placed, Waits
  <2> QED BY <1>4, <2>1, <2>2, <2>3 DEF Reads
<1> HIDE DEF entry, offered, rest
<1>9. Schedulable(entry, running, held) /\ Offerable(entry, offered)
  BY <1>2, <1>5, <1>8, AskedOfTheLoops
<1>10. StepKeeps(entry, running, offered, d) /\ d = Schedule(entry, running, offered, held)
  BY <1>2, <1>9, ScheduleKeeps
<1> HIDE DEF d
<1>11. /\ d \in LoopType /\ Len(d.run) <= MaxRunning
       /\ \A r \in Req : d.tokens[r] > 0 => r \in ToSet(d.run)
  BY <1>10 DEF StepKeeps
<1>12. AfterStep(py, req, d, queue)
  <2>1. \A r \in ToSet(running) \cup ToSet(waiting) : entry[r].C = req[r].C
    BY <1>8 DEF Reads
  <2> QED BY <1>3, <1>5, <1>10, <2>1, AppliedKeeps
<1> DEFINE marshalled == Resident(loaded, d)
<1>13. ASSUME NEW r \in Req
       PROVE  marshalled[r] = IF r \in ToSet(d.admitted) THEN Pack(req[r]) ELSE loaded[r]
  BY DEF Resident
<1>14. marshalled \in TableType
  <2>1. ASSUME NEW r \in Req PROVE marshalled[r] \in Entry \cup {NoEntry}
    <3>1. loaded[r] \in Entry \cup {NoEntry} /\ Pack(req[r]) \in Entry
      BY <1>4, <1>7, PackFacts DEF TableType
    <3> HIDE DEF marshalled
    <3> QED BY <1>13, <3>1
  <2> QED BY <2>1 DEF TableType, Resident
<1> HIDE DEF marshalled
<1>15. rs \in TableType
  <2>1. rs = Applied(marshalled, d)
    BY DEF marshalled
  <2> HIDE DEF rs
  <2> QED BY <1>11, <1>14, <2>1, AppliedTypes DEF TableType
<1>16. \A r \in ToSet(d.run) : r \in ToSet(running) \/ r \in ToSet(d.admitted)
  <2>1. PICK left : StepShape(d, left, running, offered)
    BY <1>10 DEF StepKeeps
  <2>2. Split(d, left, running, waiting, queue)
    BY <1>3, <1>5, <1>11, <2>1, LineSplit
  <2> QED BY <2>2 DEF Split
<1>17. wasDirty \in BOOLEAN
  BY DEF wasDirty
<1>18. /\ \A r \in ToSet(running) : entry[r] = loaded[r]
       /\ \A r \in Req \ ToSet(running) : entry[r] = Pack(req[r])
  BY <1>4 DEF entry
<1> HIDE DEF rs, py, queue, wasDirty, nobodyWaits
<1>19. CrateStep(loaded, entry, offered, rest, d, nobodyWaits, wasDirty)
  BY <1>1, <1>5, <1>6, <1>9, <1>10, <1>12, <1>14, <1>15, <1>16, <1>17, <1>18
  DEF CrateStep, rs, py, queue, marshalled
<1> QED BY <1>19

LEMMA ScheduleStepKeeps ==
  ASSUME IInv, ScheduleStep
  PROVE  IInv'
<1>1. PICK loaded, entry, offered, rest, d, nobodyWaits, wasDirty :
        CrateStep(loaded, entry, offered, rest, d, nobodyWaits, wasDirty)
  BY ScheduleStepCases
<1> DEFINE queue == Rebuilt(d, offered, rest)
           py == Applied(req, d)
           marshalled == Resident(loaded, d)
           rs == Applied(marshalled, d)
<1>2. /\ Len(pipeline) < Depth /\ running' = d.run /\ waiting' = queue /\ held' = d.held
      /\ CommitBurst(d, py, rs, nobodyWaits, wasDirty)
      /\ AfterStep(py, req, d, queue) /\ rs \in TableType /\ wasDirty \in BOOLEAN
      /\ \A r \in ToSet(running) : loaded[r] \in Entry /\ loaded[r].C = req[r].C
      /\ \A r \in ToSet(d.run) : r \in ToSet(running) \/ r \in ToSet(d.admitted)
      /\ StepKeeps(entry, running, offered, d)
  BY <1>1 DEF CrateStep
<1>3. /\ Settled(req, table, running, waiting, held, dirty) /\ Flags
      /\ Len(running) <= MaxRunning
  BY Parts
<1>4. Lives(req) /\ req \in [Req -> Object]
  BY <1>3 DEF Settled, Lives
<1>5. /\ d \in LoopType /\ Len(d.run) <= MaxRunning
      /\ \A r \in Req : d.tokens[r] > 0 => r \in ToSet(d.run)
  BY <1>2 DEF StepKeeps
<1>6. ASSUME NEW r \in Req
      PROVE  marshalled[r] = IF r \in ToSet(d.admitted) THEN Pack(req[r]) ELSE loaded[r]
  BY DEF Resident
<1> HIDE DEF marshalled
<1>7. Agrees(py, rs, d.run)
  <2>1. ASSUME NEW r \in ToSet(d.run), rs[r] # NoEntry PROVE rs[r].C = py[r].C
    <3>1. d.run \in Seq(Req)
      BY <1>5, LoopFields
    <3>2. r \in Req
      BY <3>1, SetOf
    <3>3. py[r].C = req[r].C + d.tokens[r] /\ r \notin ToSet(d.preempted)
      BY <1>2, <2>1 DEF AfterStep
    <3>4. marshalled[r] \in Entry /\ marshalled[r].C = req[r].C
      <4>1. CASE r \in ToSet(d.admitted)
        BY <1>4, <1>6, <3>2, <4>1, PackFacts
      <4>2. CASE r \notin ToSet(d.admitted)
        BY <1>2, <1>6, <2>1, <3>2, <4>2
      <4> QED BY <4>1, <4>2
    <3>5. marshalled[r] \in Object
      BY <3>4, EntryIsObject
    <3>6. AppliedTo(marshalled[r], rs[r], d, r)
      BY <1>5, <3>2, <3>5, AppliedFacts
    <3> HIDE DEF rs, py
    <3> QED BY <3>3, <3>4, <3>6 DEF AppliedTo
  <2> QED BY <2>1 DEF Agrees
<1> HIDE DEF rs, py, queue
<1>8. Settled(req', table', d.run, queue, d.held, dirty') /\ Flags'
  BY <1>2, <1>3, <1>4, <1>5, <1>7, CommitKeeps
<1>9. (/\ Settled(req, table, running, waiting, held, dirty) /\ Flags
       /\ Len(running) <= MaxRunning)'
  BY <1>2, <1>5, <1>8
<1> QED BY <1>9, PartsPrime

\* A step stock vLLM schedules from its own objects.
LEMMA StockStepKeeps ==
  ASSUME IInv, StockStep
  PROVE  IInv'
<1> DEFINE none == <<>>
           d == Schedule(req, running, waiting, held)
           queue == Rebuilt(d, waiting, none)
           py == Applied(req, d)
<1>1. /\ Len(pipeline) < Depth /\ running' = d.run /\ waiting' = queue /\ held' = d.held
      /\ req' = py
      /\ table' = [r \in Req |-> IF r \in ToSet(d.preempted) THEN NoEntry ELSE table[r]]
      /\ Enqueue(InFlight(d, 1, py))
      /\ dirty' = TRUE /\ UNCHANGED <<bursts, alarmed>>
  BY DEF StockStep
<1>2. /\ Settled(req, table, running, waiting, held, dirty) /\ Flags
      /\ Len(running) <= MaxRunning
  BY Parts
<1>3. /\ Placed(req, running, waiting) /\ Lives(req) /\ table \in TableType
      /\ running \in Seq(Req) /\ waiting \in Seq(Req) /\ req \in [Req -> Object]
  BY <1>2 DEF Settled, Placed, Lives
<1>4. none \in Seq(Req) /\ waiting = waiting \o none
  BY <1>3, EmptyQueue
<1>5. Reads(req, req, running, waiting)
  BY <1>3 DEF Reads
<1> HIDE DEF none
<1>6. Schedulable(req, running, held) /\ Offerable(req, waiting)
  BY <1>2, <1>3, <1>4, <1>5, AskedOfTheLoops
<1>7. StepKeeps(req, running, waiting, d)
  BY <1>2, <1>6, ScheduleKeeps
<1> HIDE DEF d
<1>8. d \in LoopType /\ Len(d.run) <= MaxRunning
  BY <1>7 DEF StepKeeps
<1>9. AfterStep(py, req, d, queue)
  BY <1>3, <1>4, <1>7, AppliedKeeps
<1>10. pipeline' \in Seq(InFlightType) /\ Len(pipeline') <= Depth
  BY <1>1, <1>2, <1>8, EnqueueFacts
<1>11. table' \in TableType
  BY <1>1, <1>3 DEF TableType
<1> HIDE DEF py, queue
<1>12. Settled(req', table', running', waiting', held', dirty')
  BY <1>1, <1>9, <1>11 DEF Settled, AfterStep
<1>13. Flags'
  BY <1>1, <1>2, <1>10 DEF Flags
<1>14. (/\ Settled(req, table, running, waiting, held, dirty) /\ Flags
        /\ Len(running) <= MaxRunning)'
  BY <1>1, <1>8, <1>12, <1>13
<1> QED BY <1>14, PartsPrime

\* A request that arrives is the last in line.
LEMMA AddKeeps ==
  ASSUME IInv, NEW r \in Req, AddRequest(r)
  PROVE  IInv'
<1>1. /\ req[r].status = "NEW" /\ \A q \in Req : q < r => req[q].status # "NEW"
      /\ req' = [req EXCEPT ![r].status = "WAITING"] /\ waiting' = Append(waiting, r)
      /\ UNCHANGED <<table, running, held, pipeline, dirty, bursts, alarmed>>
  BY DEF AddRequest
<1>2. /\ Settled(req, table, running, waiting, held, dirty) /\ Flags
      /\ Len(running) <= MaxRunning
  BY Parts
<1>3. /\ Placed(req, running, waiting) /\ Housed(req, held) /\ Lives(req) /\ table \in TableType
      /\ running \in Seq(Req) /\ waiting \in Seq(Req) /\ req \in [Req -> Object]
      /\ ~dirty => Agrees(req, table, running)
  BY <1>2 DEF Settled, Placed, Lives
<1>4. ToSet(running) \subseteq Req /\ ToSet(waiting) \subseteq Req /\ Req \subseteq Nat
  BY <1>3, SetOf, Constants
<1>5. /\ req' \in [Req -> Object] /\ req'[r].status = "WAITING"
      /\ req'[r].C = req[r].C /\ req'[r].T = req[r].T
      /\ \A q \in Req \ {r} : req'[q] = req[q]
  <2>1. "WAITING" \in Statuses
    BY DEF Statuses, Live
  <2>2. [req[r] EXCEPT !.status = "WAITING"] \in Object
    BY <1>3, <2>1 DEF Object
  <2>3. req[r] \in Object
    BY <1>3
  <2> DEFINE w == "WAITING"
             f == [req[r] EXCEPT !.status = w]
  <2>4. f.status = w /\ f.C = req[r].C /\ f.T = req[r].T
    BY <2>3 DEF Object
  <2>5. req' = [req EXCEPT ![r] = f]
    BY <1>1
  <2> HIDE DEF f
  <2>6. f \in Object
    BY <2>2 DEF f
  <2> QED BY <1>3, <2>4, <2>5, <2>6
<1>6. \A q \in Req : req'[q].status = "RUNNING" <=> req[q].status = "RUNNING"
  BY <1>1, <1>5
<1>7. \A q \in Req : Waits(req'[q]) <=> Waits(req[q]) \/ q = r
  BY <1>1, <1>5 DEF Waits
<1>8. \A q \in Req : q \in ToSet(running) \cup ToSet(waiting) => q < r
  <2> TAKE q \in Req
  <2> HAVE q \in ToSet(running) \cup ToSet(waiting)
  <2>1. req[q].status # "NEW"
    BY <1>3 DEF Placed, Waits
  <2>2. ~ (r < q) /\ q # r
    BY <1>1, <1>3, <2>1 DEF Lives
  <2> QED BY <1>4, <2>2
<1>9. /\ waiting' \in Seq(Req) /\ ToSet(waiting') = ToSet(waiting) \cup {r}
      /\ Sorted(running \o waiting')
  <2> DEFINE w == Append(waiting, r)
  <2>1. /\ w \in Seq(Req) /\ ToSet(w) = ToSet(waiting) \cup {r}
        /\ Sorted(waiting) /\ (\A y \in ToSet(waiting) : y < r) => Sorted(w)
    BY <1>3, OneMore
  <2> HIDE DEF w
  <2>2. Sorted(running \o waiting)
    BY <1>3 DEF Placed
  <2>3. /\ Sorted(running) /\ Sorted(waiting)
        /\ \A x \in ToSet(running), y \in ToSet(waiting) : x < y
    BY <1>3, <2>2, SortedConcat
  <2>4. Sorted(w) /\ \A x \in ToSet(running), y \in ToSet(w) : x < y
    BY <1>4, <1>8, <2>1, <2>3
  <2>5. Sorted(running \o w)
    BY <1>3, <2>1, <2>3, <2>4, SortedConcat
  <2> QED BY <1>1, <2>1, <2>5 DEF w
<1>10. Placed(req', running', waiting')
  BY <1>1, <1>3, <1>6, <1>7, <1>9 DEF Placed
<1>11. Housed(req', held')
  <2>1. held' = held
    BY <1>1
  <2>2. ASSUME NEW q \in Req
        PROVE  /\ held[q] > 0 => req'[q].status = "RUNNING"
               /\ req'[q].status = "RUNNING" => req'[q].C <= held[q] * BlockSize
    <3>1. req'[q].C = req[q].C
      BY <1>5
    <3> QED BY <1>3, <1>6, <3>1 DEF Housed
  <2> QED BY <1>3, <2>1, <2>2 DEF Housed
<1>12. Lives(req')
  <2>1. ASSUME NEW q \in Req PROVE Sound(req'[q], q)
    <3>1. Sound(req[q], q)
      BY <1>3 DEF Lives
    <3>2. CASE q = r
      BY <1>1, <1>5, <3>1, <3>2 DEF Sound, Waits
    <3>3. CASE q # r
      BY <1>5, <3>1, <3>3
    <3> QED BY <3>2, <3>3
  <2>2. ASSUME NEW q \in Req, NEW p \in Req, q < p, req'[p].status # "NEW"
        PROVE  req'[q].status # "NEW"
    <3>1. CASE q = r
      BY <1>5, <3>1
    <3>2. CASE q # r
      BY <1>1, <1>3, <1>5, <2>2, <3>2 DEF Lives
    <3> QED BY <3>1, <3>2
  <2> QED BY <1>5, <2>1, <2>2 DEF Lives
<1>13. ~dirty' => Agrees(req', table', running')
  <2> SUFFICES ASSUME ~dirty, NEW q \in ToSet(running), table[q] # NoEntry
               PROVE  table[q].C = req'[q].C
    BY <1>1 DEF Agrees
  <2>1. req'[q].C = req[q].C
    BY <1>4, <1>5
  <2> QED BY <1>3, <2>1 DEF Agrees
<1>14. Settled(req', table', running', waiting', held', dirty')
  <2>1. table' \in TableType
    BY <1>1, <1>3
  <2> QED BY <1>10, <1>11, <1>12, <1>13, <2>1 DEF Settled
<1>15. (/\ Settled(req, table, running, waiting, held, dirty) /\ Flags
        /\ Len(running) <= MaxRunning)'
  BY <1>1, <1>2, <1>14 DEF Flags
<1> QED BY <1>15, PartsPrime

\* The requests in S are over, and nobody else gains anything.
Ended(rq, nrq, S) ==
  /\ nrq \in [Req -> Object]
  /\ \A r \in S : rq[r].status # "NEW"
  /\ \A r \in Req :
       /\ nrq[r].status = IF r \in S THEN "FINISHED" ELSE rq[r].status
       /\ nrq[r].C <= rq[r].C
       /\ r \notin S /\ rq[r].status # "FINISHED" => nrq[r].T < LengthCap(r)

\* Both records of the others still agree where they did.
StillAgree(rq, tb, nrq, ntb, run, S) ==
  \A r \in ToSet(run) \ S : ntb[r] # NoEntry =>
     tb[r] # NoEntry /\ (tb[r].C = rq[r].C => ntb[r].C = nrq[r].C)

LEMMA LeaveKeeps ==
  ASSUME NEW rq, NEW tb, NEW run, NEW wait, NEW h, NEW dty, Settled(rq, tb, run, wait, h, dty),
         NEW S \in SUBSET Req, NEW nrq, Ended(rq, nrq, S),
         NEW ntb \in TableType, NEW ndty, ~ndty => ~dty,
         StillAgree(rq, tb, nrq, ntb, run, S)
  PROVE  /\ Settled(nrq, ntb, Without(run, S), Without(wait, S), Release(h, S), ndty)
         /\ Len(Without(run, S)) <= Len(run)
<1> DEFINE nrun == Without(run, S)
           nwait == Without(wait, S)
           nh == Release(h, S)
<1>1. /\ Placed(rq, run, wait) /\ Housed(rq, h) /\ Lives(rq)
      /\ ~dty => Agrees(rq, tb, run)
  BY DEF Settled
<1>2. /\ run \in Seq(Req) /\ wait \in Seq(Req) /\ Sorted(run \o wait)
      /\ rq \in [Req -> Object] /\ h \in [Req -> Nat]
  BY <1>1 DEF Placed, Lives, Housed
<1>3. /\ nrun \in Seq(Req) /\ Len(nrun) <= Len(run) /\ ToSet(nrun) = ToSet(run) \ S
      /\ Sorted(run) => Sorted(nrun)
  BY <1>2, WithoutFacts
<1>4. /\ nwait \in Seq(Req) /\ ToSet(nwait) = ToSet(wait) \ S
      /\ Sorted(wait) => Sorted(nwait)
  BY <1>2, WithoutFacts
<1>5. /\ nh \in [Req -> Nat] /\ SumFunction(nh) <= SumFunction(h)
      /\ SumFunction(nh) \in Nat
      /\ \A r \in Req : (r \in S => nh[r] = 0) /\ (r \notin S => nh[r] = h[r])
  BY <1>2, ReleaseFacts
<1> HIDE DEF nrun, nwait, nh
<1>6. \A r \in Req : /\ nrq[r].status = IF r \in S THEN "FINISHED" ELSE rq[r].status
                     /\ nrq[r].C <= rq[r].C /\ nrq[r].C \in Nat /\ rq[r].C \in Nat
  BY <1>2, ObjectFields DEF Ended
<1>7. Placed(nrq, nrun, nwait)
  <2>1. /\ Sorted(run) /\ Sorted(wait)
        /\ \A x \in ToSet(run), y \in ToSet(wait) : x < y
    BY <1>2, SortedConcat
  <2>2. \A x \in ToSet(nrun), y \in ToSet(nwait) : x < y
    BY <1>3, <1>4, <2>1
  <2>3. Sorted(nrun \o nwait)
    BY <1>3, <1>4, <2>1, <2>2, SortedConcat
  <2>4. ASSUME NEW r \in Req
        PROVE  /\ r \in ToSet(nrun) <=> nrq[r].status = "RUNNING"
               /\ r \in ToSet(nwait) <=> Waits(nrq[r])
    BY <1>1, <1>3, <1>4, <1>6 DEF Placed, Waits
  <2> QED BY <1>3, <1>4, <2>3, <2>4 DEF Placed
<1>8. Housed(nrq, nh)
  <2>1. SumFunction(nh) <= NumBlocks
    <3>1. SumFunction(h) <= NumBlocks /\ SumFunction(h) \in Nat
      <4>1. SumFunction(h) \in Nat
        BY <1>2, SumFacts, Constants
      <4> QED BY <1>1, <4>1 DEF Housed
    <3> QED BY <1>5, <3>1, Constants
  <2>2. ASSUME NEW r \in Req
        PROVE  /\ nh[r] > 0 => nrq[r].status = "RUNNING"
               /\ nrq[r].status = "RUNNING" => nrq[r].C <= nh[r] * BlockSize
    <3>1. CASE r \in S
      BY <1>5, <1>6, <3>1
    <3>2. CASE r \notin S
      <4>1. nh[r] = h[r] /\ nrq[r].status = rq[r].status /\ nrq[r].C <= rq[r].C
        BY <1>5, <1>6, <3>2
      <4>2. /\ h[r] > 0 => rq[r].status = "RUNNING"
            /\ rq[r].status = "RUNNING" => rq[r].C <= h[r] * BlockSize
        BY <1>1 DEF Housed
      <4>3. h[r] * BlockSize \in Nat
        <5>1. h[r] \in Nat /\ BlockSize \in Nat
          BY <1>2, Constants
        <5> QED BY <5>1
      <4> QED BY <1>6, <4>1, <4>2, <4>3
    <3> QED BY <3>1, <3>2
  <2> QED BY <1>5, <2>1, <2>2 DEF Housed
<1>9. Lives(nrq)
  <2>1. ASSUME NEW r \in Req PROVE Sound(nrq[r], r)
    <3>1. Sound(rq[r], r) /\ MaxModelLen \in Nat
      BY <1>1, Constants DEF Lives
    <3>2. nrq[r].C < MaxModelLen
      BY <1>6, <3>1 DEF Sound
    <3>3. CASE r \in S
      <4>1. nrq[r].status = "FINISHED"
        BY <1>6, <3>3
      <4> QED BY <3>2, <4>1 DEF Sound, Waits
    <3>4. CASE r \notin S
      <4>1. nrq[r].status = rq[r].status
        BY <1>6, <3>4
      <4>2. rq[r].status = "NEW" \/ Waits(rq[r]) => nrq[r].C = 0
        BY <1>6, <3>1 DEF Sound
      <4>3. rq[r].status # "FINISHED" => nrq[r].T < LengthCap(r)
        BY <3>4 DEF Ended
      <4> QED BY <3>2, <4>1, <4>2, <4>3 DEF Sound, Waits
    <3> QED BY <3>3, <3>4
  <2>2. \A q, p \in Req : q < p /\ nrq[p].status # "NEW" => nrq[q].status # "NEW"
    BY <1>1, <1>6 DEF Lives, Ended
  <2> QED BY <2>1, <2>2 DEF Lives, Ended
<1>10. ~ndty => Agrees(nrq, ntb, nrun)
  <2> SUFFICES ASSUME ~ndty, NEW r \in ToSet(nrun), ntb[r] # NoEntry
               PROVE  ntb[r].C = nrq[r].C
    BY DEF Agrees
  <2>1. r \in ToSet(run) \ S
    BY <1>3
  <2> QED BY <1>1, <2>1 DEF Agrees, StillAgree
<1> QED BY <1>3, <1>7, <1>8, <1>9, <1>10 DEF Settled, nrun, nwait, nh

\* A client that goes away.
LEMMA AbortKeeps ==
  ASSUME IInv, NEW r \in Req, Abort(r)
  PROVE  IInv'
<1> DEFINE S == {r}
<1>1. /\ req[r].status \in Live /\ req' = [req EXCEPT ![r].status = "FINISHED"]
      /\ table' = [table EXCEPT ![r] = NoEntry] /\ held' = Release(held, S)
      /\ running' = Without(running, S) /\ waiting' = Without(waiting, S)
      /\ UNCHANGED <<pipeline, dirty, bursts, alarmed>>
  BY DEF Abort
<1>2. /\ Settled(req, table, running, waiting, held, dirty) /\ Flags
      /\ Len(running) <= MaxRunning
  BY Parts
<1>3. /\ table \in TableType /\ req \in [Req -> Object] /\ running \in Seq(Req)
      /\ \A q \in Req : Sound(req[q], q) /\ Lives(req)
  BY <1>2 DEF Settled, Placed, Lives
<1>4. /\ req' \in [Req -> Object] /\ req'[r].status = "FINISHED"
      /\ req'[r].C = req[r].C /\ req'[r].T = req[r].T
      /\ \A q \in Req \ {r} : req'[q] = req[q]
  <2> DEFINE w == "FINISHED"
             f == [req[r] EXCEPT !.status = w]
  <2>1. w \in Statuses /\ req[r] \in Object
    BY <1>3 DEF Statuses
  <2>2. f.status = w /\ f.C = req[r].C /\ f.T = req[r].T
    BY <2>1 DEF Object
  <2>3. req' = [req EXCEPT ![r] = f]
    BY <1>1
  <2> HIDE DEF w
  <2>4. f \in Object
    BY <2>1 DEF Object
  <2> HIDE DEF f
  <2>5. /\ req' \in [Req -> Object] /\ req'[r] = f
        /\ \A q \in Req \ {r} : req'[q] = req[q]
    BY <1>3, <2>3, <2>4
  <2> QED BY <2>2, <2>5 DEF w
<1>5. Ended(req, req', S)
  <2>1. ASSUME NEW q \in Req
        PROVE  /\ req'[q].status = IF q \in S THEN "FINISHED" ELSE req[q].status
               /\ req'[q].C <= req[q].C
               /\ q \notin S /\ req[q].status # "FINISHED" => req'[q].T < LengthCap(q)
    <3>1. req[q].C \in Nat /\ Sound(req[q], q)
      BY <1>3, ObjectFields
    <3>2. CASE q = r
      BY <1>4, <3>1, <3>2
    <3>3. CASE q # r
      BY <1>4, <3>1, <3>3 DEF Sound
    <3> QED BY <3>2, <3>3
  <2>2. \A q \in S : req[q].status # "NEW"
    BY <1>1 DEF Live
  <2> QED BY <1>4, <2>1, <2>2 DEF Ended
<1>6. table' \in TableType /\ \A q \in Req \ S : table'[q] = table[q]
  BY <1>1, <1>3 DEF TableType
<1>8. StillAgree(req, table, req', table', running, S)
  <2>1. ToSet(running) \subseteq Req
    BY <1>3, SetOf
  <2> QED BY <1>4, <1>6, <2>1 DEF StillAgree
<1>9. S \in SUBSET Req
  OBVIOUS
<1> HIDE DEF S
<1>10. ~dirty' => ~dirty
  BY <1>1
<1>12. /\ Settled(req', table', Without(running, S), Without(waiting, S), Release(held, S), dirty')
       /\ Len(Without(running, S)) <= Len(running)
  BY <1>2, <1>5, <1>6, <1>8, <1>9, <1>10, LeaveKeeps
<1>13. Settled(req', table', running', waiting', held', dirty') /\ Len(running') <= Len(running)
  BY <1>1, <1>12
<1>14. Len(running') <= MaxRunning
  <2>1. Len(running) \in Nat /\ MaxRunning \in Nat /\ Len(running') \in Nat
    <3>1. running' \in Seq(Req)
      BY <1>13 DEF Settled, Placed
    <3> QED BY <1>3, <3>1, Constants
  <2> QED BY <1>2, <1>13, <2>1
<1>15. (/\ Settled(req, table, running, waiting, held, dirty) /\ Flags
        /\ Len(running) <= MaxRunning)'
  BY <1>1, <1>2, <1>13, <1>14 DEF Flags
<1> QED BY <1>15, PartsPrime

\* Tokens that are handed back are no longer computed.
LEMMA RetractFacts ==
  ASSUME NEW e \in Object, NEW short \in Nat
  PROVE  /\ BurstRetract(e, short) \in Object /\ BurstRetract(e, short).T = e.T
         /\ BurstRetract(e, short).C = Minus(e.C, short)
         /\ BurstRetract(e, short).status = e.status
         /\ e \in Entry => BurstRetract(e, short) \in Entry
<1> DEFINE c == Minus(e.C, short)
           p == Minus(e.P, short)
           k == c < e.T + p
<1>1. BurstRetract(e, short) = [e EXCEPT !.C = c, !.P = p, !.chunk = k]
  BY DEF BurstRetract
<1>2. c \in Nat /\ p \in Nat /\ p \in Int /\ k \in BOOLEAN
  <2>1. e.C \in Int /\ e.P \in Int /\ short \in Int
    BY ObjectFields
  <2>2. c \in Nat
    BY <2>1, MinusFacts
  <2>3. p \in Nat
    BY <2>1, MinusFacts
  <2>4. k \in BOOLEAN
    OBVIOUS
  <2> QED BY <2>2, <2>3, <2>4
<1> HIDE DEF c, p, k
<1>3. /\ BurstRetract(e, short) \in Object /\ BurstRetract(e, short).T = e.T
      /\ BurstRetract(e, short).C = c /\ BurstRetract(e, short).status = e.status
  BY <1>1, <1>2 DEF Object
<1>4. e \in Entry => BurstRetract(e, short) \in Entry
  BY <1>1, <1>2 DEF Entry
<1> QED BY <1>3, <1>4 DEF c

\* What is left of the computed tokens.
LeftOf(c, short) == IF short > 0 THEN Minus(c, short) ELSE c

LEMMA UpdatedFacts ==
  ASSUME NEW e \in Object, NEW acc \in Nat, NEW short \in Int
  PROVE  LET f == UpdatedObject(e, acc, short)
         IN  /\ f \in Object /\ f.T = e.T + acc /\ f.C = LeftOf(e.C, short)
             /\ f.status = e.status
<1> DEFINE t == e.T + acc
           a == [e EXCEPT !.T = t]
           b == IF short > 0 THEN BurstRetract(a, short) ELSE a
           p == Max({0, b.P}) - acc
           f == UpdatedObject(e, acc, short)
<1>1. f = [b EXCEPT !.P = p]
  BY DEF UpdatedObject
<1>2. t \in Nat
  BY ObjectFields
<1> HIDE DEF t
<1>3. a \in Object /\ a.T = t /\ a.C = e.C /\ a.status = e.status
  BY <1>2 DEF Object
<1> HIDE DEF a
<1>4. b \in Object /\ b.T = t /\ b.C = LeftOf(e.C, short) /\ b.status = e.status
  <2>1. CASE short > 0
    <3>1. short \in Nat
      BY <2>1
    <3> QED BY <1>3, <2>1, <3>1, RetractFacts DEF LeftOf
  <2>2. CASE ~ (short > 0)
    BY <1>3, <2>2 DEF LeftOf
  <2> QED BY <2>1, <2>2
<1> HIDE DEF b
<1>5. p \in Int
  <2> DEFINE m == Max({0, b.P})
  <2>1. b.P \in Int
    BY <1>4, ObjectFields
  <2>2. m \in Int
    BY <2>1, Pairs
  <2> QED BY <2>2
<1> HIDE DEF p, f
<1>6. f \in Object /\ f.T = b.T /\ f.C = b.C /\ f.status = b.status
  BY <1>1, <1>4, <1>5 DEF Object
<1>7. f \in Object /\ f.T = t /\ f.C = LeftOf(e.C, short) /\ f.status = e.status
  BY <1>4, <1>6
<1> QED BY <1>7 DEF f, t

LEMMA UpdatedEntryFacts ==
  ASSUME NEW e \in Entry, NEW total \in Nat, NEW acc \in Nat, NEW short \in Int,
         NEW decided \in BOOLEAN
  PROVE  LET f == UpdatedEntry(e, total, acc, short, decided)
         IN  f \in Entry /\ f.C = LeftOf(e.C, short)
<1> DEFINE p == Minus(e.P, acc)
           synced == [e EXCEPT !.T = total, !.P = p]
           base == IF decided THEN synced ELSE e
           f == UpdatedEntry(e, total, acc, short, decided)
<1>1. e \in Object /\ e # NoEntry
  BY EntryIsObject, EntryAssumption DEF EntryAssumption
<1>2. f = IF short > 0 THEN BurstRetract(base, short) ELSE base
  BY <1>1 DEF UpdatedEntry
<1>3. p \in Nat
  <2>1. e.P \in Int /\ acc \in Int
    BY <1>1, ObjectFields
  <2> QED BY <2>1, MinusFacts
<1> HIDE DEF p
<1>4. synced \in Entry /\ synced.C = e.C
  BY <1>3 DEF Entry
<1> HIDE DEF synced
<1>5. base \in Entry /\ base.C = e.C
  BY <1>4
<1> HIDE DEF base, f
<1>6. base \in Object
  BY <1>5, EntryIsObject
<1>7. f \in Entry /\ f.C = LeftOf(e.C, short)
  <2>1. CASE short > 0
    <3>1. short \in Nat
      BY <2>1
    <3> QED BY <1>2, <1>5, <1>6, <2>1, <3>1, RetractFacts DEF LeftOf
  <2>2. CASE ~ (short > 0)
    BY <1>2, <1>5, <2>2 DEF LeftOf
  <2> QED BY <2>1, <2>2
<1> QED BY <1>7 DEF f

\* A step that came back.
UpdateWith(step, live, offered, verdict, fallback) ==
  LET short(r) == step.promised - verdict[r].acc
      stopped == {r \in live : verdict[r].stop}
  IN  /\ \A r \in live : verdict[r] \in Verdicts(r, offered)
      /\ req' = [r \in Req |->
           IF r \notin live THEN req[r]
           ELSE [UpdatedObject(req[r], verdict[r].acc, short(r))
                   EXCEPT !.status = IF r \in stopped THEN "FINISHED" ELSE @]]
      /\ table' = [r \in Req |->
           IF r \in stopped THEN NoEntry
           ELSE IF r \in live
             THEN UpdatedEntry(table[r], req[r].T + verdict[r].acc,
                               verdict[r].acc, short(r), r \notin fallback)
           ELSE table[r]]
      /\ running' = Without(running, stopped)
      /\ waiting' = Without(waiting, stopped)
      /\ held' = Release(held, stopped)
      /\ dirty' = (dirty \/ (Speculate /\ fallback # {}))
      /\ pipeline' = Tail(pipeline)
      /\ UNCHANGED <<bursts, alarmed>>

LEMMA UpdateCases ==
  ASSUME Update
  PROVE  /\ pipeline # <<>>
         /\ \E offered \in {1} \cup {n \in 1 .. Head(pipeline).promised : n % BurstN = 0} :
            \E verdict, fallback :
              LET live == {r \in Head(pipeline).samples : req[r].status \in Live}
              IN  /\ UpdateWith(Head(pipeline), live, offered, verdict, fallback)
                  /\ fallback # {} => Fallbacks
<1> DEFINE step == Head(pipeline)
           live == {r \in step.samples : req[r].status \in Live}
           whole == {n \in 1 .. step.promised : n % BurstN = 0}
<1>1. /\ pipeline # <<>>
      /\ \E offered \in {1} \cup whole :
         \E verdict \in [live -> UNION {Verdicts(r, offered) : r \in live}] :
         \E fallback \in IF Fallbacks THEN SUBSET live ELSE {{}} :
            UpdateWith(step, live, offered, verdict, fallback)
  BY DEF Update, UpdateWith
<1> HIDE DEF step, live, whole
<1>2. \E offered \in {1} \cup whole : \E verdict, fallback :
         UpdateWith(step, live, offered, verdict, fallback) /\ (fallback # {} => Fallbacks)
  BY <1>1
<1> QED BY <1>1, <1>2 DEF step, live, whole

\* The verdicts on a request keep it in its length, and stop it there.
LEMMA VerdictFacts ==
  ASSUME NEW r, NEW offered \in Nat, NEW v \in Verdicts(r, offered)
  PROVE  /\ v.acc \in Nat \ {0} /\ v.acc <= offered /\ v.stop \in BOOLEAN
         /\ ~v.stop => ~ (req[r].T + v.acc >= LengthCap(r))
BY DEF Verdicts

LEMMA UpdateKeeps ==
  ASSUME IInv, Update
  PROVE  IInv'
<1> DEFINE step == Head(pipeline)
           live == {r \in step.samples : req[r].status \in Live}
<1>1. /\ Settled(req, table, running, waiting, held, dirty) /\ Flags
      /\ Len(running) <= MaxRunning
  BY Parts
<1>2. /\ table \in TableType /\ req \in [Req -> Object] /\ running \in Seq(Req)
      /\ \A q \in Req : Sound(req[q], q)
  BY <1>1 DEF Settled, Placed, Lives
<1>3. /\ pipeline # <<>> /\ pipeline \in Seq(InFlightType) /\ Len(pipeline) <= Depth
      /\ dirty \in BOOLEAN /\ bursts \in BOOLEAN /\ alarmed \in BOOLEAN
  BY <1>1, UpdateCases DEF Flags
<1>4. /\ step \in InFlightType /\ Tail(pipeline) \in Seq(InFlightType)
      /\ Len(Tail(pipeline)) <= Depth
  <2>1. /\ Head(pipeline) \in InFlightType /\ Tail(pipeline) \in Seq(InFlightType)
        /\ Len(Tail(pipeline)) = Len(pipeline) - 1 /\ Len(pipeline) \in Nat
    BY <1>3, HeadTailProperties
  <2> QED BY <1>3, <2>1 DEF Depth
<1>5. step.promised \in Nat /\ step.samples \in SUBSET Req
  BY <1>4 DEF InFlightType
<1>6. PICK offered \in {1} \cup {n \in 1 .. step.promised : n % BurstN = 0} :
         \E verdict, fallback : UpdateWith(step, live, offered, verdict, fallback)
  BY UpdateCases
<1>6a. PICK verdict, fallback : UpdateWith(step, live, offered, verdict, fallback)
  BY <1>6
<1> HIDE DEF step
<1> DEFINE short(r) == step.promised - verdict[r].acc
           S == {r \in live : verdict[r].stop}
           total(r) == req[r].T + verdict[r].acc
           decided(r) == r \notin fallback
<1>7. offered \in Nat
  BY <1>5
<1>8. /\ \A r \in live : verdict[r] \in Verdicts(r, offered)
      /\ req' = [r \in Req |->
           IF r \notin live THEN req[r]
           ELSE [UpdatedObject(req[r], verdict[r].acc, short(r))
                   EXCEPT !.status = IF r \in S THEN "FINISHED" ELSE @]]
      /\ table' = [r \in Req |->
           IF r \in S THEN NoEntry
           ELSE IF r \in live
             THEN UpdatedEntry(table[r], total(r), verdict[r].acc, short(r), decided(r))
           ELSE table[r]]
      /\ running' = Without(running, S) /\ waiting' = Without(waiting, S)
      /\ held' = Release(held, S)
      /\ dirty' = (dirty \/ (Speculate /\ fallback # {}))
      /\ pipeline' = Tail(pipeline) /\ UNCHANGED <<bursts, alarmed>>
  BY <1>6a DEF UpdateWith
<1>9. S \subseteq live /\ live \subseteq Req
  BY <1>5
<1>10. ASSUME NEW r \in live
       PROVE  /\ verdict[r].acc \in Nat /\ short(r) \in Int /\ total(r) \in Nat
              /\ req[r] \in Object /\ req[r].status \in Live /\ decided(r) \in BOOLEAN
              /\ r \notin S => ~ (req[r].T + verdict[r].acc >= LengthCap(r))
  <2>1. verdict[r] \in Verdicts(r, offered)
    BY <1>8
  <2>2. /\ verdict[r].acc \in Nat
        /\ ~verdict[r].stop => ~ (req[r].T + verdict[r].acc >= LengthCap(r))
    BY <1>7, <2>1, VerdictFacts
  <2>3. req[r] \in Object /\ req[r].status \in Live
    BY <1>2, <1>9
  <2>4. req[r].T \in Nat
    BY <2>3, ObjectFields
  <2> QED BY <1>5, <2>2, <2>3, <2>4
<1> HIDE DEF live, S, decided, total
<1>11. ASSUME NEW r \in live
       PROVE  /\ req'[r] \in Object /\ req'[r].T = req[r].T + verdict[r].acc
              /\ req'[r].C = LeftOf(req[r].C, short(r))
              /\ req'[r].status = IF r \in S THEN "FINISHED" ELSE req[r].status
  <2> DEFINE f == UpdatedObject(req[r], verdict[r].acc, short(r))
             over == IF r \in S THEN "FINISHED" ELSE f.status
             g == [f EXCEPT !.status = over]
  <2>1. req'[r] = g
    BY <1>8, <1>9
  <2>2. /\ f \in Object /\ f.T = req[r].T + verdict[r].acc
        /\ f.C = LeftOf(req[r].C, short(r)) /\ f.status = req[r].status
    <3> DEFINE s == short(r)
               a == verdict[r].acc
               e == req[r]
    <3>1. s \in Int /\ a \in Nat /\ e \in Object
      BY <1>10
    <3> HIDE DEF s, a, e
    <3>2. LET u == UpdatedObject(e, a, s)
          IN  u \in Object /\ u.T = e.T + a /\ u.C = LeftOf(e.C, s) /\ u.status = e.status
      BY <3>1, UpdatedFacts
    <3> QED BY <3>2 DEF s, a, e
  <2> HIDE DEF f
  <2>3. over \in Statuses /\ over = IF r \in S THEN "FINISHED" ELSE req[r].status
    <3>1. f.status \in Statuses /\ "FINISHED" \in Statuses
      BY <2>2, ObjectFields DEF Statuses
    <3> QED BY <2>2, <3>1
  <2> HIDE DEF over
  <2>4. g \in Object /\ g.T = f.T /\ g.C = f.C /\ g.status = over
    BY <2>2, <2>3 DEF Object
  <2> HIDE DEF g
  <2> QED BY <2>1, <2>2, <2>3, <2>4
<1>12. \A r \in Req \ live : req'[r] = req[r]
  BY <1>8
<1>13. ASSUME NEW c \in Nat, NEW s \in Int PROVE LeftOf(c, s) \in Nat /\ LeftOf(c, s) <= c
  <2>1. c \in Int
    OBVIOUS
  <2>2. Minus(c, s) = IF c >= s THEN c - s ELSE 0
    BY <2>1, MinusFacts
  <2> QED BY <2>2 DEF LeftOf
<1>14. Ended(req, req', S)
  <2>1. req' \in [Req -> Object]
    <3>1. \A r \in Req : req'[r] \in Object
      BY <1>2, <1>11, <1>12
    <3> QED BY <1>8, <3>1
  <2>2. \A r \in S : req[r].status # "NEW"
    BY <1>9, <1>10 DEF Live
  <2>3. ASSUME NEW r \in Req
        PROVE  /\ req'[r].status = IF r \in S THEN "FINISHED" ELSE req[r].status
               /\ req'[r].C <= req[r].C
               /\ r \notin S /\ req[r].status # "FINISHED" => req'[r].T < LengthCap(r)
    <3>1. Sound(req[r], r) /\ req[r].C \in Nat /\ req[r].T \in Nat /\ LengthCap(r) \in Nat
      BY <1>2, ObjectFields, CapFacts
    <3>2. CASE r \in live
      <4>1. short(r) \in Int
        BY <1>10, <3>2
      <4>2. LeftOf(req[r].C, short(r)) <= req[r].C
        <5> HIDE DEF short
        <5> QED BY <1>13, <3>1, <4>1
      <4>3. r \notin S => req'[r].T < LengthCap(r)
        BY <1>10, <1>11, <3>1, <3>2
      <4> QED BY <1>11, <3>2, <4>2, <4>3
    <3>3. CASE r \notin live
      <4>1. r \notin S /\ req'[r] = req[r]
        BY <1>9, <1>12, <3>3
      <4> QED BY <3>1, <4>1 DEF Sound
    <3> QED BY <3>2, <3>3
  <2> QED BY <2>1, <2>2, <2>3 DEF Ended
<1>15. ASSUME NEW r \in Req
       PROVE  /\ table'[r] \in Entry \cup {NoEntry}
              /\ r \notin S /\ table'[r] # NoEntry =>
                   /\ table[r] # NoEntry
                   /\ table'[r].C = IF r \in live THEN LeftOf(table[r].C, short(r)) ELSE table[r].C
  <2>1. table[r] \in Entry \cup {NoEntry}
    BY <1>2 DEF TableType
  <2>2. CASE r \in S
    BY <1>8, <2>2
  <2>3. CASE r \notin S /\ r \notin live
    <3>1. table'[r] = table[r]
      BY <1>8, <2>3
    <3> QED BY <2>1, <2>3, <3>1
  <2>4. CASE r \notin S /\ r \in live
    <3> DEFINE a == verdict[r].acc
               s == short(r)
               t == total(r)
               b == decided(r)
               e == table[r]
               u == UpdatedEntry(e, t, a, s, b)
    <3>1. table'[r] = u
      BY <1>8, <2>4
    <3>2. a \in Nat /\ s \in Int /\ t \in Nat /\ b \in BOOLEAN
      BY <1>10, <2>4
    <3> HIDE DEF a, s, t, b
    <3>3. CASE e = NoEntry
      <4>1. u = NoEntry
        BY <3>3 DEF UpdatedEntry
      <4> HIDE DEF u
      <4> QED BY <3>1, <4>1
    <3>4. CASE e \in Entry
      <4>1. e # NoEntry
        BY <3>4, EntryIsObject, EntryAssumption DEF EntryAssumption
      <4>2. u \in Entry /\ u.C = LeftOf(e.C, s)
        <5> HIDE DEF e
        <5> QED BY <3>2, <3>4, UpdatedEntryFacts
      <4> HIDE DEF u
      <4> QED BY <2>4, <3>1, <4>1, <4>2 DEF s
    <3> QED BY <2>1, <3>3, <3>4
  <2> QED BY <2>2, <2>3, <2>4
<1>16. table' \in TableType
  BY <1>8, <1>15 DEF TableType
<1>17. StillAgree(req, table, req', table', running, S)
  <2>1. ASSUME NEW r \in ToSet(running) \ S, table'[r] # NoEntry
        PROVE  table[r] # NoEntry /\ (table[r].C = req[r].C => table'[r].C = req'[r].C)
    <3>1. r \in Req
      BY <1>2, <2>1, SetOf
    <3>2. /\ table[r] # NoEntry
          /\ table'[r].C = IF r \in live THEN LeftOf(table[r].C, short(r)) ELSE table[r].C
      BY <1>15, <2>1, <3>1
    <3>3. req'[r].C = IF r \in live THEN LeftOf(req[r].C, short(r)) ELSE req[r].C
      BY <1>11, <1>12, <3>1
    <3> QED BY <3>2, <3>3
  <2> QED BY <2>1 DEF StillAgree
<1>18. S \in SUBSET Req
  BY <1>9
<1>19. ~dirty' => ~dirty
  BY <1>8
<1>20. /\ Settled(req', table', Without(running, S), Without(waiting, S), Release(held, S), dirty')
       /\ Len(Without(running, S)) <= Len(running)
  BY <1>1, <1>14, <1>16, <1>17, <1>18, <1>19, LeaveKeeps
<1>21. Settled(req', table', running', waiting', held', dirty') /\ Len(running') <= Len(running)
  BY <1>8, <1>20
<1>22. Len(running') <= MaxRunning
  <2>1. Len(running) \in Nat /\ MaxRunning \in Nat /\ Len(running') \in Nat
    <3>1. running' \in Seq(Req)
      BY <1>21 DEF Settled, Placed
    <3> QED BY <1>2, <3>1, Constants
  <2> QED BY <1>1, <1>21, <2>1
<1>23. Flags'
  <2>1. dirty' \in BOOLEAN /\ bursts' \in BOOLEAN /\ alarmed' \in BOOLEAN
    BY <1>3, <1>8, TableAssumption DEF TableAssumption
  <2> QED BY <1>4, <1>8, <2>1 DEF Flags
<1>24. (/\ Settled(req, table, running, waiting, held, dirty) /\ Flags
        /\ Len(running) <= MaxRunning)'
  BY <1>21, <1>22, <1>23
<1> QED BY <1>24, PartsPrime

\* Nobody has arrived.
LEMMA InitKeeps ==
  ASSUME Init
  PROVE  IInv
<1>1. /\ req = [r \in Req |-> [ T |-> PromptLen[r], C |-> 0, P |-> 0,
                                chunk |-> FALSE, status |-> "NEW" ]]
      /\ table = [r \in Req |-> NoEntry] /\ running = <<>> /\ waiting = <<>>
      /\ held = [r \in Req |-> 0] /\ pipeline = <<>>
      /\ dirty = TRUE /\ bursts = TRUE /\ alarmed = FALSE
  BY DEF Init
<1>2. /\ PromptLen \in [Req -> Nat \ {0}] /\ MaxModelLen \in Nat \ {0} /\ MaxRunning \in Nat
      /\ NumBlocks \in Nat /\ IsFiniteSet(Req)
  BY Constants
<1>3. ASSUME NEW r \in Req
      PROVE  /\ req[r] \in Object /\ req[r].status = "NEW" /\ req[r].C = 0
             /\ req[r].T = PromptLen[r]
  <2> DEFINE w == "NEW"
             t == PromptLen[r]
             none == 0
             f == [T |-> t, C |-> none, P |-> none, chunk |-> FALSE, status |-> w]
  <2>1. req[r] = f
    BY <1>1
  <2>2. w \in Statuses /\ t \in Nat /\ none \in Nat /\ none \in Int
    BY <1>2 DEF Statuses
  <2> HIDE DEF w, t, none
  <2>3. f \in Object /\ f.status = w /\ f.C = none /\ f.T = t
    BY <2>2 DEF Object
  <2> QED BY <2>1, <2>3 DEF w, t, none
<1>4. running \in Seq(Req) /\ waiting \in Seq(Req) /\ ToSet(running) = {} /\ ToSet(waiting) = {}
      /\ running \o waiting = <<>>
  <2>1. <<>> \in Seq(Req) /\ <<>> \o <<>> = <<>>
    BY EmptyQueue
  <2>2. ToSet(<<>>) = {}
    BY DEF ToSet
  <2> QED BY <1>1, <2>1, <2>2
<1>5. Sorted(running \o waiting)
  BY <1>4 DEF Sorted
<1>6. Placed(req, running, waiting)
  BY <1>3, <1>4, <1>5 DEF Placed, Waits
<1>7. Housed(req, held)
  <2>1. held \in [Req -> Nat] /\ \A r \in Req : held[r] = 0
    BY <1>1
  <2>2. SumFunction(held) = 0
    BY <1>2, <2>1, SumFacts
  <2> QED BY <1>2, <1>3, <2>1, <2>2 DEF Housed
<1>8. Lives(req)
  <2>1. req \in [Req -> Object]
    BY <1>1, <1>3
  <2>2. ASSUME NEW r \in Req PROVE Sound(req[r], r)
    <3>1. PromptLen[r] < LengthCap(r)
      BY CapFacts
    <3> QED BY <1>2, <1>3, <3>1 DEF Sound
  <2> QED BY <1>3, <2>1, <2>2 DEF Lives
<1>9. table \in TableType
  BY <1>1 DEF TableType
<1>10. Flags
  <2>1. <<>> \in Seq(InFlightType) /\ Len(<<>>) = 0
    OBVIOUS
  <2>2. pipeline \in Seq(InFlightType) /\ Len(pipeline) <= Depth
    BY <1>1, <2>1 DEF Depth
  <2>3. dirty \in BOOLEAN /\ bursts \in BOOLEAN /\ alarmed \in BOOLEAN
    BY <1>1
  <2> QED BY <2>2, <2>3 DEF Flags
<1>11. Len(running) <= MaxRunning
  BY <1>1, <1>2
<1>12. Settled(req, table, running, waiting, held, dirty)
  BY <1>1, <1>6, <1>7, <1>8, <1>9 DEF Settled
<1> QED BY <1>10, <1>11, <1>12, Parts

\* A step that changes nothing.
LEMMA StutterKeeps ==
  ASSUME IInv, UNCHANGED vars
  PROVE  IInv'
<1>1. /\ Settled(req, table, running, waiting, held, dirty) /\ Flags
      /\ Len(running) <= MaxRunning
  BY Parts
<1>2. (/\ Settled(req, table, running, waiting, held, dirty) /\ Flags
       /\ Len(running) <= MaxRunning)'
  BY <1>1 DEF vars, Flags
<1> QED BY <1>2, PartsPrime

\* The inductive invariant holds.
THEOREM Invariant == Spec => []IInv
<1>1. Init => IInv
  BY InitKeeps
<1>2. ASSUME IInv, [Next]_vars PROVE IInv'
  <2>1. CASE \E r \in Req : AddRequest(r) \/ Abort(r)
    BY <1>2, <2>1, AddKeeps, AbortKeeps
  <2>2. CASE ScheduleStep
    BY <1>2, <2>2, ScheduleStepKeeps
  <2>3. CASE StockStep
    BY <1>2, <2>3, StockStepKeeps
  <2>4. CASE Update
    BY <1>2, <2>4, UpdateKeeps
  <2>5. CASE UNCHANGED vars
    BY <1>2, <2>5, StutterKeeps
  <2> QED BY <1>2, <2>1, <2>2, <2>3, <2>4, <2>5 DEF Next
<1> QED BY <1>1, <1>2, PTL DEF Spec

\* A queue in order holds nobody twice.
LEMMA SortedDistinct ==
  ASSUME NEW s \in Seq(Req), Sorted(s)
  PROVE  Cardinality(ToSet(s)) = Len(s)
<1> DEFINE n == Len(s)
           D == 1 .. n
           T == ToSet(s)
<1>1. n \in Nat /\ DOMAIN s = D /\ \A i \in D : s[i] \in Nat
  <2>1. n \in Nat /\ DOMAIN s = D /\ \A i \in D : s[i] \in Req
    OBVIOUS
  <2> QED BY <2>1, Constants
<1>2. \A x : x \in T <=> \E i \in D : s[i] = x
  BY SetOf
<1> HIDE DEF n, T
<1>3. s \in [D -> T]
  <2>1. s = [i \in D |-> s[i]]
    BY <1>1
  <2> QED BY <1>2, <2>1
<1>4. \A i, j \in D : s[i] = s[j] => i = j
  <2> TAKE i, j \in D
  <2>1. i < j => s[i] < s[j]
    BY <1>1 DEF Sorted
  <2>2. j < i => s[j] < s[i]
    BY <1>1 DEF Sorted
  <2> QED BY <1>1, <2>1, <2>2
<1>5. s \in Bijection(D, T)
  BY <1>1, <1>2, <1>3, <1>4 DEF Bijection, Injection, Surjection, IsInjective
<1>6. ExistsBijection(D, T)
  BY <1>5 DEF ExistsBijection
<1>7. Cardinality(T) = n
  BY <1>1, <1>6, FS_CountingElements
<1> QED BY <1>7 DEF n, T

\* The queues hold every request that is not over once, by its status and in
\* the order of arrival, whatever is preempted, withheld, aborted or scheduled
\* by stock vLLM.
THEOREM QueuesStayInOrder == Spec => []QueuesInOrder
<1>1. ASSUME IInv PROVE QueuesInOrder
  <2>1. Placed(req, running, waiting)
    BY <1>1 DEF IInv
  <2>2. /\ running \in Seq(Req) /\ waiting \in Seq(Req) /\ Sorted(running \o waiting)
        /\ \A r \in Req : /\ r \in ToSet(running) <=> req[r].status = "RUNNING"
                          /\ r \in ToSet(waiting) <=> req[r].status \in {"WAITING", "PREEMPTED"}
    BY <2>1 DEF Placed, Waits
  <2>3. Sorted(running) /\ Sorted(waiting)
    BY <2>2, SortedConcat
  <2>4. /\ Cardinality(ToSet(running)) = Len(running)
        /\ Cardinality(ToSet(waiting)) = Len(waiting)
    BY <2>2, <2>3, SortedDistinct
  <2>5. QueuesPartition
    BY <2>2, <2>4 DEF QueuesPartition
  <2>6. ArrivalOrder
    BY <2>2 DEF ArrivalOrder, Sorted
  <2> QED BY <2>5, <2>6 DEF QueuesInOrder
<1> QED BY <1>1, Invariant, PTL

\* Blocks cover what is computed or promised, only running requests hold any,
\* and no position runs past the context, for every length of burst.
THEOREM StaysBounded == Spec => []Bounded
<1>1. ASSUME IInv PROVE Bounded
  <2>1. TypeOK /\ Housed(req, held) /\ Lives(req)
    BY <1>1 DEF IInv
  <2>2. BlocksCover
    BY <2>1 DEF BlocksCover, Housed
  <2>3. WithinContext
    BY <2>1 DEF WithinContext, Lives, Sound
  <2> QED BY <2>1, <2>2, <2>3 DEF Bounded
<1> QED BY <1>1, Invariant, PTL
------------------------------------------------------------------------------
(***************************************************************************)
(* The two records.  What the loops schedule from is right only as long as *)
(* a promise is not dropped with its token in flight: a request that is    *)
(* preempted keeps no promise, and the token arrives all the same.  The    *)
(* theorems are about the behaviours in which that does not happen.        *)
(***************************************************************************)

\* A step preempts nobody who has a token in flight.
KeepsPromises ==
  \A r \in Req : req[r].status # "PREEMPTED" /\ req'[r].status = "PREEMPTED" => req[r].P = 0

\* The tokens a step in flight will bring the request r, and all of them.
Owed(step, r) == IF r \in step.samples THEN step.promised ELSE 0
Due(pl, r) == SumFunction([i \in DOMAIN pl |-> Owed(pl[i], r)])

\* All tokens but the last are computed or promised once one is promised, and
\* one is missing before.
Steady(e) == e.C < e.T + e.P /\ (e.P > 0 => e.C = e.T + e.P - 1)

\* The record of a request that is owed p tokens.
Promised(e, p) ==
  /\ e.status # "FINISHED" => e.T > 0 /\ e.P = p
  /\ e.status = "RUNNING" => Steady(e)
  /\ e.status = "NEW" \/ Waits(e) => e.P = 0

AllPromised(rq, pl) == \A r \in Req : Promised(rq[r], Due(pl, r))
Positive(pl) == \A i \in DOMAIN pl : pl[i].promised >= 1
Mirrors(rq, tb, run) == \A r \in ToSet(run) : tb[r] = rq[r]

RInv == /\ AllPromised(req, pipeline) /\ Positive(pipeline)
        /\ ~dirty => Mirrors(req, table, running)

\* The sum over at most two places.
Put(g, i, v) == [g EXCEPT ![i] = v]

LEMMA SumOfTwo ==
  ASSUME NEW n \in 0 .. 2, NEW f \in [1 .. n -> Nat]
  PROVE  /\ n = 0 => SumFunction(f) = 0
         /\ n = 1 => SumFunction(f) = f[1]
         /\ n = 2 => SumFunction(f) = f[1] + f[2]
<1> DEFINE D == 1 .. n
<1>1. IsFiniteSet(D) /\ n \in Nat
  BY FS_Interval
<1> DEFINE zero == [i \in D |-> 0]
<1>2. zero \in [D -> Nat] /\ SumFunction(zero) = 0
  <2>1. zero \in [D -> Nat] /\ \A i \in D : zero[i] = 0
    OBVIOUS
  <2> HIDE DEF zero, D
  <2> QED BY <1>1, <2>1, SumFacts
<1>3. ASSUME NEW g \in [D -> Nat], NEW i \in D, NEW v \in Nat
      PROVE  /\ SumFunction(Put(g, i, v)) = SumFunction(g) - g[i] + v
             /\ SumFunction(g) \in Nat /\ g[i] \in Nat
  <2> HIDE DEF D
  <2> QED BY <1>1, SumFacts DEF Put
<1>4. CASE n = 0
  <2>1. f = zero
    BY <1>4
  <2> HIDE DEF zero
  <2> QED BY <1>2, <1>4, <2>1
<1>5. CASE n = 1
  <2> DEFINE a == f[1]
             x == 1
  <2>1. f = Put(zero, x, a) /\ x \in D /\ a \in Nat /\ zero[x] = 0
    BY <1>5 DEF Put
  <2> HIDE DEF zero, D, a, x
  <2>2. SumFunction(Put(zero, x, a)) = SumFunction(zero) - zero[x] + a
    BY <1>2, <1>3, <2>1
  <2>3. SumFunction(f) = a
    BY <1>2, <2>1, <2>2
  <2> QED BY <1>5, <2>3 DEF a
<1>6. CASE n = 2
  <2> DEFINE a == f[1]
             b == f[2]
             x == 1
             y == 2
             one == Put(zero, x, a)
  <2>1. /\ f = Put(one, y, b) /\ x \in D /\ y \in D /\ a \in Nat /\ b \in Nat
        /\ zero[x] = 0 /\ one[y] = 0 /\ one \in [D -> Nat]
    BY <1>6 DEF Put
  <2> HIDE DEF zero, D, a, b, x, y
  <2>2. SumFunction(one) = SumFunction(zero) - zero[x] + a
    BY <1>2, <1>3, <2>1
  <2> HIDE DEF one
  <2>3. SumFunction(Put(one, y, b)) = SumFunction(one) - one[y] + b
    BY <1>3, <2>1
  <2>4. SumFunction(f) = a + b
    BY <1>2, <2>1, <2>2, <2>3
  <2> QED BY <1>6, <2>4 DEF a, b
<1> QED BY <1>4, <1>5, <1>6

\* What is due of no step, of one, and of two.
LEMMA DueIs ==
  ASSUME NEW pl \in Seq(InFlightType), Len(pl) <= Depth, NEW r
  PROVE  /\ Len(pl) \in 0 .. 2
         /\ Due(pl, r) \in Nat
         /\ Len(pl) = 0 => Due(pl, r) = 0
         /\ Len(pl) = 1 => Due(pl, r) = Owed(pl[1], r)
         /\ Len(pl) = 2 => Due(pl, r) = Owed(pl[1], r) + Owed(pl[2], r)
<1> DEFINE n == Len(pl)
           f == [i \in DOMAIN pl |-> Owed(pl[i], r)]
<1>1. n \in 0 .. 2 /\ DOMAIN pl = 1 .. n
  <2>1. Len(pl) \in Nat /\ DOMAIN pl = 1 .. Len(pl)
    BY LenProperties
  <2> QED BY <2>1 DEF Depth
<1>2. \A i \in 1 .. n : Owed(pl[i], r) \in Nat
  <2> TAKE i \in 1 .. n
  <2>1. pl[i] \in InFlightType
    BY <1>1
  <2>2. pl[i].promised \in Nat
    BY <2>1 DEF InFlightType
  <2> QED BY <2>2 DEF Owed
<1>3. f \in [1 .. n -> Nat] /\ \A i \in 1 .. n : f[i] = Owed(pl[i], r)
  BY <1>1, <1>2
<1>4. Due(pl, r) = SumFunction(f)
  BY DEF Due
<1> HIDE DEF f, n
<1>5. /\ n = 0 => SumFunction(f) = 0
      /\ n = 1 => SumFunction(f) = f[1]
      /\ n = 2 => SumFunction(f) = f[1] + f[2]
  BY <1>1, <1>3, SumOfTwo
<1>6. /\ n = 0 => Due(pl, r) = 0
      /\ n = 1 => Due(pl, r) = Owed(pl[1], r)
      /\ n = 2 => Due(pl, r) = Owed(pl[1], r) + Owed(pl[2], r)
  BY <1>1, <1>3, <1>4, <1>5
<1>7. Due(pl, r) \in Nat
  BY <1>1, <1>2, <1>6
<1> QED BY <1>1, <1>6, <1>7 DEF n

\* A step more, and the oldest step less.
LEMMA DueOfOneMore ==
  ASSUME NEW pl \in Seq(InFlightType), Len(pl) < Depth, NEW step \in InFlightType, NEW r
  PROVE  Due(Append(pl, step), r) = Due(pl, r) + Owed(step, r)
<1> DEFINE p == Append(pl, step)
           n == Len(pl)
           m == Len(p)
<1>1. /\ p \in Seq(InFlightType) /\ m = n + 1 /\ n \in Nat
      /\ \A i \in 1 .. n : p[i] = pl[i]
      /\ p[n + 1] = step
  BY AppendProperties
<1>2. n < Depth
  OBVIOUS
<1> HIDE DEF p, n, m
<1>3. m <= Depth /\ n <= Depth /\ ((n = 0 /\ m = 1) \/ (n = 1 /\ m = 2))
  <2>1. m = n + 1 /\ n \in Nat /\ n < 2 /\ Depth = 2
    BY <1>1, <1>2 DEF Depth
  <2> QED BY <2>1
<1>4. /\ m = 1 => Due(p, r) = Owed(p[1], r)
      /\ m = 2 => Due(p, r) = Owed(p[1], r) + Owed(p[2], r)
      /\ n = 0 => Due(pl, r) = 0
      /\ n = 1 => Due(pl, r) = Owed(pl[1], r)
      /\ Due(p, r) \in Nat
  BY <1>1, <1>3, DueIs DEF m, n
<1>5. CASE n = 0
  <2>1. p[1] = step /\ Due(p, r) = Owed(p[1], r) /\ Due(pl, r) = 0
    BY <1>1, <1>3, <1>4, <1>5
  <2> QED BY <1>4, <2>1 DEF p
<1>6. CASE n = 1
  <2>1. p[1] = pl[1] /\ p[2] = step
    BY <1>1, <1>6
  <2> QED BY <1>3, <1>4, <1>6, <2>1 DEF p
<1> QED BY <1>3, <1>5, <1>6

LEMMA DueOfOneLess ==
  ASSUME NEW pl \in Seq(InFlightType), pl # <<>>, Len(pl) <= Depth, NEW r
  PROVE  Due(pl, r) = Owed(Head(pl), r) + Due(Tail(pl), r)
<1> DEFINE p == Tail(pl)
           h == Head(pl)
           n == Len(pl)
           m == Len(p)
<1>1. /\ p \in Seq(InFlightType) /\ m = n - 1 /\ n \in Nat \ {0}
      /\ h = pl[1] /\ \A i \in 1 .. m : p[i] = pl[i + 1]
  BY HeadTailProperties, EmptySeq
<1>2. n <= Depth
  OBVIOUS
<1> HIDE DEF p, h, n, m
<1>3. m <= Depth /\ ((n = 1 /\ m = 0) \/ (n = 2 /\ m = 1))
  <2>1. m = n - 1 /\ n \in Nat \ {0} /\ n <= 2 /\ Depth = 2
    BY <1>1, <1>2 DEF Depth
  <2> QED BY <2>1
<1>4. /\ m = 0 => Due(p, r) = 0
      /\ m = 1 => Due(p, r) = Owed(p[1], r)
      /\ n = 1 => Due(pl, r) = Owed(pl[1], r)
      /\ n = 2 => Due(pl, r) = Owed(pl[1], r) + Owed(pl[2], r)
      /\ Due(pl, r) \in Nat
  BY <1>1, <1>2, <1>3, DueIs DEF m, n
<1>5. CASE n = 1
  <2>1. Due(pl, r) = Owed(h, r) /\ Due(p, r) = 0
    BY <1>1, <1>3, <1>4, <1>5
  <2> QED BY <1>4, <2>1 DEF p, h
<1>6. CASE n = 2
  <2>1. p[1] = pl[2]
    BY <1>1, <1>3, <1>6
  <2>2. Due(p, r) = Owed(pl[2], r) /\ Due(pl, r) = Owed(h, r) + Owed(pl[2], r)
    BY <1>1, <1>3, <1>4, <1>6, <2>1
  <2> QED BY <2>2 DEF p, h
<1> QED BY <1>3, <1>5, <1>6

\* Records are what their fields are.
LEMMA SameObject ==
  ASSUME NEW a \in Object, NEW b \in Object,
         a.T = b.T, a.C = b.C, a.P = b.P, a.chunk = b.chunk, a.status = b.status
  PROVE  a = b
BY DEF Object

\* The fields the other lemmas leave out.
LEMMA AdvancePieces ==
  ASSUME NEW e \in Object, NEW n \in Nat
  PROVE  LET k == e.C + n < e.T + e.P
         IN  /\ Advance(e, n).P = IF k THEN e.P ELSE e.P + 1
             /\ Advance(e, n).chunk = k
<1> DEFINE c == e.C + n
           k == c < e.T + e.P
           p == IF k THEN e.P ELSE e.P + 1
<1>1. Advance(e, n) = [e EXCEPT !.C = c, !.chunk = k, !.P = p]
  BY DEF Advance
<1> HIDE DEF c, k, p
<1>2. Advance(e, n).P = p /\ Advance(e, n).chunk = k
  BY <1>1 DEF Object
<1> QED BY <1>2 DEF c, k, p

LEMMA PreemptPieces ==
  ASSUME NEW e \in Object
  PROVE  Preempt(e).P = 0
<1> DEFINE k == 0 < e.T
           none == 0
           status == "PREEMPTED"
<1>1. Preempt(e) = [e EXCEPT !.status = status, !.C = none, !.P = none, !.chunk = k]
  BY DEF Preempt
<1> HIDE DEF k, none, status
<1>2. Preempt(e).P = none
  BY <1>1 DEF Object
<1> QED BY <1>2 DEF none

LEMMA RetractPieces ==
  ASSUME NEW e \in Object, NEW short \in Nat
  PROVE  /\ BurstRetract(e, short).P = Minus(e.P, short)
         /\ BurstRetract(e, short).chunk = (Minus(e.C, short) < e.T + Minus(e.P, short))
<1> DEFINE c == Minus(e.C, short)
           p == Minus(e.P, short)
           k == c < e.T + p
<1>1. BurstRetract(e, short) = [e EXCEPT !.C = c, !.P = p, !.chunk = k]
  BY DEF BurstRetract
<1> HIDE DEF c, p, k
<1>2. BurstRetract(e, short).P = p /\ BurstRetract(e, short).chunk = k
  BY <1>1 DEF Object
<1> QED BY <1>2 DEF c, p, k

LEMMA BurstAdvancePieces ==
  ASSUME NEW e \in Object, NEW n \in Nat
  PROVE  BurstAdvance(e, n).P = e.P + n
<1> DEFINE c == e.C + n
           k == c < e.T + e.P
           p == e.P + n
<1>1. BurstAdvance(e, n) = [e EXCEPT !.C = c, !.chunk = k, !.P = p]
  BY DEF BurstAdvance
<1> HIDE DEF c, k, p
<1>2. BurstAdvance(e, n).P = p
  BY <1>1 DEF Object
<1> QED BY <1>2 DEF p

\* Tokens within reach leave the record steady, and the last of them makes the
\* promise.
LEMMA AdvanceSteady ==
  ASSUME NEW e \in Object, NEW n \in Nat, InReach(e, n), Steady(e), e.P \in Nat
  PROVE  LET a == Advance(e, n)
         IN  Steady(a) /\ a.P = e.P + (IF n > 0 /\ ~a.chunk THEN 1 ELSE 0)
<1> DEFINE a == Advance(e, n)
           k == e.C + n < e.T + e.P
<1>1. a \in Object /\ a.C = e.C + n /\ a.T = e.T
  BY AdvanceFacts
<1>2. a.P = (IF k THEN e.P ELSE e.P + 1) /\ a.chunk = k
  BY AdvancePieces
<1>3. e.C \in Nat /\ e.T \in Nat /\ e.P \in Nat
  BY ObjectFields
<1> HIDE DEF a
<1>4. e.C < e.T + e.P /\ (e.P > 0 => e.C = e.T + e.P - 1)
  BY DEF Steady
<1>5. n > 0 => e.C + n <= e.T + e.P
  BY <1>3 DEF InReach
<1>6. CASE k
  <2>1. a.P = e.P /\ a.chunk /\ a.C = e.C + n /\ a.T = e.T
    BY <1>1, <1>2, <1>6
  <2>2. e.P > 0 => n = 0
    BY <1>3, <1>4, <1>6
  <2>3. Steady(a)
    BY <1>3, <1>4, <1>6, <2>1, <2>2 DEF Steady
  <2>4. a.P = e.P + 0
    BY <1>3, <2>1
  <2> QED BY <2>1, <2>3, <2>4 DEF a
<1>7. CASE ~k
  <2>1. a.P = e.P + 1 /\ ~a.chunk /\ a.C = e.C + n /\ a.T = e.T
    BY <1>1, <1>2, <1>7
  <2>2. n > 0 /\ e.C + n = e.T + e.P
    BY <1>3, <1>4, <1>5, <1>7
  <2>3. Steady(a)
    BY <1>3, <2>1, <2>2 DEF Steady
  <2> QED BY <2>1, <2>2, <2>3 DEF a
<1> QED BY <1>6, <1>7

\* What a step does to a record that goes on running, or that it admits.
LEMMA AppliedSteady ==
  ASSUME NEW rq, NEW d \in LoopType, NEW r \in Req, rq[r] \in Object, NEW p \in Nat,
         Promised(rq[r], p), r \notin ToSet(d.preempted), InReach(rq[r], d.tokens[r]),
         \/ rq[r].status = "RUNNING" /\ r \notin ToSet(d.admitted)
         \/ Waits(rq[r]) /\ rq[r].C = 0 /\ r \in ToSet(d.admitted)
  PROVE  LET a == Applied(rq, d)[r]
         IN  Steady(a) /\ a.P = p + (IF d.tokens[r] > 0 /\ ~a.chunk THEN 1 ELSE 0)
<1> DEFINE e == rq[r]
           f == [e EXCEPT !.status = "RUNNING"]
           n == d.tokens[r]
           a == Applied(rq, d)[r]
           in == r \in ToSet(d.admitted)
<1>1. n \in Nat
  BY LoopFields
<1>2. e # NoEntry
  BY EntryAssumption DEF EntryAssumption
<1>3. a = IF in THEN Advance(f, n) ELSE IF n > 0 THEN Advance(e, n) ELSE e
  BY <1>2 DEF Applied
<1>4. f \in Object /\ f.C = e.C /\ f.T = e.T /\ f.P = e.P
  <2>1. "RUNNING" \in Statuses
    BY DEF Statuses, Live
  <2> QED BY <2>1 DEF Object
<1>5. e \in Object /\ Promised(e, p) /\ InReach(e, n)
      /\ ((e.status = "RUNNING" /\ ~in) \/ (Waits(e) /\ e.C = 0 /\ in))
  OBVIOUS
<1> HIDE DEF e, f, n, a, in
<1>6. e.T \in Nat /\ e.C \in Nat /\ e.status # "FINISHED" /\ e.T > 0 /\ e.P = p
  BY <1>5, ObjectFields DEF Promised, Waits
<1>7. CASE in
  <2>1. Steady(f)
    BY <1>4, <1>5, <1>6, <1>7 DEF Promised, Steady
  <2>2. InReach(f, n)
    BY <1>4, <1>5 DEF InReach
  <2>3. a = Advance(f, n) /\ f.P = p
    BY <1>3, <1>4, <1>6, <1>7
  <2>4. Steady(a) /\ a.P = p + (IF n > 0 /\ ~a.chunk THEN 1 ELSE 0)
    BY <1>1, <1>4, <2>1, <2>2, <2>3, AdvanceSteady
  <2> QED BY <2>4 DEF a, n
<1>8. CASE ~in
  <2>1. Steady(e)
    BY <1>5, <1>8 DEF Promised
  <2>2. CASE n > 0
    <3>1. a = Advance(e, n)
      BY <1>3, <1>8, <2>2
    <3>2. Steady(a) /\ a.P = p + (IF n > 0 /\ ~a.chunk THEN 1 ELSE 0)
      BY <1>1, <1>5, <1>6, <2>1, <3>1, AdvanceSteady
    <3> QED BY <3>2 DEF a, n
  <2>3. CASE ~ (n > 0)
    <3>1. a = e /\ p + 0 = p
      BY <1>3, <1>8, <2>3
    <3>2. Steady(a) /\ a.P = p + (IF n > 0 /\ ~a.chunk THEN 1 ELSE 0)
      BY <1>6, <2>1, <2>3, <3>1
    <3> QED BY <3>2 DEF a, n
  <2> QED BY <2>2, <2>3
<1> QED BY <1>7, <1>8

\* What the step that is queued owes a request.
LEMMA OwedIs ==
  ASSUME NEW d \in LoopType, NEW p \in Nat, NEW py, NEW r \in Req
  PROVE  /\ InFlight(d, p, py) \in InFlightType /\ InFlight(d, p, py).promised = p
         /\ Owed(InFlight(d, p, py), r) = IF d.tokens[r] > 0 /\ ~py[r].chunk THEN p ELSE 0
<1> DEFINE S == {q \in Scheduled(d) : ~py[q].chunk}
           step == InFlight(d, p, py)
<1>1. d.tokens \in [Req -> Nat] /\ S \in SUBSET Req
  BY LoopFields DEF Scheduled
<1>2. r \in S <=> d.tokens[r] > 0 /\ ~py[r].chunk
  BY DEF Scheduled
<1>3. step = [tokens |-> d.tokens, promised |-> p, samples |-> S]
  BY DEF InFlight
<1> HIDE DEF S, step
<1>4. step \in InFlightType /\ step.promised = p /\ step.samples = S
  BY <1>1, <1>3 DEF InFlightType
<1>5. Owed(step, r) = IF r \in S THEN p ELSE 0
  BY <1>4 DEF Owed
<1> QED BY <1>2, <1>4, <1>5 DEF step

\* After a step, everybody is owed what it had promised and what the step
\* samples.
LEMMA StepPromises ==
  ASSUME NEW rq, NEW run, NEW wait, Placed(rq, run, wait), Lives(rq),
         NEW due, \A r \in Req : due[r] \in Nat /\ Promised(rq[r], due[r]),
         NEW offered \in Seq(Req), NEW rest \in Seq(Req), wait = offered \o rest,
         NEW entry, \A r \in Req : rq[r].status # "FINISHED" => entry[r] = rq[r],
         NEW d, StepKeeps(entry, run, offered, d),
         \A r \in ToSet(d.preempted) : rq[r].P = 0
  PROVE  \A r \in Req :
           Promised(Applied(rq, d)[r], due[r] + Owed(InFlight(d, 1, Applied(rq, d)), r))
<1> DEFINE py == Applied(rq, d)
           queue == Rebuilt(d, offered, rest)
<1>1. /\ d \in LoopType /\ Covers(entry, d)
      /\ \A r \in Req : d.tokens[r] > 0 => r \in ToSet(d.run)
  BY DEF StepKeeps
<1>2. PICK left : StepShape(d, left, run, offered)
  BY DEF StepKeeps
<1>3. Split(d, left, run, wait, queue)
  BY <1>1, <1>2, LineSplit
<1>4. /\ ToSet(run) = ToSet(left) \cup ToSet(d.preempted)
      /\ ToSet(left) \cap ToSet(d.preempted) = {}
      /\ ToSet(d.run) = ToSet(left) \cup ToSet(d.admitted)
      /\ ToSet(d.admitted) \subseteq ToSet(wait)
      /\ ToSet(run) \cap ToSet(wait) = {}
  BY <1>3 DEF Split
<1>5. ASSUME NEW r \in Req
      PROVE  /\ rq[r] \in Object /\ due[r] \in Nat /\ Promised(rq[r], due[r])
             /\ r \in ToSet(run) <=> rq[r].status = "RUNNING"
             /\ r \in ToSet(wait) <=> Waits(rq[r])
             /\ Waits(rq[r]) => rq[r].C = 0
  BY DEF Lives, Placed, Sound
<1>6. ASSUME NEW r \in Req
      PROVE  Owed(InFlight(d, 1, py), r) = IF d.tokens[r] > 0 /\ ~py[r].chunk THEN 1 ELSE 0
  BY <1>1, OwedIs
<1> HIDE DEF queue
<1>7. ASSUME NEW r \in Req PROVE Promised(py[r], due[r] + Owed(InFlight(d, 1, py), r))
  <2> DEFINE a == py[r]
             e == rq[r]
             o == Owed(InFlight(d, 1, py), r)
  <2>1. AppliedTo(e, a, d, r)
    BY <1>1, <1>5, AppliedFacts
  <2>2. e \in Object /\ due[r] \in Nat /\ Promised(e, due[r])
    BY <1>5
  <2>3. CASE r \in ToSet(d.preempted)
    <3>1. e.status = "RUNNING" /\ r \notin ToSet(d.run)
      BY <1>4, <1>5, <2>3
    <3>2. ~(d.tokens[r] > 0)
      BY <1>1, <3>1
    <3>3. o = 0
      BY <1>6, <3>2
    <3>4. e.P = 0 /\ due[r] = 0 /\ e.T > 0
      BY <2>2, <2>3, <3>1 DEF Promised
    <3>5. e # NoEntry
      BY <2>2, EntryAssumption DEF EntryAssumption
    <3>6. a = Preempt(e)
      BY <2>3, <3>5 DEF Applied
    <3>7. a.P = 0 /\ a.T = e.T /\ a.status = "PREEMPTED"
      BY <2>2, <3>6, PreemptFacts, PreemptPieces
    <3> HIDE DEF a, e, o
    <3>8. Promised(a, due[r] + o)
      BY <3>3, <3>4, <3>7 DEF Promised, Waits
    <3> QED BY <3>8 DEF a, o
  <2>4. CASE r \in ToSet(d.run)
    <3>1. r \notin ToSet(d.preempted)
      BY <1>4, <2>4
    <3>2. \/ e.status = "RUNNING" /\ r \notin ToSet(d.admitted)
          \/ Waits(e) /\ e.C = 0 /\ r \in ToSet(d.admitted)
      BY <1>4, <1>5, <2>4
    <3>3. entry[r] = e
      BY <3>2 DEF Waits
    <3>4. InReach(e, d.tokens[r])
      BY <1>1, <2>4, <3>3 DEF Covers
    <3>5. Steady(a) /\ a.P = due[r] + (IF d.tokens[r] > 0 /\ ~a.chunk THEN 1 ELSE 0)
      BY <1>1, <2>2, <3>1, <3>2, <3>4, AppliedSteady
    <3>6. a.P = due[r] + o
      BY <1>6, <3>5
    <3>7. a.T = e.T /\ a.status = "RUNNING"
      BY <2>1, <3>1, <3>2 DEF AppliedTo
    <3>8. e.T > 0
      BY <2>2, <3>2 DEF Promised, Waits
    <3> HIDE DEF a, e, o
    <3>9. Promised(a, due[r] + o)
      BY <3>5, <3>6, <3>7, <3>8 DEF Promised, Waits
    <3> QED BY <3>9 DEF a, o
  <2>5. CASE r \notin ToSet(d.preempted) /\ r \notin ToSet(d.run)
    <3>1. ~(d.tokens[r] > 0) /\ r \notin ToSet(d.admitted)
      BY <1>1, <1>4, <2>5
    <3>2. o = 0
      BY <1>6, <3>1
    <3>3. e # NoEntry
      BY <2>2, EntryAssumption DEF EntryAssumption
    <3>4. a = e
      BY <2>5, <3>1, <3>3 DEF Applied
    <3> HIDE DEF a, e, o
    <3>5. due[r] + o = due[r]
      BY <2>2, <3>2
    <3>6. Promised(a, due[r] + o)
      BY <2>2, <3>4, <3>5
    <3> QED BY <3>6 DEF a, o
  <2> QED BY <2>3, <2>4, <2>5
<1> QED BY <1>7 DEF py

\* The step that is queued.
LEMMA EnqueuePromises ==
  ASSUME Flags, Len(pipeline) < Depth, Positive(pipeline),
         NEW d \in LoopType, NEW p \in Nat \ {0}, NEW py, Enqueue(InFlight(d, p, py))
  PROVE  /\ Positive(pipeline')
         /\ \A r \in Req : Due(pipeline', r) = Due(pipeline, r) + Owed(InFlight(d, p, py), r)
<1> DEFINE step == InFlight(d, p, py)
<1>1. pipeline \in Seq(InFlightType) /\ Len(pipeline) \in Nat /\ Len(pipeline) <= Depth
  BY DEF Flags
<1>2. \A r \in Req : /\ step \in InFlightType /\ step.promised = p
                     /\ Owed(step, r) = IF d.tokens[r] > 0 /\ ~py[r].chunk THEN p ELSE 0
  BY OwedIs
<1>3. step.tokens = d.tokens
  BY DEF InFlight
<1>4. pipeline' = IF d.tokens = [r \in Req |-> 0] THEN pipeline ELSE Append(pipeline, step)
  BY <1>3 DEF Enqueue
<1>5. step \in InFlightType /\ step.promised = p
  <2>1. step \in InFlightType
    <3>1. {q \in Scheduled(d) : ~py[q].chunk} \in SUBSET Req
      BY DEF Scheduled
    <3>2. d.tokens \in [Req -> Nat]
      BY LoopFields
    <3> QED BY <3>1, <3>2 DEF InFlight, InFlightType
  <2> QED BY <2>1 DEF InFlight
<1> HIDE DEF step
<1>6. CASE d.tokens = [r \in Req |-> 0]
  <2>1. pipeline' = pipeline
    BY <1>4, <1>6
  <2>2. ASSUME NEW r \in Req PROVE Due(pipeline', r) = Due(pipeline, r) + Owed(step, r)
    <3>1. d.tokens[r] = 0
      BY <1>6
    <3>2. Owed(step, r) = 0 /\ Due(pipeline, r) \in Nat
      BY <1>1, <1>2, <3>1, DueIs
    <3> QED BY <2>1, <3>2
  <2> QED BY <2>1, <2>2 DEF step
<1>7. CASE d.tokens # [r \in Req |-> 0]
  <2>1. pipeline' = Append(pipeline, step)
    BY <1>4, <1>7
  <2>2. Positive(pipeline')
    <3> DEFINE n == Len(pipeline)
               pl == Append(pipeline, step)
    <3>1. /\ n \in Nat /\ DOMAIN pl = 1 .. n + 1 /\ DOMAIN pipeline = 1 .. n
          /\ \A i \in 1 .. n : pl[i] = pipeline[i]
          /\ pl[n + 1] = step
      BY <1>1, <1>5, AppendProperties, LenProperties
    <3> HIDE DEF n, pl
    <3>2. ASSUME NEW i \in DOMAIN pl PROVE pl[i].promised >= 1
      <4>1. CASE i \in 1 .. n
        BY <3>1, <4>1 DEF Positive
      <4>2. CASE i = n + 1
        BY <1>5, <3>1, <4>2
      <4> QED BY <3>1, <4>1, <4>2
    <3> QED BY <2>1, <3>2 DEF Positive, pl
  <2>3. \A r \in Req : Due(pipeline', r) = Due(pipeline, r) + Owed(step, r)
    BY <1>1, <1>5, <2>1, DueOfOneMore
  <2> QED BY <2>2, <2>3 DEF step
<1> QED BY <1>6, <1>7

\* A burst moves a record on its shape by what it promises more.
LEMMA BurstPromises ==
  ASSUME NEW py \in [Req -> Object], NEW r \in Req, NEW S, NEW b \in Nat \ {0},
         NEW due \in Nat, NEW o, o = (IF r \in S THEN 1 ELSE 0),
         Promised(py[r], due + o), r \in S => BurstShape(py[r]) /\ py[r].status = "RUNNING"
  PROVE  Promised(Moved(py, S, b - 1)[r], due + (IF r \in S THEN b ELSE 0))
<1> DEFINE e == py[r]
           n == b - 1
           a == Moved(py, S, n)[r]
<1>1. e \in Object /\ n \in Nat /\ e # NoEntry
  BY EntryAssumption DEF EntryAssumption
<1>2. a = IF r \in S THEN BurstAdvance(e, n) ELSE e
  BY <1>1 DEF Moved
<1>3. Promised(e, due + o) /\ (r \in S => BurstShape(e) /\ e.status = "RUNNING")
  OBVIOUS
<1>4. n = b - 1
  OBVIOUS
<1> HIDE DEF e, n, a
<1>5. CASE r \in S
  <2>1. a.P = e.P + n /\ a.C = e.C + n /\ a.T = e.T /\ a.status = "RUNNING"
    BY <1>1, <1>2, <1>3, <1>5, BurstAdvanceFacts, BurstAdvancePieces
  <2>2. e.P = due + 1 /\ e.T > 0 /\ e.C = e.T + e.P - 1
    BY <1>3, <1>5 DEF Promised, BurstShape
  <2>3. e.C \in Nat /\ e.T \in Nat
    BY <1>1, ObjectFields
  <2>4. a.P = due + b /\ a.C = a.T + a.P - 1
    BY <1>1, <1>4, <2>1, <2>2, <2>3
  <2>5. Steady(a)
    BY <1>1, <2>1, <2>2, <2>3, <2>4 DEF Steady
  <2>6. Promised(a, due + b)
    BY <2>1, <2>2, <2>4, <2>5 DEF Promised, Waits
  <2> QED BY <1>5, <2>6 DEF a, n
<1>6. CASE r \notin S
  <2>1. Promised(a, due + 0)
    BY <1>2, <1>3, <1>6
  <2> QED BY <1>6, <2>1 DEF a, n
<1> QED BY <1>5, <1>6

\* Committing the step, with a burst or without.
LEMMA CommitPromises ==
  ASSUME Flags, Len(pipeline) < Depth, Positive(pipeline), NEW nobodyWaits, NEW wasDirty \in BOOLEAN,
         NEW rq, Lives(rq), NEW d \in LoopType, NEW queue, NEW py, AfterStep(py, rq, d, queue),
         \A r \in Req : d.tokens[r] > 0 => r \in ToSet(d.run),
         \A r \in Req : Promised(py[r], Due(pipeline, r) + Owed(InFlight(d, 1, py), r)),
         NEW rs \in TableType, Mirrors(py, rs, d.run),
         CommitBurst(d, py, rs, nobodyWaits, wasDirty)
  PROVE  /\ AllPromised(req', pipeline') /\ Positive(pipeline')
         /\ ~dirty' => Mirrors(req', table', d.run)
<1> DEFINE S == Scheduled(d)
           batch == SelectSeq(d.run, LAMBDA r : r \in S)
           asked == BurstAsked(d, nobodyWaits)
           granted == asked /\ BurstGranted(S, py)
           alarm == asked /\ BurstAlarm(batch, py) /\ ~alarmed
           delta(k) == BurstN * k - 1
<1>1. py \in [Req -> Object] /\ d.run \in Seq(Req) /\ ToSet(d.run) \subseteq Req
  <2>1. py \in [Req -> Object] /\ d.run \in Seq(Req)
    BY LoopFields DEF AfterStep, Lives
  <2> QED BY <2>1, SetOf
<1>2. \/ /\ req' = py /\ table' = rs
         /\ Enqueue(InFlight(d, 1, py))
         /\ alarmed' = (alarmed \/ alarm)
         /\ dirty' = (wasDirty \/ alarm)
         /\ UNCHANGED bursts
      \/ \E k \in 1 .. BurstSteps :
         /\ granted /\ k <= StepsThatFit(S, py)
         /\ req' = Moved(py, S, delta(k))
         /\ table' = Moved(rs, S, delta(k))
         /\ Enqueue(InFlight(d, BurstN * k, py))
         /\ dirty' = wasDirty
         /\ UNCHANGED <<bursts, alarmed>>
      \/ \E moved \in SUBSET S, k \in 1 .. BurstSteps :
         /\ granted /\ k <= StepsThatFit(S, py)
         /\ req' = py
         /\ table' = Moved(rs, moved, delta(k))
         /\ Enqueue(InFlight(d, 1, py))
         /\ bursts' = FALSE
         /\ dirty' = TRUE
         /\ UNCHANGED alarmed
  BY DEF CommitBurst
<1> HIDE DEF S, asked, alarm
<1>3. ASSUME req' = py, Enqueue(InFlight(d, 1, py))
      PROVE  AllPromised(req', pipeline') /\ Positive(pipeline')
  <2>1. 1 \in Nat \ {0}
    OBVIOUS
  <2>2. /\ Positive(pipeline')
        /\ \A r \in Req : Due(pipeline', r) = Due(pipeline, r) + Owed(InFlight(d, 1, py), r)
    BY <1>3, <2>1, EnqueuePromises
  <2> QED BY <1>3, <2>2 DEF AllPromised
<1>4. ASSUME NEW k \in 1 .. BurstSteps, granted, k <= StepsThatFit(S, py),
             req' = Moved(py, S, delta(k)), table' = Moved(rs, S, delta(k)),
             Enqueue(InFlight(d, BurstN * k, py))
      PROVE  AllPromised(req', pipeline') /\ Positive(pipeline') /\ Mirrors(req', table', d.run)
  <2> DEFINE b == BurstN * k
             n == delta(k)
  <2>1. b \in Nat \ {0} /\ n = b - 1 /\ n \in Nat
    <3>1. k \in 1 .. BurstSteps /\ k <= StepsThatFit(Scheduled(d), py)
          /\ BurstEligible(d, BurstCap) /\ BurstGranted(Scheduled(d), py)
      BY <1>4 DEF S, asked, BurstAsked
    <3>2. BurstN * k - 1 \in Nat
      BY <3>1, BurstHasRoom
    <3>3. BurstN * k \in Int
      BY TableAssumption DEF TableAssumption
    <3> QED BY <3>2, <3>3
  <2>2. req' = Moved(py, S, n) /\ table' = Moved(rs, S, n) /\ Enqueue(InFlight(d, b, py))
    BY <1>4
  <2> HIDE DEF b, n, delta
  <2>3. ASSUME NEW r \in Req
        PROVE  /\ r \in S <=> d.tokens[r] > 0
               /\ r \in S => BurstShape(py[r]) /\ ~py[r].chunk /\ py[r].status = "RUNNING"
    <3>1. r \in S <=> d.tokens[r] > 0
      BY DEF S, Scheduled
    <3>2. r \in S => BurstShape(py[r])
      BY <1>4 DEF BurstGranted
    <3>3. r \in S => py[r].status = "RUNNING"
      BY <3>1 DEF AfterStep, Placed
    <3> QED BY <3>1, <3>2, <3>3 DEF BurstShape
  <2>4. /\ Positive(pipeline')
        /\ \A r \in Req : Due(pipeline', r) = Due(pipeline, r) + Owed(InFlight(d, b, py), r)
    BY <2>1, <2>2, EnqueuePromises
  <2>5. ASSUME NEW r \in Req PROVE Promised(req'[r], Due(pipeline', r))
    <3> DEFINE o == Owed(InFlight(d, 1, py), r)
               due == Due(pipeline, r)
    <3>1. 1 \in Nat /\ b \in Nat
      BY <2>1
    <3>2. o = (IF r \in S THEN 1 ELSE 0)
      BY <2>3, <3>1, OwedIs
    <3>3. Owed(InFlight(d, b, py), r) = IF r \in S THEN b ELSE 0
      BY <2>3, <3>1, OwedIs
    <3>4. due \in Nat
      BY DueIs DEF Flags
    <3>5. Promised(py[r], due + o)
      OBVIOUS
    <3> HIDE DEF o, due
    <3>6. Promised(Moved(py, S, b - 1)[r], due + (IF r \in S THEN b ELSE 0))
      BY <1>1, <2>1, <2>3, <3>2, <3>4, <3>5, BurstPromises
    <3>7. Due(pipeline', r) = due + (IF r \in S THEN b ELSE 0)
      BY <2>4, <3>3 DEF due
    <3> QED BY <2>1, <2>2, <3>6, <3>7
  <2>6. ASSUME NEW r \in ToSet(d.run) PROVE table'[r] = req'[r]
    <3>1. r \in Req /\ rs[r] = py[r]
      BY <1>1, <2>6 DEF Mirrors
    <3>2. DOMAIN rs = Req /\ DOMAIN py = Req
      BY <1>1 DEF TableType
    <3> QED BY <2>2, <3>1, <3>2 DEF Moved
  <2> QED BY <2>4, <2>5, <2>6 DEF AllPromised, Mirrors
<1>5. CASE \E k \in 1 .. BurstSteps :
         /\ granted /\ k <= StepsThatFit(S, py)
         /\ req' = Moved(py, S, delta(k))
         /\ table' = Moved(rs, S, delta(k))
         /\ Enqueue(InFlight(d, BurstN * k, py))
         /\ dirty' = wasDirty
         /\ UNCHANGED <<bursts, alarmed>>
  BY <1>4, <1>5
<1>6. CASE /\ req' = py /\ table' = rs /\ Enqueue(InFlight(d, 1, py))
  BY <1>3, <1>6
<1>7. CASE /\ req' = py /\ dirty' = TRUE /\ Enqueue(InFlight(d, 1, py))
  BY <1>3, <1>7
<1> QED BY <1>2, <1>5, <1>6, <1>7

\* Marshalling keeps a record that promises nothing below zero.
LEMMA PackSame ==
  ASSUME NEW e \in Object, e.P \in Nat
  PROVE  Pack(e) = e
<1> DEFINE p == Max({0, e.P})
<1>1. p = e.P
  <2>1. Max({0, e.P}) = IF 0 >= e.P THEN 0 ELSE e.P
    BY Pairs
  <2> QED BY <2>1
<1>2. Pack(e) = [e EXCEPT !.P = p]
  BY DEF Pack
<1> HIDE DEF p
<1>3. [e EXCEPT !.P = p] = e
  BY <1>1 DEF Object
<1> QED BY <1>2, <1>3

LEMMA MarshalledSame ==
  ASSUME IInv, RInv, NEW r \in Req, req[r].status # "FINISHED"
  PROVE  /\ req[r] \in Object /\ req[r].P = Due(pipeline, r) /\ req[r].P \in Nat
         /\ req[r].T > 0 /\ Pack(req[r]) = req[r]
<1>1. Lives(req) /\ Flags
  BY Parts DEF Settled
<1>2. req[r] \in Object /\ Promised(req[r], Due(pipeline, r))
  BY <1>1 DEF Lives, RInv, AllPromised
<1>3. Due(pipeline, r) \in Nat
  BY <1>1, DueIs DEF Flags
<1>4. req[r].P = Due(pipeline, r) /\ req[r].T > 0
  BY <1>2 DEF Promised
<1> QED BY <1>2, <1>3, <1>4, PackSame

\* A commit leaves the status of a record alone.
LEMMA CommitStatus ==
  ASSUME NEW py \in [Req -> Object], NEW d, NEW rs, NEW nobodyWaits, NEW wasDirty,
         CommitBurst(d, py, rs, nobodyWaits, wasDirty), NEW r \in Req
  PROVE  req'[r].status = py[r].status
<1>1. req' = py \/ \E S, n : req' = Moved(py, S, n)
  BY DEF CommitBurst
<1>2. ASSUME NEW S, NEW n, req' = Moved(py, S, n) PROVE req'[r].status = py[r].status
  <2> DEFINE e == py[r]
             c == e.C + n
             k == e.C + n < e.T + e.P
             p == e.P + n
             a == [e EXCEPT !.C = c, !.chunk = k, !.P = p]
  <2>1. e \in Object /\ req'[r] = IF r \in S /\ e # NoEntry THEN a ELSE e
    BY <1>2 DEF Moved, BurstAdvance
  <2> HIDE DEF e, c, k, p
  <2>2. a.status = e.status
    BY <2>1 DEF Object
  <2> QED BY <2>1, <2>2 DEF e
<1> QED BY <1>1, <1>2

\* Both records are advanced the same.
LEMMA AppliedSame ==
  ASSUME NEW f, NEW g, NEW d, NEW r \in Req, f[r] = g[r]
  PROVE  Applied(f, d)[r] = Applied(g, d)[r]
BY DEF Applied

\* A step the crate schedules.
LEMMA ScheduleStepPromises ==
  ASSUME IInv, RInv, ScheduleStep, KeepsPromises
  PROVE  RInv'
<1>1. PICK loaded, entry, offered, rest, d, nobodyWaits, wasDirty :
        CrateStep(loaded, entry, offered, rest, d, nobodyWaits, wasDirty)
  BY ScheduleStepCases
<1> DEFINE queue == Rebuilt(d, offered, rest)
           py == Applied(req, d)
           marshalled == Resident(loaded, d)
           rs == Applied(marshalled, d)
           due == [r \in Req |-> Due(pipeline, r)]
<1>2. /\ Len(pipeline) < Depth /\ running' = d.run
      /\ CommitBurst(d, py, rs, nobodyWaits, wasDirty)
      /\ AfterStep(py, req, d, queue) /\ rs \in TableType /\ wasDirty \in BOOLEAN
      /\ offered \in Seq(Req) /\ rest \in Seq(Req) /\ waiting = offered \o rest
      /\ \A r \in ToSet(running) : /\ entry[r] = loaded[r]
                                   /\ loaded[r] = Pack(req[r]) \/ (~dirty /\ loaded[r] = table[r])
      /\ \A r \in Req \ ToSet(running) : entry[r] = Pack(req[r])
      /\ \A r \in ToSet(d.run) : r \in ToSet(running) \/ r \in ToSet(d.admitted)
      /\ StepKeeps(entry, running, offered, d)
  BY <1>1 DEF CrateStep
<1>3. /\ Placed(req, running, waiting) /\ Lives(req) /\ req \in [Req -> Object] /\ Flags
      /\ running \in Seq(Req) /\ waiting \in Seq(Req)
  BY Parts DEF Settled, Lives, Placed
<1>4. /\ d \in LoopType /\ d.run \in Seq(Req)
      /\ \A r \in Req : d.tokens[r] > 0 => r \in ToSet(d.run)
  BY <1>2, LoopFields DEF StepKeeps
<1>5. ToSet(running) \subseteq Req /\ ToSet(waiting) \subseteq Req /\ ToSet(d.run) \subseteq Req
  BY <1>3, <1>4, SetOf
<1>6. AllPromised(req, pipeline) /\ Positive(pipeline)
  BY DEF RInv
<1>7. \A r \in Req : req[r].status # "FINISHED" => Pack(req[r]) = req[r]
  BY MarshalledSame
<1>8. ASSUME NEW r \in ToSet(running) PROVE loaded[r] = req[r]
  <2>1. req[r].status = "RUNNING" /\ Pack(req[r]) = req[r]
    BY <1>3, <1>5, <1>7 DEF Placed
  <2>2. ~dirty => table[r] = req[r]
    BY DEF RInv, Mirrors
  <2> QED BY <1>2, <2>1, <2>2
<1>9. \A r \in Req : req[r].status # "FINISHED" => entry[r] = req[r]
  BY <1>2, <1>7, <1>8
<1>10. PICK left : StepShape(d, left, running, offered)
  BY <1>2 DEF StepKeeps
<1>11. Split(d, left, running, waiting, queue)
  BY <1>2, <1>3, <1>4, <1>10, LineSplit
<1> HIDE DEF queue
<1>12. \A r \in ToSet(d.preempted) : req[r].P = 0
  <2> TAKE r \in ToSet(d.preempted)
  <2>1. r \in Req /\ req[r].status = "RUNNING"
    BY <1>3, <1>5, <1>11 DEF Split, Placed
  <2>2. AppliedTo(req[r], py[r], d, r)
    BY <1>3, <1>4, <2>1, AppliedFacts
  <2>3. py \in [Req -> Object]
    BY <1>3, <1>4, AppliedTypes
  <2> HIDE DEF py
  <2>4. py[r].status = "PREEMPTED"
    BY <2>2 DEF AppliedTo
  <2>5. req'[r].status = "PREEMPTED"
    BY <1>2, <2>1, <2>3, <2>4, CommitStatus
  <2> QED BY <2>1, <2>5 DEF KeepsPromises
<1>13. \A r \in Req : due[r] \in Nat /\ Promised(req[r], due[r]) /\ due[r] = Due(pipeline, r)
  BY <1>3, <1>6, DueIs DEF Flags, AllPromised
<1> HIDE DEF due
<1>14. \A r \in Req : Promised(py[r], due[r] + Owed(InFlight(d, 1, py), r))
  BY <1>2, <1>3, <1>9, <1>12, <1>13, StepPromises
<1>15. \A r \in Req : Promised(py[r], Due(pipeline, r) + Owed(InFlight(d, 1, py), r))
  BY <1>13, <1>14
<1>16. Mirrors(py, rs, d.run)
  <2>1. ASSUME NEW r \in ToSet(d.run) PROVE rs[r] = py[r]
    <3>1. r \in Req
      BY <1>5
    <3>2. marshalled[r] = IF r \in ToSet(d.admitted) THEN Pack(req[r]) ELSE loaded[r]
      BY <3>1 DEF Resident
    <3>3. r \in ToSet(d.admitted) => Pack(req[r]) = req[r]
      BY <1>3, <1>7, <1>11, <3>1 DEF Split, Placed, Waits
    <3>4. marshalled[r] = req[r]
      BY <1>2, <1>8, <3>2, <3>3
    <3> HIDE DEF marshalled
    <3> QED BY <3>1, <3>4, AppliedSame
  <2> QED BY <2>1 DEF Mirrors
<1> HIDE DEF py, rs
<1>17. /\ AllPromised(req', pipeline') /\ Positive(pipeline')
       /\ ~dirty' => Mirrors(req', table', d.run)
  BY <1>2, <1>3, <1>4, <1>6, <1>15, <1>16, CommitPromises
<1> QED BY <1>2, <1>17 DEF RInv

\* A step stock vLLM schedules.
LEMMA StockStepPromises ==
  ASSUME IInv, RInv, StockStep, KeepsPromises
  PROVE  RInv'
<1> DEFINE none == <<>>
           d == Schedule(req, running, waiting, held)
           queue == Rebuilt(d, waiting, none)
           py == Applied(req, d)
           due == [r \in Req |-> Due(pipeline, r)]
<1>1. /\ Len(pipeline) < Depth /\ running' = d.run /\ req' = py
      /\ Enqueue(InFlight(d, 1, py)) /\ dirty' = TRUE
  BY DEF StockStep
<1>2. /\ Settled(req, table, running, waiting, held, dirty) /\ Flags
      /\ Len(running) <= MaxRunning
  BY Parts
<1>3. /\ Placed(req, running, waiting) /\ Lives(req)
      /\ running \in Seq(Req) /\ waiting \in Seq(Req) /\ req \in [Req -> Object]
  BY <1>2 DEF Settled, Placed, Lives
<1>4. none \in Seq(Req) /\ waiting = waiting \o none
  BY <1>3, EmptyQueue
<1>5. Reads(req, req, running, waiting)
  BY <1>3 DEF Reads
<1> HIDE DEF none
<1>6. Schedulable(req, running, held) /\ Offerable(req, waiting)
  BY <1>2, <1>3, <1>4, <1>5, AskedOfTheLoops
<1>7. StepKeeps(req, running, waiting, d)
  BY <1>2, <1>6, ScheduleKeeps
<1> HIDE DEF d
<1>8. d \in LoopType
  BY <1>7 DEF StepKeeps
<1>9. PICK left : StepShape(d, left, running, waiting)
  BY <1>7 DEF StepKeeps
<1>10. Split(d, left, running, waiting, queue)
  BY <1>3, <1>4, <1>8, <1>9, LineSplit
<1> HIDE DEF queue
<1>11. \A r \in ToSet(d.preempted) : req[r].P = 0
  <2> TAKE r \in ToSet(d.preempted)
  <2>1. r \in Req /\ req[r].status = "RUNNING"
    <3>1. ToSet(running) \subseteq Req
      BY <1>3, SetOf
    <3> QED BY <1>3, <1>10, <3>1 DEF Split, Placed
  <2>2. AppliedTo(req[r], py[r], d, r)
    BY <1>3, <1>8, <2>1, AppliedFacts
  <2> HIDE DEF py
  <2>3. req'[r].status = "PREEMPTED"
    BY <1>1, <2>2 DEF AppliedTo
  <2> QED BY <2>1, <2>3 DEF KeepsPromises
<1>12. \A r \in Req : due[r] \in Nat /\ Promised(req[r], due[r]) /\ due[r] = Due(pipeline, r)
  BY <1>2, DueIs DEF Flags, RInv, AllPromised
<1> HIDE DEF due
<1>13. \A r \in Req : Promised(py[r], due[r] + Owed(InFlight(d, 1, py), r))
  BY <1>3, <1>4, <1>7, <1>11, <1>12, StepPromises
<1>14. /\ Positive(pipeline')
       /\ \A r \in Req : Due(pipeline', r) = Due(pipeline, r) + Owed(InFlight(d, 1, py), r)
  <2>1. 1 \in Nat \ {0} /\ Positive(pipeline)
    BY DEF RInv
  <2> HIDE DEF py
  <2> QED BY <1>1, <1>2, <1>8, <2>1, EnqueuePromises
<1>15. AllPromised(req', pipeline')
  <2> HIDE DEF py
  <2> QED BY <1>1, <1>12, <1>13, <1>14 DEF AllPromised
<1> QED BY <1>1, <1>14, <1>15 DEF RInv

\* A running request that gets back some of its promised tokens: both records
\* end up the same, and on their shape.
LEMMA UpdatedObjectSteady ==
  ASSUME NEW e \in Object, Steady(e), NEW acc \in Nat \ {0}, NEW short \in Nat, acc + short <= e.P
  PROVE  LET o == UpdatedObject(e, acc, short)
         IN  /\ o \in Object /\ o.T = e.T + acc /\ o.P = e.P - short - acc /\ o.C = e.C - short
             /\ o.chunk = (short > 0 \/ e.chunk) /\ o.status = e.status /\ Steady(o)
<1> DEFINE t == e.T + acc
           a == [e EXCEPT !.T = t]
           b == IF short > 0 THEN BurstRetract(a, short) ELSE a
           p == Max({0, b.P}) - acc
           o == UpdatedObject(e, acc, short)
<1>1. o = [b EXCEPT !.P = p]
  BY DEF UpdatedObject
<1>2. /\ e.T \in Nat /\ e.C \in Nat /\ e.P \in Int /\ e.chunk \in BOOLEAN
      /\ e.C = e.T + e.P - 1 /\ e.P > 0
  BY ObjectFields DEF Steady
<1>3. t \in Nat /\ t = e.T + acc
  BY <1>2
<1> HIDE DEF t
<1>4. /\ a \in Object /\ a.T = t /\ a.C = e.C /\ a.P = e.P /\ a.chunk = e.chunk
      /\ a.status = e.status
  BY <1>3 DEF Object
<1> HIDE DEF a
<1>5. /\ b \in Object /\ b.T = t /\ b.C = e.C - short /\ b.P = e.P - short
      /\ b.chunk = (short > 0 \/ e.chunk) /\ b.status = e.status
  <2>1. CASE short > 0
    <3>1. /\ b \in Object /\ b.T = t /\ b.C = Minus(e.C, short) /\ b.status = e.status
          /\ b.P = Minus(e.P, short)
          /\ b.chunk = (Minus(e.C, short) < t + Minus(e.P, short))
      BY <1>4, <2>1, RetractFacts, RetractPieces
    <3>2. Minus(e.C, short) = e.C - short /\ Minus(e.P, short) = e.P - short
      <4>1. e.C >= short /\ e.P >= short /\ e.C \in Int /\ e.P \in Int /\ short \in Int
        BY <1>2
      <4> QED BY <4>1, MinusFacts
    <3>3. e.C - short < t + (e.P - short)
      BY <1>2, <1>3
    <3> HIDE DEF b
    <3> QED BY <1>2, <2>1, <3>1, <3>2, <3>3
  <2>2. CASE short = 0
    <3>1. b = a /\ e.C - short = e.C /\ e.P - short = e.P
      BY <1>2, <2>2
    <3> HIDE DEF b
    <3> QED BY <1>2, <1>4, <2>2, <3>1
  <2> QED BY <2>1, <2>2
<1> HIDE DEF b
<1>6. p = e.P - short - acc /\ p \in Nat /\ p \in Int
  <2>1. b.P \in Nat /\ 0 \in Int /\ b.P \in Int
    BY <1>2, <1>5
  <2>2. Max({0, b.P}) = IF 0 >= b.P THEN 0 ELSE b.P
    BY <2>1, Pairs
  <2>3. Max({0, b.P}) = b.P
    BY <2>1, <2>2
  <2> QED BY <1>2, <1>5, <2>3
<1> HIDE DEF p, o
<1>7. /\ o \in Object /\ o.T = t /\ o.C = b.C /\ o.P = p /\ o.chunk = b.chunk
      /\ o.status = b.status
  BY <1>1, <1>5, <1>6 DEF Object
<1>8. Steady(o)
  <2>1. o.C = o.T + o.P - 1 /\ o.T \in Nat /\ o.P \in Nat
    BY <1>2, <1>3, <1>5, <1>6, <1>7
  <2> QED BY <2>1 DEF Steady
<1>9. /\ o \in Object /\ o.T = e.T + acc /\ o.P = e.P - short - acc /\ o.C = e.C - short
      /\ o.chunk = (short > 0 \/ e.chunk) /\ o.status = e.status /\ Steady(o)
  BY <1>3, <1>5, <1>6, <1>7, <1>8
<1> QED BY <1>9 DEF o

LEMMA UpdatedSame ==
  ASSUME NEW e \in Object, Steady(e), NEW acc \in Nat \ {0}, NEW short \in Nat, acc + short <= e.P,
         NEW total, total = e.T + acc
  PROVE  UpdatedEntry(e, total, acc, short, TRUE) = UpdatedObject(e, acc, short)
<1> DEFINE o == UpdatedObject(e, acc, short)
           p == Minus(e.P, acc)
           s == [e EXCEPT !.T = total, !.P = p]
           u == UpdatedEntry(e, total, acc, short, TRUE)
<1>1. /\ o \in Object /\ o.T = e.T + acc /\ o.P = e.P - short - acc /\ o.C = e.C - short
      /\ o.chunk = (short > 0 \/ e.chunk) /\ o.status = e.status
  BY UpdatedObjectSteady
<1>2. /\ e.T \in Nat /\ e.C \in Nat /\ e.P \in Int /\ e.chunk \in BOOLEAN
      /\ e.C = e.T + e.P - 1 /\ e.P > 0
  BY ObjectFields DEF Steady
<1>3. u = IF short > 0 THEN BurstRetract(s, short) ELSE s
  <2>1. e # NoEntry
    BY EntryAssumption DEF EntryAssumption
  <2> QED BY <2>1 DEF UpdatedEntry
<1>4. p = e.P - acc /\ p \in Nat /\ p \in Int /\ total \in Nat
  <2>1. e.P >= acc /\ e.P \in Int /\ acc \in Int
    BY <1>2
  <2>2. p = e.P - acc
    BY <2>1, MinusFacts
  <2> QED BY <1>2, <2>1, <2>2
<1> HIDE DEF p, o, u
<1>5. /\ s \in Object /\ s.T = total /\ s.C = e.C /\ s.P = p /\ s.chunk = e.chunk
      /\ s.status = e.status
  BY <1>4 DEF Object
<1> HIDE DEF s
<1>6. ASSUME short > 0 PROVE u = o
  <2>1. /\ u \in Object /\ u.T = total /\ u.C = Minus(e.C, short) /\ u.status = e.status
        /\ u.P = Minus(p, short)
        /\ u.chunk = (Minus(e.C, short) < total + Minus(p, short))
    BY <1>3, <1>5, <1>6, RetractFacts, RetractPieces
  <2>2. Minus(e.C, short) = e.C - short /\ Minus(p, short) = p - short
    <3>1. e.C >= short /\ p >= short /\ e.C \in Int /\ p \in Int /\ short \in Int
      BY <1>2, <1>4
    <3> QED BY <3>1, MinusFacts
  <2>3. e.C - short < total + (p - short)
    BY <1>2, <1>4
  <2>4. u.P = e.P - short - acc
    BY <1>2, <1>4, <2>1, <2>2
  <2>5. u.T = o.T /\ u.C = o.C /\ u.P = o.P /\ u.chunk = o.chunk /\ u.status = o.status
    BY <1>1, <1>6, <2>1, <2>2, <2>3, <2>4
  <2>6. u = o
    BY <1>1, <2>1, <2>5, SameObject
  <2> QED BY <2>6
<1>7. ASSUME short = 0 PROVE u = o
  <2>1. /\ u \in Object /\ u.T = total /\ u.C = e.C /\ u.P = p /\ u.chunk = e.chunk
        /\ u.status = e.status
    BY <1>3, <1>5, <1>7
  <2>2. u.T = o.T /\ u.C = o.C /\ u.P = o.P
    BY <1>1, <1>2, <1>4, <1>7, <2>1
  <2>3. u.chunk = o.chunk /\ u.status = o.status
    BY <1>1, <1>2, <1>7, <2>1
  <2>4. u = o
    BY <1>1, <2>1, <2>2, <2>3, SameObject
  <2> QED BY <2>4
<1>8. u = o
  BY <1>6, <1>7
<1> QED BY <1>8 DEF u, o

\* A step that came back.
LEMMA UpdatePromises ==
  ASSUME IInv, RInv, Update, Fallbacks => Speculate
  PROVE  RInv'
<1> DEFINE step == Head(pipeline)
           live == {r \in step.samples : req[r].status \in Live}
           later == Tail(pipeline)
<1>1. /\ table \in TableType /\ req \in [Req -> Object] /\ running \in Seq(Req) /\ Flags
      /\ Placed(req, running, waiting)
  BY Parts DEF Settled, Placed, Lives
<1>2. /\ pipeline # <<>> /\ pipeline \in Seq(InFlightType) /\ Len(pipeline) <= Depth
      /\ dirty \in BOOLEAN
  BY <1>1, UpdateCases DEF Flags
<1>3. AllPromised(req, pipeline) /\ Positive(pipeline) /\ (~dirty => Mirrors(req, table, running))
  BY DEF RInv
<1>4. /\ step \in InFlightType /\ later \in Seq(InFlightType) /\ Len(later) = Len(pipeline) - 1
      /\ step = pipeline[1] /\ 1 \in DOMAIN pipeline /\ Len(pipeline) \in Nat
      /\ \A i \in 1 .. Len(later) : later[i] = pipeline[i + 1] /\ i + 1 \in DOMAIN pipeline
  BY <1>2, HeadTailProperties, EmptySeq, LenProperties
<1>5. step.promised \in Nat /\ step.promised >= 1 /\ step.samples \in SUBSET Req
  BY <1>3, <1>4 DEF InFlightType, Positive
<1>6. PICK offered \in {1} \cup {n \in 1 .. step.promised : n % BurstN = 0} :
         \E verdict, fallback :
           UpdateWith(step, live, offered, verdict, fallback) /\ (fallback # {} => Fallbacks)
  BY UpdateCases
<1>7. PICK verdict, fallback :
         UpdateWith(step, live, offered, verdict, fallback) /\ (fallback # {} => Fallbacks)
  BY <1>6
<1>8. ASSUME NEW r \in Req
      PROVE  /\ Due(pipeline, r) = (IF r \in step.samples THEN step.promised ELSE 0) + Due(later, r)
             /\ Due(later, r) \in Nat
  <2>1. Due(pipeline, r) = Owed(step, r) + Due(later, r)
    BY <1>2, DueOfOneLess
  <2>2. Len(later) <= Depth
    BY <1>2, <1>4 DEF Depth
  <2>3. Due(later, r) \in Nat
    <3> HIDE DEF later
    <3> QED BY <1>4, <2>2, DueIs
  <2> QED BY <2>1, <2>3 DEF Owed
<1>9. Positive(later)
  <2>1. DOMAIN later = 1 .. Len(later)
    BY <1>4, LenProperties
  <2> HIDE DEF later
  <2> QED BY <1>3, <1>4, <2>1 DEF Positive
<1> HIDE DEF step, later
<1> DEFINE short(r) == step.promised - verdict[r].acc
           S == {r \in live : verdict[r].stop}
           total(r) == req[r].T + verdict[r].acc
<1>10. /\ \A r \in live : verdict[r] \in Verdicts(r, offered)
       /\ req' = [r \in Req |->
            IF r \notin live THEN req[r]
            ELSE [UpdatedObject(req[r], verdict[r].acc, short(r))
                    EXCEPT !.status = IF r \in S THEN "FINISHED" ELSE @]]
       /\ table' = [r \in Req |->
            IF r \in S THEN NoEntry
            ELSE IF r \in live
              THEN UpdatedEntry(table[r], total(r), verdict[r].acc, short(r), r \notin fallback)
            ELSE table[r]]
       /\ running' = Without(running, S)
       /\ dirty' = (dirty \/ (Speculate /\ fallback # {}))
       /\ pipeline' = later
  BY <1>7 DEF UpdateWith, later
<1>11. S \subseteq live /\ live \subseteq Req
  BY <1>5
<1>12. ASSUME NEW r \in live
       PROVE  /\ req[r] \in Object /\ Steady(req[r])
              /\ verdict[r].acc \in Nat \ {0} /\ short(r) \in Nat
              /\ verdict[r].acc + short(r) <= req[r].P
              /\ req[r].P - short(r) - verdict[r].acc = Due(later, r)
              /\ req[r].T > 0 /\ req[r].status = "RUNNING"
  <2>1. verdict[r] \in Verdicts(r, offered) /\ offered \in Nat /\ offered <= step.promised
    BY <1>5, <1>10
  <2>2. verdict[r].acc \in Nat \ {0} /\ verdict[r].acc <= offered
    BY <2>1, VerdictFacts
  <2>3. r \in Req /\ r \in step.samples /\ req[r] \in Object /\ req[r].status \in Live
    BY <1>1, <1>5
  <2>4. Promised(req[r], Due(pipeline, r)) /\ Due(pipeline, r) = step.promised + Due(later, r)
        /\ Due(later, r) \in Nat
    BY <1>3, <1>8, <2>3 DEF AllPromised
  <2>5. req[r].P = step.promised + Due(later, r) /\ req[r].T > 0 /\ req[r].P > 0
    <3>1. req[r].status # "FINISHED"
      BY <2>3 DEF Live
    <3>2. req[r].P = step.promised + Due(later, r) /\ req[r].T > 0
      BY <2>4, <3>1 DEF Promised
    <3> QED BY <1>5, <2>4, <3>2
  <2>6. req[r].status = "RUNNING"
    BY <2>3, <2>4, <2>5 DEF Promised, Waits, Live
  <2>7. Steady(req[r])
    BY <2>4, <2>6 DEF Promised
  <2>8. /\ short(r) \in Nat /\ verdict[r].acc + short(r) <= req[r].P
        /\ req[r].P - short(r) - verdict[r].acc = Due(later, r)
    <3> DEFINE a == verdict[r].acc
               m == step.promised
               q == Due(later, r)
    <3>1. a \in Nat /\ m \in Nat /\ q \in Nat /\ a <= m /\ req[r].P = m + q
      BY <1>5, <2>1, <2>2, <2>4, <2>5
    <3> HIDE DEF a, m, q
    <3>2. m - a \in Nat /\ a + (m - a) <= req[r].P /\ req[r].P - (m - a) - a = q
      BY <3>1
    <3> QED BY <3>2 DEF a, m, q
  <2> QED BY <2>2, <2>3, <2>5, <2>6, <2>7, <2>8
<1>13. ASSUME NEW r \in Req, r \notin live
       PROVE  req[r].status # "FINISHED" => Due(later, r) = Due(pipeline, r)
  <2>1. CASE r \in step.samples
    <3>1. req[r].status \notin Live /\ req[r] \in Object
      BY <1>1, <1>13, <2>1
    <3>2. req[r].status \in {"NEW", "FINISHED"}
      BY <3>1, ObjectFields DEF Statuses
    <3>3. Promised(req[r], Due(pipeline, r)) /\ Due(pipeline, r) # 0
      BY <1>3, <1>5, <1>8, <2>1 DEF AllPromised
    <3> QED BY <3>2, <3>3 DEF Promised
  <2>2. CASE r \notin step.samples
    BY <1>8, <2>2
  <2> QED BY <2>1, <2>2
<1> HIDE DEF live, S, total
<1>14. ASSUME NEW r \in live
       PROVE  LET o == UpdatedObject(req[r], verdict[r].acc, short(r))
              IN  /\ o.P = Due(later, r) /\ o.T > 0 /\ Steady(o) /\ o.status = "RUNNING"
                  /\ o \in Object
                  /\ req'[r] = [o EXCEPT !.status = IF r \in S THEN "FINISHED" ELSE @]
                  /\ UpdatedEntry(req[r], total(r), verdict[r].acc, short(r), TRUE) = o
  <2> DEFINE a == verdict[r].acc
             s == short(r)
             e == req[r]
             t == total(r)
             o == UpdatedObject(e, a, s)
  <2>1. /\ e \in Object /\ Steady(e) /\ a \in Nat \ {0} /\ s \in Nat /\ a + s <= e.P
        /\ e.P - s - a = Due(later, r) /\ e.T > 0 /\ e.status = "RUNNING"
        /\ t = e.T + a
    BY <1>12 DEF total
  <2>2. req'[r] = [o EXCEPT !.status = IF r \in S THEN "FINISHED" ELSE @]
    BY <1>10, <1>11
  <2> HIDE DEF a, s, e, t
  <2>3. o \in Object /\ o.T = e.T + a /\ o.P = e.P - s - a /\ o.status = e.status /\ Steady(o)
    BY <2>1, UpdatedObjectSteady
  <2>4. UpdatedEntry(e, t, a, s, TRUE) = o
    BY <2>1, UpdatedSame
  <2>5. e.T \in Nat
    BY <2>1, ObjectFields
  <2>6. o.P = Due(later, r) /\ o.T > 0 /\ Steady(o) /\ o.status = "RUNNING"
    <3> HIDE DEF o
    <3> QED BY <2>1, <2>3, <2>5
  <2> QED BY <2>2, <2>3, <2>4, <2>6 DEF a, s, e, t
<1> HIDE DEF short
<1>15. ASSUME NEW r \in live
       PROVE  Promised(req'[r], Due(later, r)) /\ (r \notin S =>
                req'[r] = UpdatedEntry(req[r], total(r), verdict[r].acc, short(r), TRUE))
  <2> DEFINE o == UpdatedObject(req[r], verdict[r].acc, short(r))
  <2>1. /\ o.P = Due(later, r) /\ o.T > 0 /\ Steady(o) /\ o.status = "RUNNING" /\ o \in Object
        /\ req'[r] = [o EXCEPT !.status = IF r \in S THEN "FINISHED" ELSE @]
        /\ UpdatedEntry(req[r], total(r), verdict[r].acc, short(r), TRUE) = o
    BY <1>14
  <2> HIDE DEF o
  <2>2. CASE r \in S
    <3> DEFINE over == "FINISHED"
    <3>1. req'[r] = [o EXCEPT !.status = over]
      BY <2>1, <2>2
    <3> HIDE DEF over
    <3>2. req'[r].status = over
      BY <2>1, <3>1 DEF Object
    <3> QED BY <2>2, <3>2 DEF Promised, Waits, over
  <2>3. CASE r \notin S
    <3>1. req'[r] = [o EXCEPT !.status = @]
      BY <2>1, <2>3
    <3>2. req'[r] = o
      BY <2>1, <3>1 DEF Object
    <3>3. Promised(o, Due(later, r))
      BY <2>1 DEF Promised, Waits
    <3> QED BY <2>1, <3>2, <3>3
  <2> QED BY <2>2, <2>3
<1>16. ASSUME NEW r \in Req, r \notin live
       PROVE  req'[r] = req[r] /\ Promised(req'[r], Due(later, r))
  <2>1. req'[r] = req[r]
    BY <1>10, <1>16
  <2>2. Promised(req[r], Due(pipeline, r))
    BY <1>3 DEF AllPromised
  <2> QED BY <1>13, <1>16, <2>1, <2>2 DEF Promised, Waits
<1>17. AllPromised(req', pipeline') /\ Positive(pipeline')
  BY <1>9, <1>10, <1>15, <1>16 DEF AllPromised
<1>18. ASSUME ~dirty' PROVE Mirrors(req', table', running')
  <2>1. ~dirty /\ fallback = {}
    BY <1>2, <1>7, <1>10, <1>18, TableAssumption DEF TableAssumption
  <2>2. ASSUME NEW r \in ToSet(running') PROVE table'[r] = req'[r]
    <3>1. r \in ToSet(running) /\ r \notin S /\ r \in Req
      <4>1. ToSet(Without(running, S)) = ToSet(running) \ S /\ ToSet(running) \subseteq Req
        BY <1>1, WithoutFacts, SetOf
      <4> QED BY <1>10, <2>2, <4>1
    <3>2. table[r] = req[r]
      BY <1>3, <2>1, <3>1 DEF Mirrors
    <3>3. CASE r \in live
      <4>1. (r \notin fallback) = TRUE
        BY <2>1
      <4>2. table'[r] = UpdatedEntry(table[r], total(r), verdict[r].acc, short(r), r \notin fallback)
        BY <1>10, <3>1, <3>3
      <4>3. table'[r] = UpdatedEntry(req[r], total(r), verdict[r].acc, short(r), TRUE)
        BY <3>2, <4>1, <4>2
      <4> QED BY <1>15, <3>1, <3>3, <4>3
    <3>4. CASE r \notin live
      BY <1>10, <1>16, <3>1, <3>2, <3>4
    <3> QED BY <3>3, <3>4
  <2> QED BY <2>2 DEF Mirrors
<1> QED BY <1>17, <1>18 DEF RInv

\* A request that arrives is owed nothing.
LEMMA AddPromises ==
  ASSUME IInv, RInv, NEW r \in Req, AddRequest(r)
  PROVE  RInv'
<1>1. /\ req[r].status = "NEW" /\ req' = [req EXCEPT ![r].status = "WAITING"]
      /\ UNCHANGED <<table, running, pipeline, dirty>>
  BY DEF AddRequest
<1>2. /\ req \in [Req -> Object] /\ Placed(req, running, waiting) /\ running \in Seq(Req)
  BY Parts DEF Settled, Lives, Placed
<1>3. ToSet(running) \subseteq Req /\ r \notin ToSet(running)
  BY <1>1, <1>2, SetOf DEF Placed
<1> DEFINE w == "WAITING"
           e == req[r]
           f == [e EXCEPT !.status = w]
<1>4. e \in Object /\ e.status = "NEW" /\ Promised(e, Due(pipeline, r))
  BY <1>1, <1>2 DEF RInv, AllPromised
<1>5. req' = [req EXCEPT ![r] = f]
  BY <1>1
<1> HIDE DEF w, e
<1>6. f.status = w /\ f.T = e.T /\ f.P = e.P
  BY <1>4 DEF Object
<1> HIDE DEF f
<1>7. Promised(f, Due(pipeline, r))
  BY <1>4, <1>6 DEF Promised, Waits, w
<1>8. req'[r] = f /\ \A q \in Req \ {r} : req'[q] = req[q]
  BY <1>2, <1>5
<1>9. AllPromised(req', pipeline')
  <2>1. ASSUME NEW q \in Req PROVE Promised(req'[q], Due(pipeline, q))
    <3>1. CASE q = r
      BY <1>7, <1>8, <3>1
    <3>2. CASE q # r
      BY <1>8, <3>2 DEF RInv, AllPromised
    <3> QED BY <3>1, <3>2
  <2> QED BY <1>1, <2>1 DEF AllPromised
<1>10. ~dirty' => Mirrors(req', table', running')
  BY <1>1, <1>3, <1>8 DEF RInv, Mirrors
<1>11. Positive(pipeline')
  BY <1>1 DEF RInv
<1> QED BY <1>9, <1>10, <1>11 DEF RInv

\* A request that is aborted, with tokens in flight or without.
LEMMA AbortPromises ==
  ASSUME IInv, RInv, NEW r \in Req, Abort(r)
  PROVE  RInv'
<1> DEFINE S == {r}
<1>1. /\ req' = [req EXCEPT ![r].status = "FINISHED"] /\ table' = [table EXCEPT ![r] = NoEntry]
      /\ running' = Without(running, S) /\ UNCHANGED <<pipeline, dirty>>
  BY DEF Abort
<1>2. /\ req \in [Req -> Object] /\ running \in Seq(Req) /\ table \in TableType
  BY Parts DEF Settled, Lives, Placed
<1> DEFINE w == "FINISHED"
           e == req[r]
           f == [e EXCEPT !.status = w]
<1>3. e \in Object
  BY <1>2
<1>4. req' = [req EXCEPT ![r] = f]
  BY <1>1
<1> HIDE DEF w, e
<1>5. f.status = w
  BY <1>3 DEF Object
<1> HIDE DEF f
<1>6. /\ req'[r] = f /\ \A q \in Req \ {r} : req'[q] = req[q]
      /\ \A q \in Req \ {r} : table'[q] = table[q]
  BY <1>1, <1>2, <1>4 DEF TableType
<1>7. AllPromised(req', pipeline')
  <2>1. ASSUME NEW q \in Req PROVE Promised(req'[q], Due(pipeline, q))
    <3>1. CASE q = r
      BY <1>5, <1>6, <3>1 DEF Promised, Waits, w
    <3>2. CASE q # r
      BY <1>6, <3>2 DEF RInv, AllPromised
    <3> QED BY <3>1, <3>2
  <2> QED BY <1>1, <2>1 DEF AllPromised
<1>8. ~dirty' => Mirrors(req', table', running')
  <2>1. ToSet(Without(running, S)) = ToSet(running) \ S /\ ToSet(running) \subseteq Req
    BY <1>2, WithoutFacts, SetOf
  <2> QED BY <1>1, <1>6, <2>1 DEF RInv, Mirrors
<1>9. Positive(pipeline')
  BY <1>1 DEF RInv
<1> QED BY <1>7, <1>8, <1>9 DEF RInv

LEMMA InitPromises ==
  ASSUME Init
  PROVE  RInv
<1>1. /\ pipeline = <<>> /\ dirty = TRUE
      /\ req = [r \in Req |-> [ T |-> PromptLen[r], C |-> 0, P |-> 0,
                                chunk |-> FALSE, status |-> "NEW" ]]
  BY DEF Init
<1>2. pipeline \in Seq(InFlightType) /\ Len(pipeline) = 0 /\ Len(pipeline) <= Depth
      /\ DOMAIN pipeline = {}
  BY <1>1 DEF Depth
<1>3. \A r \in Req : Due(pipeline, r) = 0
  BY <1>2, DueIs
<1>4. \A r \in Req : PromptLen[r] \in Nat \ {0}
  BY Constants
<1>5. \A r \in Req : req[r].status = "NEW" /\ req[r].P = 0 /\ req[r].T > 0
  BY <1>1, <1>4
<1>6. AllPromised(req, pipeline)
  BY <1>3, <1>5 DEF AllPromised, Promised
<1>7. Positive(pipeline)
  BY <1>2 DEF Positive
<1> QED BY <1>1, <1>6, <1>7 DEF RInv

\* The invariant of the two records, as long as no promise is dropped with its
\* token in flight, and a request stock code decided is marshalled again.
LEMMA Records ==
  ASSUME Fallbacks => Speculate
  PROVE  Spec /\ [][KeepsPromises]_vars => []RInv
<1>1. Init => RInv
  BY InitPromises
<1>2. ASSUME IInv, RInv, [Next]_vars, [KeepsPromises]_vars PROVE RInv'
  <2>1. CASE UNCHANGED vars
    BY <1>2, <2>1 DEF RInv, vars
  <2>2. CASE Next /\ KeepsPromises
    <3>1. CASE \E r \in Req : AddRequest(r) \/ Abort(r)
      BY <1>2, <3>1, AddPromises, AbortPromises
    <3>2. CASE ScheduleStep
      BY <1>2, <2>2, <3>2, ScheduleStepPromises
    <3>3. CASE StockStep
      BY <1>2, <2>2, <3>3, StockStepPromises
    <3>4. CASE Update
      BY <1>2, <3>4, UpdatePromises
    <3> QED BY <2>2, <3>1, <3>2, <3>3, <3>4 DEF Next
  <2> QED BY <1>2, <2>1, <2>2
<1> QED BY <1>1, <1>2, Invariant, PTL DEF Spec

\* What the invariant says of the running requests.
LEMMA RecordsSay ==
  ASSUME IInv, RInv
  PROVE  PromisesInFlight /\ SteadyDecode /\ TableMatches
<1>1. \A r \in ToSet(running) : r \in Req /\ req[r].status = "RUNNING"
  <2>1. Placed(req, running, waiting) /\ running \in Seq(Req)
    BY DEF IInv, Placed
  <2>2. ToSet(running) \subseteq Req
    BY <2>1, SetOf
  <2> QED BY <2>1, <2>2 DEF Placed
<1>2. ASSUME NEW r \in ToSet(running)
      PROVE  /\ req[r] \in Object /\ req[r].P = Due(pipeline, r) /\ req[r].P \in Nat
             /\ Pack(req[r]) = req[r] /\ Steady(req[r])
             /\ ~dirty => table[r] = req[r]
  <2>1. r \in Req /\ req[r].status = "RUNNING"
    BY <1>1
  <2>2. Promised(req[r], Due(pipeline, r)) /\ (~dirty => table[r] = req[r])
    BY <2>1 DEF RInv, AllPromised, Mirrors
  <2>3. Steady(req[r])
    BY <2>1, <2>2 DEF Promised
  <2> QED BY <2>1, <2>2, <2>3, MarshalledSame
<1>3. PromisesInFlight
  BY <1>2 DEF PromisesInFlight, Due, Owed
<1>4. SteadyDecode
  <2>1. ASSUME NEW r \in ToSet(running) PROVE ~Inconsistent(req[r])
    <3>1. req[r].C < req[r].T + req[r].P /\ req[r].C \in Nat /\ req[r].T \in Nat /\ req[r].P \in Int
      BY <1>2, ObjectFields DEF Steady
    <3> QED BY <3>1 DEF Inconsistent
  <2> QED BY <1>2, <2>1 DEF SteadyDecode, Steady
<1>5. TableMatches
  BY <1>2 DEF TableMatches
<1> QED BY <1>3, <1>4, <1>5

\* num_output_placeholders of a running request is what the steps in flight
\* will bring, whatever a burst promises and however much of it comes back, as
\* long as nobody is preempted with a token in flight.
THEOREM PromisesAreKept ==
  ASSUME Fallbacks => Speculate
  PROVE  Spec /\ [][KeepsPromises]_vars => []PromisesInFlight
BY Records, Invariant, RecordsSay, PTL

\* A decoding request keeps its shape, and neither record runs past its tokens.
THEOREM DecodesStaySteady ==
  ASSUME Fallbacks => Speculate
  PROVE  Spec /\ [][KeepsPromises]_vars => []SteadyDecode
BY Records, Invariant, RecordsSay, PTL

\* A clean table is what marshalling the Python objects would give, after every
\* mix of crate and stock steps, bursts, short bursts, stops and aborts.
THEOREM TableStaysMatched ==
  ASSUME Fallbacks => Speculate
  PROVE  Spec /\ [][KeepsPromises]_vars => []TableMatches
BY Records, Invariant, RecordsSay, PTL
------------------------------------------------------------------------------
(***************************************************************************)
(* Memory that lasts: when every seat can have the blocks of a whole       *)
(* context nobody is ever preempted, and the records agree throughout.     *)
(***************************************************************************)

\* The blocks of a whole context, and a pool with as many for every seat.
Whole == BlocksFor(MaxModelLen)
Roomy == MaxRunning * Whole <= NumBlocks

\* Nobody holds more than a whole context.
Slim(h) == \A r \in Req : h[r] <= Whole

\* A sum of at most b for every element of S, and nothing for the others.
LEMMA SumAtMost ==
  ASSUME NEW D, IsFiniteSet(D), NEW f \in [D -> Nat], NEW S \in SUBSET D, NEW b \in Nat,
         \A x \in D : f[x] <= b /\ (f[x] > 0 => x \in S)
  PROVE  SumFunction(f) <= Cardinality(S) * b
<1> DEFINE size(t) == Cardinality(t \cap S)
           bad == {t \in SUBSET D : ~(Total(f, D)[t] <= size(t) * b)}
<1>1. f \in [D -> Int]
  OBVIOUS
<1>2. /\ Total(f, D) \in [SUBSET D -> Int] /\ Total(f, D)[{}] = 0
      /\ SumFunction(f) = Total(f, D)[D]
  BY <1>1, TotalFacts
<1>3. \A t \in SUBSET D : size(t) \in Nat
  BY SubsetSizes
<1>4. ASSUME bad # {} PROVE FALSE
  <2>1. PICK t \in bad : \A y \in t : t \ {y} \notin bad
    <3>1. bad \subseteq SUBSET D
      OBVIOUS
    <3> HIDE DEF bad
    <3> QED BY <1>4, <3>1, SmallestSet
  <2>2. t \in SUBSET D /\ ~(Total(f, D)[t] <= size(t) * b)
    OBVIOUS
  <2>3. t # {}
    <3>1. size(t) * b >= 0 /\ size(t) * b \in Nat
      <4> DEFINE c == size(t)
      <4>1. c \in Nat
        BY <1>3, <2>2
      <4> HIDE DEF c
      <4>2. c * b >= 0 /\ c * b \in Nat
        BY <4>1, SMT
      <4> QED BY <4>2 DEF c
    <3> QED BY <1>2, <2>2, <3>1
  <2>4. PICK x \in t : TRUE
    BY <2>3
  <2> DEFINE u == t \ {x}
             c == size(t)
             c1 == size(u)
  <2>5. u \in SUBSET D /\ x \in D
    BY <2>2
  <2>6. Total(f, D)[t] = f[x] + Total(f, D)[u]
    BY <1>1, <2>2, AnyOrder
  <2>7. Total(f, D)[u] <= c1 * b
    <3> HIDE DEF size
    <3> QED BY <2>1, <2>5
  <2>8. c \in Nat /\ c1 \in Nat
    BY <1>3, <2>2, <2>5
  <2>9. x \in S => c = c1 + 1
    <3> HAVE x \in S
    <3>1. x \in t \cap S /\ (t \cap S) \ {x} = u \cap S /\ t \cap S \in SUBSET D
      BY <2>2
    <3>2. Cardinality((t \cap S) \ {x}) = Cardinality(t \cap S) - 1
      BY <3>1, SubsetSizes
    <3> QED BY <2>8, <3>1, <3>2
  <2>10. x \notin S => c = c1 /\ f[x] = 0
    <3> HAVE x \notin S
    <3>1. t \cap S = u \cap S
      OBVIOUS
    <3>2. f[x] \in Nat /\ ~(f[x] > 0)
      BY <2>5
    <3> QED BY <3>1, <3>2
  <2>11. f[x] \in Nat /\ f[x] <= b /\ Total(f, D)[u] \in Int /\ Total(f, D)[t] \in Int
    BY <1>2, <2>2, <2>5
  <2>12. ~(Total(f, D)[t] <= c * b)
    BY <2>2
  <2> HIDE DEF u, c, c1, size, bad
  <2>13. (c1 + 1) * b = c1 * b + b /\ c1 * b \in Int
    BY <2>8, SMT
  <2> QED BY <2>6, <2>7, <2>8, <2>9, <2>10, <2>11, <2>12, <2>13
<1>5. D \in SUBSET D /\ D \cap S = S
  OBVIOUS
<1>6. Total(f, D)[D] <= size(D) * b
  BY <1>4, <1>5
<1> QED BY <1>2, <1>5, <1>6

\* No request needs more than a whole context.
LEMMA NeededAtMost ==
  ASSUME NEW e \in Object, NEW n \in Nat
  PROVE  Whole \in Nat /\ BlocksNeeded(e, n) \in Nat /\ BlocksNeeded(e, n) <= Whole
<1> DEFINE t == Min({e.C, MaxModelLen}) + n + Lookahead
           m == Min({t, MaxModelLen})
           a == m + BlockSize - 1
           z == MaxModelLen + BlockSize - 1
<1>1. e.C \in Nat /\ MaxModelLen \in Nat \ {0} /\ Lookahead \in Nat /\ BlockSize \in Nat \ {0}
  BY ObjectFields, Constants
<1>2. t \in Nat
  <2>1. Min({e.C, MaxModelLen}) = IF e.C <= MaxModelLen THEN e.C ELSE MaxModelLen
    <3>1. e.C \in Int /\ MaxModelLen \in Int
      BY <1>1
    <3> QED BY <3>1, Pairs
  <2>2. Min({e.C, MaxModelLen}) \in Nat
    BY <1>1, <2>1
  <2> QED BY <1>1, <2>2
<1>3. BlocksNeeded(e, n) = a \div BlockSize /\ Whole = z \div BlockSize
  BY DEF BlocksNeeded, BlocksFor, Whole
<1> HIDE DEF t
<1>4. m \in Nat /\ m <= MaxModelLen
  <2>1. m = IF t <= MaxModelLen THEN t ELSE MaxModelLen
    <3>1. t \in Int /\ MaxModelLen \in Int
      BY <1>1, <1>2
    <3> QED BY <3>1, Pairs
  <2> QED BY <1>1, <1>2, <2>1
<1> HIDE DEF m
<1>5. a \in Nat /\ z \in Nat /\ a <= z
  BY <1>1, <1>4
<1> HIDE DEF a, z
<1> DEFINE q == a \div BlockSize
           p == z \div BlockSize
<1>6. q \in Nat /\ q * BlockSize <= a
  BY <1>1, <1>5, DivBounds
<1>7. p \in Nat /\ z < p * BlockSize + BlockSize
  BY <1>1, <1>5, DivBounds
<1>8. q * BlockSize \in Int /\ p * BlockSize \in Int
  BY <1>1, <1>6, <1>7
<1> HIDE DEF q, p
<1>9. p + 1 <= q => (p + 1) * BlockSize <= q * BlockSize
  BY <1>1, <1>6, <1>7, Multiples
<1>10. (p + 1) * BlockSize = p * BlockSize + BlockSize
  BY <1>1, <1>7, SMT
<1>11. q <= p
  BY <1>1, <1>5, <1>6, <1>7, <1>8, <1>9, <1>10
<1> QED BY <1>3, <1>6, <1>7, <1>11 DEF q, p

\* Allocating leaves everybody with at most a whole context.
LEMMA AllocateSlim ==
  ASSUME NEW h, NEW r, NEW e, NEW n,
         h \in [Req -> Nat] /\ r \in Req /\ e \in Object /\ n \in Nat, Slim(h)
  PROVE  /\ Allocate(h, r, e, n) \in [Req -> Nat] /\ Slim(Allocate(h, r, e, n))
         /\ \A q \in Req \ {r} : Allocate(h, r, e, n)[q] = h[q]
         /\ Allocate(h, r, e, n)[r] = IF h[r] >= BlocksNeeded(e, n) THEN h[r] ELSE BlocksNeeded(e, n)
<1> DEFINE b == BlocksNeeded(e, n)
           v == Max({h[r], b})
           g == Allocate(h, r, e, n)
<1>1. b \in Nat /\ b <= Whole /\ Whole \in Nat
  BY NeededAtMost
<1>2. g = [h EXCEPT ![r] = v]
  BY DEF Allocate
<1> HIDE DEF b, g
<1>3. v = (IF h[r] >= b THEN h[r] ELSE b) /\ h[r] \in Nat
  <2>1. h[r] \in Nat
    OBVIOUS
  <2> QED BY <1>1, <2>1, Pairs
<1> HIDE DEF v
<1>4. v \in Nat /\ v <= Whole
  BY <1>1, <1>3 DEF Slim
<1>5. g \in [Req -> Nat] /\ g[r] = v /\ \A q \in Req \ {r} : g[q] = h[q]
  BY <1>2, <1>4
<1>6. Slim(g)
  BY <1>4, <1>5 DEF Slim
<1> QED BY <1>3, <1>5, <1>6 DEF b, g

\* With a pool that large, whoever runs can have what it asks for.
LEMMA AlwaysFits ==
  ASSUME Roomy, NEW run \in Seq(Req), Sorted(run), Len(run) <= MaxRunning,
         NEW h \in [Req -> Nat], Slim(h), \A q \in Req : h[q] > 0 => q \in ToSet(run),
         NEW r \in ToSet(run), NEW e \in Object, NEW n \in Nat
  PROVE  Fits(h, r, e, n, 0)
<1> DEFINE g == Allocate(h, r, e, n)
           b == BlocksNeeded(e, n)
           S == ToSet(run)
<1>1. S \in SUBSET Req /\ r \in Req /\ IsFiniteSet(Req)
  BY SetOf, Constants
<1>2. b \in Nat /\ Whole \in Nat /\ h[r] \in Nat
  BY <1>1, NeededAtMost
<1>3. /\ g \in [Req -> Nat] /\ Slim(g) /\ \A q \in Req \ {r} : g[q] = h[q]
      /\ g[r] = IF h[r] >= b THEN h[r] ELSE b
  BY <1>1, AllocateSlim
<1>4. Fits(h, r, e, n, 0) <=> Minus(b, h[r]) + 0 <= NumBlocks - SumFunction(h)
  BY DEF Fits, FreeBlocks
<1>5. g = [h EXCEPT ![r] = g[r]]
  BY DEF Allocate
<1> HIDE DEF g, b
<1>6. \A q \in Req : g[q] <= Whole /\ (g[q] > 0 => q \in S)
  BY <1>3 DEF Slim
<1>7. SumFunction(g) <= Cardinality(S) * Whole
  <2> HIDE DEF S
  <2> QED BY <1>1, <1>2, <1>3, <1>6, SumAtMost
<1>8. Cardinality(S) = Len(run) /\ Len(run) \in Nat
  BY SortedDistinct
<1>9. Len(run) * Whole <= MaxRunning * Whole /\ Len(run) * Whole \in Int /\ MaxRunning * Whole \in Int
  <2> DEFINE l == Len(run)
  <2>1. l \in Nat /\ l <= MaxRunning /\ MaxRunning \in Nat
    BY <1>8, Constants
  <2> HIDE DEF l
  <2>2. l * Whole <= MaxRunning * Whole /\ l * Whole \in Int /\ MaxRunning * Whole \in Int
    BY <1>2, <2>1, SMT
  <2> QED BY <2>2 DEF l
<1>10. SumFunction(g) <= NumBlocks /\ SumFunction(g) \in Nat /\ NumBlocks \in Nat
  <2>1. SumFunction(g) \in Nat
    BY <1>1, <1>3, SumFacts
  <2> HIDE DEF S
  <2>2. SumFunction(g) <= Len(run) * Whole
    BY <1>7, <1>8
  <2> QED BY <1>9, <2>1, <2>2, Constants DEF Roomy
<1>11. SumFunction(g) = SumFunction(h) - h[r] + g[r] /\ SumFunction(h) \in Nat
  <2> DEFINE v == g[r]
  <2>1. v \in Nat /\ g = [h EXCEPT ![r] = v]
    BY <1>1, <1>3, <1>5
  <2> HIDE DEF v
  <2>2. SumFunction([h EXCEPT ![r] = v]) = SumFunction(h) - h[r] + v /\ SumFunction(h) \in Nat
    BY <1>1, <2>1, SumFacts
  <2> QED BY <2>1, <2>2 DEF v
<1>12. Minus(b, h[r]) = IF b >= h[r] THEN b - h[r] ELSE 0
  <2> DEFINE x == h[r]
  <2>1. x \in Int /\ b \in Int
    BY <1>2
  <2> HIDE DEF x
  <2>2. Minus(b, x) = IF b >= x THEN b - x ELSE 0
    BY <2>1, MinusFacts
  <2> QED BY <2>2 DEF x
<1> QED BY <1>2, <1>3, <1>4, <1>10, <1>11, <1>12

\* A turn of the first loop that preempts nobody.
Spares(t, s) == /\ t.run = s.run /\ t.preempted = s.preempted
                /\ \/ t.held = s.held
                   \/ \E r \in ToSet(s.run), e \in Object, n \in Nat : t.held = Allocate(s.held, r, e, n)

LEMMA RunOneSpares ==
  ASSUME NEW entry \in [Req -> Object], NEW s \in LoopType, NEW i \in Nat \ {0},
         \A r \in ToSet(s.run), e \in Object, n \in Nat : Fits(s.held, r, e, n, 0)
  PROVE  Spares(RunOne(entry, s, i), s)
<1> DEFINE t == RunOne(entry, s, i)
           r == s.run[i]
           e == entry[r]
           n == RunningTokens(r, e, s.budget)
           k == Victims(s, i, e, n)
           behind == Len(s.run) - i
           gone == Reverse(LastOf(s.run, k))
           held_ == Release(s.held, ToSet(gone))
           fits == i + k <= Len(s.run)
           shrunk == [s EXCEPT !.run = SubSeq(@, 1, Len(@) - k), !.preempted = @ \o gone,
                               !.held = held_, !.over = ~fits]
<1> SUFFICES ASSUME t # s PROVE Spares(t, s)
  BY DEF Spares
<1>1. ~s.over /\ ~(i > Len(s.run)) /\ s.budget # 0 /\ n # 0
  BY DEF RunOne
<1>2. /\ s.run \in Seq(Req) /\ s.held \in [Req -> Nat] /\ s.preempted \in Seq(Req)
      /\ s.budget \in Nat
  BY LoopFields
<1>3. Len(s.run) \in Nat /\ i <= Len(s.run) /\ behind \in Nat /\ r \in Req /\ r \in ToSet(s.run)
  <2>1. Len(s.run) \in Nat /\ i \in 1 .. Len(s.run)
    BY <1>1, <1>2
  <2>2. r \in ToSet(s.run) /\ r \in Req
    BY <1>2, <2>1, SetOf
  <2> QED BY <2>1, <2>2
<1>4. e \in Object
  BY <1>3
<1>5. n \in Nat
  <2> HIDE DEF r, e
  <2>1. n \in 0 .. s.budget
    BY <1>2, <1>3, <1>4, RunningTokensFacts
  <2> HIDE DEF n
  <2> QED BY <1>2, <2>1
<1>6. LastOf(s.run, 0) = <<>>
  <2>1. 0 \in 0 .. Len(s.run)
    BY <1>3
  <2>2. LastOf(s.run, 0) \in Seq(Req) /\ Len(LastOf(s.run, 0)) = 0
    BY <1>2, <2>1, SplitAt
  <2> QED BY <2>2, EmptySeq
<1>7. Left(s, 0) = s.held /\ Reverse(LastOf(s.run, 0)) = <<>> /\ ToSet(<<>>) = {}
      /\ Release(s.held, {}) = s.held
  <2>1. Release(s.held, {}) = s.held
    BY <1>2 DEF Release
  <2>2. ToSet(<<>>) = {} /\ Reverse(<<>>) = <<>>
    BY <1>2, EmptyQueue
  <2> QED BY <1>6, <2>1, <2>2 DEF Left
<1>8. k = 0
  <2> DEFINE S == {j \in 0 .. behind : Fits(Left(s, j), r, e, n, 0)}
             V == S \cup {behind + 1}
  <2>1. k = Min(V)
    BY DEF Victims, Left
  <2>2. Fits(s.held, r, e, n, 0)
    BY <1>3, <1>4, <1>5
  <2> HIDE DEF r, e, n
  <2>3. 0 \in V
    BY <1>3, <1>7, <2>2
  <2>4. V \subseteq Nat /\ V # {}
    BY <1>3, <2>3
  <2> HIDE DEF V, k
  <2>5. Min(V) \in Nat /\ Min(V) <= 0
    BY <2>3, <2>4, MinOf
  <2> QED BY <2>1, <2>5
<1>9. t = IF fits THEN [shrunk EXCEPT !.tokens[r] = n, !.budget = @ - n,
                                      !.held = Allocate(held_, r, e, n)]
          ELSE shrunk
  BY <1>1 DEF RunOne
<1>10. fits
  <2> HIDE DEF k
  <2> QED BY <1>3, <1>8
<1>11. gone = <<>> /\ held_ = s.held
  <2> HIDE DEF k
  <2> QED BY <1>7, <1>8
<1> DEFINE run_ == SubSeq(s.run, 1, Len(s.run) - k)
           pre_ == s.preempted \o gone
           over_ == ~fits
           h == Allocate(held_, r, e, n)
<1>12. run_ = s.run
  <2>1. Len(s.run) - 0 = Len(s.run)
    BY <1>3
  <2>2. SubSeq(s.run, 1, Len(s.run)) = s.run
    BY <1>2, SubSeqFull
  <2> HIDE DEF k
  <2> QED BY <1>8, <2>1, <2>2
<1>13. pre_ = s.preempted
  <2> HIDE DEF gone
  <2> QED BY <1>2, <1>11, EmptyQueue
<1>14. shrunk = [s EXCEPT !.run = run_, !.preempted = pre_, !.held = held_, !.over = over_]
  OBVIOUS
<1>15. h = Allocate(s.held, r, e, n)
  <2> HIDE DEF held_, r, e, n
  <2> QED BY <1>11
<1> HIDE DEF shrunk, run_, pre_, over_
<1>16. t = [shrunk EXCEPT !.tokens[r] = n, !.budget = @ - n, !.held = h]
  BY <1>9, <1>10
<1> HIDE DEF t, h, held_, r, e, n, k, gone
<1>17. t.run = run_ /\ t.preempted = pre_ /\ t.held = h
  BY <1>14, <1>16 DEF LoopType
<1>18. Spares(t, s)
  BY <1>3, <1>4, <1>5, <1>12, <1>13, <1>15, <1>17 DEF Spares
<1> QED BY <1>18 DEF t

\* The first loop preempts nobody.
LEMMA Phase1Room ==
  ASSUME Roomy, NEW entry, NEW run, NEW h, Schedulable(entry, run, h), Len(run) <= MaxRunning,
         Slim(h)
  PROVE  Phase1(entry, run, h).preempted = <<>> /\ Slim(Phase1(entry, run, h).held)
<1>1. /\ entry \in [Req -> Object] /\ run \in Seq(Req) /\ h \in [Req -> Nat] /\ Len(run) \in Nat
      /\ Sorted(run) /\ \A r \in Req : h[r] > 0 => r \in ToSet(run)
  BY DEF Schedulable
<1>2. PICK a : Phase1States(a, entry, run, h)
  BY <1>1, Phase1Loop
<1> DEFINE n == Len(run)
           room(s) == s.run = run /\ s.preempted = <<>> /\ Slim(s.held)
                      /\ \A r \in Req : s.held[r] > 0 => r \in ToSet(run)
           S == [k \in 0 .. n |-> {s \in LoopType : room(s)}]
<1>3. a[0] \in S[0]
  <2> DEFINE s == a[0]
  <2>1. s \in LoopType /\ s = Start(run, h)
    BY <1>1, <1>2 DEF Phase1States
  <2> HIDE DEF s
  <2>2. s.run = run /\ s.held = h /\ s.preempted = <<>>
    BY <2>1 DEF Start
  <2>3. room(s)
    BY <1>1, <2>2
  <2> HIDE DEF room
  <2> QED BY <1>1, <2>1, <2>3 DEF s
<1>4. ASSUME NEW k \in 1 .. n, a[k - 1] \in S[k - 1]
      PROVE  a[k] \in S[k]
  <2> DEFINE s == a[k - 1]
             t == a[k]
  <2>1. k - 1 \in 0 .. n /\ k \in 0 .. n /\ k \in Nat \ {0}
    BY <1>1
  <2>2. s \in LoopType /\ room(s)
    BY <1>4, <2>1
  <2>3. t = RunOne(entry, s, k)
    BY <1>2 DEF Phase1States
  <2>4. t \in LoopType
    BY <1>2, <2>1 DEF Phase1States
  <2> HIDE DEF s, t, S
  <2>5. s.held \in [Req -> Nat] /\ s.run = run
    BY <2>2, LoopFields
  <2>6. \A r \in ToSet(s.run), e \in Object, m \in Nat : Fits(s.held, r, e, m, 0)
    BY <1>1, <2>2, <2>5, AlwaysFits
  <2>7. Spares(t, s)
    BY <1>1, <2>1, <2>2, <2>3, <2>6, RunOneSpares
  <2>8. room(t)
    <3>1. CASE t.held = s.held
      BY <2>2, <2>7, <3>1 DEF Spares
    <3>2. ASSUME NEW r \in ToSet(s.run), NEW e \in Object, NEW m \in Nat,
                 t.held = Allocate(s.held, r, e, m)
          PROVE  room(t)
      <4> DEFINE g == s.held
                 f == t.held
      <4>1. g \in [Req -> Nat] /\ r \in Req /\ Slim(g) /\ f = Allocate(g, r, e, m) /\ r \in ToSet(run)
        BY <1>1, <2>2, <2>5, <3>2, SetOf
      <4>2. \A q \in Req : g[q] > 0 => q \in ToSet(run)
        BY <2>2
      <4> HIDE DEF f, g, s, t
      <4>3. Slim(f) /\ \A q \in Req \ {r} : f[q] = g[q]
        BY <4>1, AllocateSlim
      <4>4. \A q \in Req : f[q] > 0 => q \in ToSet(run)
        BY <4>1, <4>2, <4>3
      <4>5. t.run = run /\ t.preempted = <<>>
        BY <2>2, <2>7 DEF Spares
      <4> QED BY <4>3, <4>4, <4>5 DEF f
    <3> HIDE DEF room
    <3> QED BY <2>7, <3>1, <3>2 DEF Spares
  <2> QED BY <2>1, <2>4, <2>8 DEF S, t
<1>5. \A k \in 0 .. n : a[k] \in S[k]
  <2> HIDE DEF n, S
  <2> QED BY <1>1, <1>3, <1>4, Stays DEF n
<1>6. room(a[n])
  BY <1>1, <1>5
<1> QED BY <1>2, <1>6 DEF Phase1States

\* The second loop, when nobody was preempted.
LEMMA Phase2Room ==
  ASSUME NEW entry \in [Req -> Object], NEW s \in LoopType, NEW queue, Offerable(entry, queue),
         s.preempted = <<>>, Slim(s.held)
  PROVE  Phase2(entry, s, queue).preempted = <<>> /\ Slim(Phase2(entry, s, queue).held)
<1> DEFINE n == Len(queue)
           room(u) == u.preempted = <<>> /\ Slim(u.held)
           S == [k \in 0 .. n |-> {u \in LoopType : room(u)}]
<1>1. /\ queue \in Seq(Req) /\ n \in Nat
      /\ \A k \in 1 .. n : queue[k] \in Req /\ entry[queue[k]].C = 0
  <2>1. queue \in Seq(Req)
    BY DEF Offerable
  <2>2. \A k \in 1 .. n : queue[k] \in ToSet(queue) /\ queue[k] \in Req
    BY <2>1, SetOf
  <2> QED BY <2>1, <2>2 DEF Offerable
<1>2. PICK a : Phase2States(a, entry, s, queue)
  BY <1>1, Phase2Loop
<1>3. a[0] \in S[0]
  <2> DEFINE u == a[0]
  <2>1. u = [s EXCEPT !.over = FALSE] /\ u \in LoopType
    BY <1>1, <1>2 DEF Phase2States
  <2> HIDE DEF u
  <2>2. room(u)
    BY <2>1 DEF LoopType
  <2> HIDE DEF room
  <2> QED BY <1>1, <2>1, <2>2 DEF u
<1>4. ASSUME NEW k \in 1 .. n, a[k - 1] \in S[k - 1]
      PROVE  a[k] \in S[k]
  <2> DEFINE u == a[k - 1]
             t == a[k]
             r == queue[k]
  <2>1. k - 1 \in 0 .. n /\ k \in 0 .. n /\ r \in Req /\ entry[r].C = 0
    BY <1>1
  <2>2. u \in LoopType /\ room(u)
    BY <1>4, <2>1
  <2>3. t = AdmitOne(entry, u, r)
    BY <1>2 DEF Phase2States
  <2> HIDE DEF u, t, r, S
  <2>4. t \in LoopType /\ (Leaves(u, t) \/ (~u.over /\ Admits(entry, u, t, r)))
    BY <2>1, <2>2, <2>3, AdmitOneCases
  <2>5. CASE Leaves(u, t)
    <3>1. room(t)
      BY <2>2, <2>5 DEF Leaves
    <3> HIDE DEF room
    <3> QED BY <2>1, <2>4, <3>1 DEF S, t
  <2>6. CASE Admits(entry, u, t, r)
    <3>1. PICK m \in Nat : AdmitsWith(entry, u, t, r, m)
      BY <2>6 DEF Admits
    <3> DEFINE g == u.held
               e == entry[r]
    <3>2. g \in [Req -> Nat] /\ e \in Object /\ Slim(g) /\ r \in Req
      BY <2>1, <2>2, LoopFields
    <3>3. t.preempted = <<>> /\ t.held = Allocate(g, r, e, m)
      BY <2>2, <3>1 DEF AdmitsWith
    <3> HIDE DEF g, e
    <3>4. Slim(Allocate(g, r, e, m))
      BY <3>2, AllocateSlim
    <3>5. room(t)
      BY <3>3, <3>4
    <3> HIDE DEF room
    <3> QED BY <2>1, <2>4, <3>5 DEF S, t
  <2> QED BY <2>4, <2>5, <2>6
<1>5. \A k \in 0 .. n : a[k] \in S[k]
  <2> HIDE DEF n, S
  <2> QED BY <1>1, <1>3, <1>4, Stays DEF n
<1>6. room(a[n])
  BY <1>1, <1>5
<1> QED BY <1>2, <1>6 DEF Phase2States

\* A step preempts nobody.
LEMMA ScheduleRoom ==
  ASSUME Roomy, NEW entry, NEW run, NEW h, Schedulable(entry, run, h), Len(run) <= MaxRunning,
         Slim(h), NEW queue, Offerable(entry, queue),
         NEW d, d = Schedule(entry, run, queue, h)
  PROVE  d.preempted = <<>> /\ Slim(d.held)
<1> DEFINE s == Phase1(entry, run, h)
<1>1. d = Phase2(entry, s, queue)
  BY DEF Schedule, Once
<1>2. s \in LoopType
  BY Phase1Result
<1>3. s.preempted = <<>> /\ Slim(s.held)
  BY Phase1Room
<1>4. entry \in [Req -> Object]
  BY DEF Schedulable
<1> HIDE DEF s
<1> QED BY <1>1, <1>2, <1>3, <1>4, Phase2Room

\* No step of either scheduler preempts a request.
LEMMA StepsHaveRoom ==
  ASSUME Roomy, IInv, Slim(held), ScheduleStep \/ StockStep
  PROVE  Slim(held') /\ \A r \in Req : req[r].status # "PREEMPTED" => req'[r].status # "PREEMPTED"
<1>1. /\ Settled(req, table, running, waiting, held, dirty) /\ Len(running) <= MaxRunning
  BY Parts
<1>2. /\ running \in Seq(Req) /\ waiting \in Seq(Req) /\ req \in [Req -> Object]
  BY <1>1 DEF Settled, Placed, Lives
\* What the loops leave alone.
<1>3. ASSUME NEW d \in LoopType, d.preempted = <<>>, NEW r \in Req, req[r].status # "PREEMPTED"
      PROVE  Applied(req, d)[r].status # "PREEMPTED" /\ Applied(req, d) \in [Req -> Object]
  <2> DEFINE a == Applied(req, d)[r]
  <2>1. AppliedTo(req[r], a, d, r) /\ Applied(req, d) \in [Req -> Object]
    BY <1>2, <1>3, AppliedFacts, AppliedTypes
  <2>2. r \notin ToSet(d.preempted)
    BY <1>2, <1>3, EmptyQueue
  <2> HIDE DEF a
  <2>3. a.status = IF r \in ToSet(d.admitted) THEN "RUNNING" ELSE req[r].status
    BY <2>1, <2>2 DEF AppliedTo
  <2> QED BY <1>3, <2>1, <2>3 DEF a
<1>4. CASE ScheduleStep
  <2>1. PICK loaded, entry, offered, rest, d, nobodyWaits, wasDirty :
          CrateStep(loaded, entry, offered, rest, d, nobodyWaits, wasDirty)
    BY <1>4, ScheduleStepCases
  <2> DEFINE py == Applied(req, d)
             rs == Applied(Resident(loaded, d), d)
  <2>2. /\ Schedulable(entry, running, held) /\ Offerable(entry, offered)
        /\ d = Schedule(entry, running, offered, held) /\ held' = d.held /\ d \in LoopType
        /\ CommitBurst(d, py, rs, nobodyWaits, wasDirty)
    BY <2>1 DEF CrateStep, StepKeeps
  <2> HIDE DEF rs
  <2>3. d.preempted = <<>> /\ Slim(d.held)
    BY <1>1, <2>2, ScheduleRoom
  <2>4. ASSUME NEW r \in Req, req[r].status # "PREEMPTED" PROVE req'[r].status # "PREEMPTED"
    <3>1. py[r].status # "PREEMPTED" /\ py \in [Req -> Object]
      BY <1>3, <2>2, <2>3, <2>4
    <3> HIDE DEF py
    <3>2. req'[r].status = py[r].status
      BY <2>2, <3>1, CommitStatus
    <3> QED BY <3>1, <3>2
  <2> QED BY <2>2, <2>3, <2>4
<1>5. CASE StockStep
  <2> DEFINE none == <<>>
             d == Schedule(req, running, waiting, held)
  <2>1. held' = d.held /\ req' = Applied(req, d)
    BY <1>5 DEF StockStep
  <2>2. none \in Seq(Req) /\ waiting = waiting \o none
    BY <1>2, EmptyQueue
  <2>3. Reads(req, req, running, waiting)
    BY <1>2 DEF Reads
  <2> HIDE DEF none
  <2>4. Schedulable(req, running, held) /\ Offerable(req, waiting)
    BY <1>1, <1>2, <2>2, <2>3, AskedOfTheLoops
  <2>5. StepKeeps(req, running, waiting, d) /\ d = Schedule(req, running, waiting, held)
    BY <1>1, <2>4, ScheduleKeeps
  <2> HIDE DEF d
  <2>6. d.preempted = <<>> /\ Slim(d.held) /\ d \in LoopType
    BY <1>1, <2>4, <2>5, ScheduleRoom DEF StepKeeps
  <2>7. \A r \in Req : req[r].status # "PREEMPTED" => req'[r].status # "PREEMPTED"
    BY <1>3, <2>1, <2>6
  <2> QED BY <2>1, <2>6, <2>7
<1> QED BY <1>4, <1>5

\* Neither does anything else, and what is released is held by nobody.
LEMMA OthersHaveRoom ==
  ASSUME IInv, Slim(held), (\E r \in Req : AddRequest(r) \/ Abort(r)) \/ Update
  PROVE  Slim(held') /\ \A r \in Req : req[r].status # "PREEMPTED" => req'[r].status # "PREEMPTED"
<1>1. req \in [Req -> Object] /\ held \in [Req -> Nat]
  BY Parts DEF Settled, Lives, Housed
<1>2. ASSUME NEW S PROVE Slim(Release(held, S))
  <2>1. \A q \in Req : Release(held, S)[q] <= held[q] /\ Release(held, S)[q] \in Nat
    BY <1>1, ReleaseFacts
  <2>2. Whole \in Nat
    BY Constants, CeilFacts DEF Whole
  <2> QED BY <1>1, <2>1, <2>2 DEF Slim
\* A status that changes becomes one of these two.
<1>3. ASSUME NEW r \in Req, NEW w \in {"WAITING", "FINISHED"}, req' = [req EXCEPT ![r].status = w]
      PROVE  \A q \in Req : req[q].status # "PREEMPTED" => req'[q].status # "PREEMPTED"
  <2> DEFINE e == req[r]
             f == [e EXCEPT !.status = w]
  <2>1. e \in Object /\ req' = [req EXCEPT ![r] = f]
    BY <1>1, <1>3
  <2> HIDE DEF e
  <2>2. f.status = w
    BY <2>1 DEF Object
  <2> HIDE DEF f
  <2>3. req'[r] = f /\ \A q \in Req \ {r} : req'[q] = req[q]
    BY <1>1, <2>1
  <2> QED BY <2>2, <2>3
<1>4. ASSUME NEW r \in Req, AddRequest(r)
      PROVE  Slim(held') /\ \A q \in Req : req[q].status # "PREEMPTED" => req'[q].status # "PREEMPTED"
  <2>1. req' = [req EXCEPT ![r].status = "WAITING"] /\ held' = held
    BY <1>4 DEF AddRequest
  <2> QED BY <1>3, <2>1
<1>5. ASSUME NEW r \in Req, Abort(r)
      PROVE  Slim(held') /\ \A q \in Req : req[q].status # "PREEMPTED" => req'[q].status # "PREEMPTED"
  <2>1. req' = [req EXCEPT ![r].status = "FINISHED"] /\ held' = Release(held, {r})
    BY <1>5 DEF Abort
  <2> QED BY <1>2, <1>3, <2>1
<1>6. CASE Update
  <2> DEFINE step == Head(pipeline)
             live == {r \in step.samples : req[r].status \in Live}
  <2>1. PICK offered, verdict, fallback : UpdateWith(step, live, offered, verdict, fallback)
    BY <1>6, UpdateCases
  <2> HIDE DEF step, live
  <2> DEFINE stopped == {r \in live : verdict[r].stop}
             short(r) == step.promised - verdict[r].acc
  <2>2. /\ held' = Release(held, stopped)
        /\ req' = [r \in Req |->
             IF r \notin live THEN req[r]
             ELSE [UpdatedObject(req[r], verdict[r].acc, short(r))
                     EXCEPT !.status = IF r \in stopped THEN "FINISHED" ELSE @]]
    BY <2>1 DEF UpdateWith
  <2>3. ASSUME NEW r \in Req, req[r].status # "PREEMPTED" PROVE req'[r].status # "PREEMPTED"
    <3> DEFINE o == UpdatedObject(req[r], verdict[r].acc, short(r))
               w == IF r \in stopped THEN "FINISHED" ELSE o.status
    <3>1. req'[r] = IF r \notin live THEN req[r] ELSE [o EXCEPT !.status = w]
      BY <2>2
    <3>2. o.status = req[r].status /\ [o EXCEPT !.status = w].status = w
      <4> DEFINE e == req[r]
                 n == verdict[r].acc
                 m == short(r)
                 a == [e EXCEPT !.T = @ + n]
                 b == IF m > 0 THEN BurstRetract(a, m) ELSE a
      <4>1. o = [b EXCEPT !.P = Max({0, @}) - n] /\ e \in Object
        BY <1>1 DEF UpdatedObject
      <4> HIDE DEF e, n, m, o
      <4>2. DOMAIN a = DOMAIN e /\ a.status = e.status
        BY <4>1 DEF Object
      <4>3. DOMAIN b = DOMAIN e /\ b.status = e.status
        <5> HIDE DEF a
        <5> QED BY <4>1, <4>2 DEF BurstRetract, Object
      <4> HIDE DEF b, w
      <4>4. DOMAIN o = DOMAIN e /\ o.status = e.status /\ "status" \in DOMAIN e
        BY <4>1, <4>3 DEF Object
      <4>5. [o EXCEPT !.status = w].status = w
        BY <4>4
      <4> QED BY <4>4, <4>5 DEF e
    <3> HIDE DEF o
    <3> QED BY <2>3, <3>1, <3>2
  <2> QED BY <1>2, <2>2, <2>3
<1> QED BY <1>4, <1>5, <1>6

\* Nobody is ever preempted, and so no promise is dropped with its token in
\* flight.
LEMMA RoomForAll ==
  ASSUME Roomy
  PROVE  Spec => []Slim(held) /\ [][KeepsPromises]_vars
<1>1. Init => Slim(held)
  <2>1. Whole \in Nat
    BY Constants, CeilFacts DEF Whole
  <2> QED BY <2>1 DEF Init, Slim
<1>2. ASSUME IInv, Slim(held), [Next]_vars PROVE Slim(held)' /\ [KeepsPromises]_vars
  <2>1. CASE UNCHANGED vars
    BY <1>2, <2>1 DEF vars, Slim
  <2>2. CASE Next
    <3>1. Slim(held') /\ \A r \in Req : req[r].status # "PREEMPTED" => req'[r].status # "PREEMPTED"
      BY <1>2, <2>2, StepsHaveRoom, OthersHaveRoom DEF Next
    <3> QED BY <3>1 DEF KeepsPromises
  <2> QED BY <1>2, <2>1, <2>2
<1> QED BY <1>1, <1>2, Invariant, PTL DEF Spec

\* With the blocks of a whole context for every seat, a clean table is always
\* what marshalling the Python objects would give, every promise is in flight
\* and every decode keeps its shape: through every mix of crate and stock
\* steps, bursts, short bursts, stops and aborts.
THEOREM RecordsAgree ==
  ASSUME Roomy, Fallbacks => Speculate
  PROVE  Spec => [](TableMatches /\ PromisesInFlight /\ SteadyDecode)
BY Records, RoomForAll, Invariant, RecordsSay, PTL
=============================================================================
