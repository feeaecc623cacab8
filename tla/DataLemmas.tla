----------------------------- MODULE DataLemmas -----------------------------
(***************************************************************************)
(* Lemmas about numbers, finite sets and recursive functions that the      *)
(* proofs about the modules share.  Induction is stated for a set of       *)
(* numbers where the library's theorems have an operator as a parameter.   *)
(***************************************************************************)
EXTENDS Integers, FiniteSets, FiniteSetsExt, FiniteSetTheorems, WellFoundedInduction, TLAPS

-----------------------------------------------------------------------------
(* Greatest and least elements                                              *)

(* A function attains its greatest value on a finite set.                   *)
LEMMA Attained ==
  ASSUME NEW S, IsFiniteSet(S), S # {}, NEW f \in [S -> Int]
  PROVE  \E e \in S : \A g \in S : f[g] <= f[e]
<1> DEFINE Above(e) == {g \in S : f[e] < f[g]}
           Aboves   == {Above(e) : e \in S}
<1>1. \A e \in S : Above(e) \in FiniteSubsetsOf(S)
  <2> SUFFICES ASSUME NEW e \in S PROVE Above(e) \in FiniteSubsetsOf(S)
    OBVIOUS
  <2>1. Above(e) \in SUBSET S
    OBVIOUS
  <2>2. IsFiniteSet(Above(e))
    BY <2>1, FS_Subset
  <2> QED
    BY <2>1, <2>2 DEF FiniteSubsetsOf
<1>2. Aboves \subseteq FiniteSubsetsOf(S) /\ Aboves # {}
  <2> HIDE DEF Above
  <2> QED
    BY <1>1
<1>3. \E U \in Aboves : \A V \in Aboves : ~(<<V, U>> \in StrictSubsetOrdering(S))
  <2> HIDE DEF Aboves
  <2> QED
    BY <1>2, FS_StrictSubsetOrderingWellFounded, WFMin
<1>4. PICK e \in S : \A g \in S : ~(<<Above(g), Above(e)>> \in StrictSubsetOrdering(S))
  BY <1>3
<1>5. ASSUME NEW g \in S, ~(f[g] <= f[e])
      PROVE  FALSE
  <2>1. Above(g) \in SUBSET S /\ Above(e) \in SUBSET S
    OBVIOUS
  <2>2. f[e] < f[g]
    BY <1>5
  <2>3. Above(g) \subseteq Above(e)
    BY <2>2
  <2>4. g \in Above(e) /\ g \notin Above(g)
    BY <2>2
  <2> HIDE DEF Above
  <2>5. <<Above(g), Above(e)>> \in StrictSubsetOrdering(S)
    BY <2>1, <2>3, <2>4 DEF StrictSubsetOrdering
  <2> QED
    BY <2>5, <1>4
<1> QED
  BY <1>5

LEMMA MaxIs ==
  ASSUME NEW S \in SUBSET Int, NEW x \in S, \A y \in S : y <= x
  PROVE  Max(S) = x
<1>1. \A y \in S : x >= y
  OBVIOUS
<1>2. Max(S) \in S /\ \A y \in S : Max(S) >= y
  BY <1>1, Zenon DEF Max
<1>3. Max(S) >= x /\ Max(S) <= x
  BY <1>2
<1>4. Max(S) \in Int
  BY <1>2
<1> QED
  BY <1>3, <1>4

LEMMA MinIs ==
  ASSUME NEW S \in SUBSET Int, NEW x \in S, \A y \in S : x <= y
  PROVE  Min(S) = x
<1>1. Min(S) \in S /\ \A y \in S : Min(S) <= y
  BY Zenon DEF Min
<1>2. Min(S) >= x /\ Min(S) <= x
  BY <1>1
<1>3. Min(S) \in Int
  BY <1>1
<1> QED
  BY <1>2, <1>3

LEMMA MaxOfTwo ==
  ASSUME NEW a \in Int, NEW b \in Int
  PROVE  Max({a, b}) = IF a >= b THEN a ELSE b
<1>1. CASE a >= b
  BY <1>1, MaxIs
<1>2. CASE ~(a >= b)
  BY <1>2, MaxIs
<1> QED
  BY <1>1, <1>2

LEMMA MinOfTwo ==
  ASSUME NEW a \in Int, NEW b \in Int
  PROVE  Min({a, b}) = IF a <= b THEN a ELSE b
<1>1. CASE a <= b
  BY <1>1, MinIs
<1>2. CASE ~(a <= b)
  BY <1>2, MinIs
<1> QED
  BY <1>1, <1>2

LEMMA TimesMonotone ==
  ASSUME NEW i \in Nat, NEW j \in Nat, i <= j, NEW w \in Nat
  PROVE  i * w <= j * w
<1>1. (j - i) * w >= 0
  BY SMT
<1>2. j * w = i * w + (j - i) * w
  BY SMT
<1>3. i * w \in Int /\ j * w \in Int /\ (j - i) * w \in Int
  BY SMT
<1> QED
  BY <1>1, <1>2, <1>3

-----------------------------------------------------------------------------
(* Induction                                                                *)

(* A non-empty set of natural numbers has a least element.                  *)
LEMMA LeastNatural ==
  ASSUME NEW S \in SUBSET Nat, S # {}
  PROVE  \E x \in S : \A y \in S : x <= y
<1>1. PICK n \in S : TRUE
  OBVIOUS
<1> DEFINE T == S \cap 0 .. n
           f == [x \in T |-> -x]
<1>2. IsFiniteSet(T) /\ n \in T /\ f \in [T -> Int]
  <2>1. IsFiniteSet(0 .. n)
    BY <1>1, FS_Interval
  <2>2. T \in SUBSET (0 .. n) /\ n \in T /\ f \in [T -> Int]
    BY <1>1
  <2> QED
    BY <2>1, <2>2, FS_Subset
<1>3. PICK e \in T : \A g \in T : f[g] <= f[e]
  <2> HIDE DEF T, f
  <2> QED
    BY <1>2, Attained
<1>4. \A y \in T : e <= y
  BY <1>3
<1> QED
  BY <1>1, <1>4

(* A set of numbers that has 0 and the successors of its members has them   *)
(* all.                                                                     *)
LEMMA SetInduction ==
  ASSUME NEW S, 0 \in S, \A n \in Nat : n \in S => n + 1 \in S
  PROVE  \A n \in Nat : n \in S
<1> SUFFICES ASSUME Nat \ S # {} PROVE FALSE
  OBVIOUS
<1>1. PICK x \in Nat \ S : \A y \in Nat \ S : x <= y
  <2>1. Nat \ S \in SUBSET Nat
    OBVIOUS
  <2> QED
    BY <2>1, LeastNatural
<1>2. x # 0
  BY <1>1
<1>3. x - 1 \in Nat /\ x - 1 \in S
  BY <1>1, <1>2
<1> QED
  BY <1>1, <1>3

(* f starts with base and goes on by step.                                  *)
Recurs(f, N, V, base, step) ==
  f \in [0 .. N -> V] /\ f[0] = base /\ \A k \in 1 .. N : f[k] = step[<<f[k - 1], k>>]

(* A function on 0 .. N exists for every first value and every step.        *)
LEMMA RecursionExists ==
  ASSUME NEW N \in Nat, NEW V, NEW base \in V, NEW step \in [V \X (1 .. N) -> V]
  PROVE  \E f : Recurs(f, N, V, base, step)
<1> DEFINE Upto(n) == \E f \in [0 .. n -> V] :
                         f[0] = base /\ \A k \in 1 .. n : f[k] = step[<<f[k - 1], k>>]
           S == {n \in Nat : n <= N => Upto(n)}
<1>1. 0 \in S
  <2> DEFINE f == [k \in 0 .. 0 |-> base]
  <2>1. f \in [0 .. 0 -> V] /\ f[0] = base
    OBVIOUS
  <2>2. \A k \in 1 .. 0 : f[k] = step[<<f[k - 1], k>>]
    OBVIOUS
  <2> HIDE DEF f
  <2>3. Upto(0)
    BY <2>1, <2>2
  <2> QED
    BY <2>3
<1>2. ASSUME NEW n \in Nat, n \in S
      PROVE  n + 1 \in S
  <2> SUFFICES ASSUME n + 1 <= N PROVE Upto(n + 1)
    OBVIOUS
  <2>1. PICK f \in [0 .. n -> V] : f[0] = base /\ \A k \in 1 .. n : f[k] = step[<<f[k - 1], k>>]
    BY <1>2
  <2> DEFINE g == [k \in 0 .. n + 1 |-> IF k = n + 1 THEN step[<<f[n], n + 1>>] ELSE f[k]]
  <2>2. <<f[n], n + 1>> \in V \X (1 .. N)
    OBVIOUS
  <2>3. step[<<f[n], n + 1>>] \in V
    BY <2>2
  <2>4. g \in [0 .. n + 1 -> V]
    BY <2>3
  <2>5. g[0] = base
    BY <2>1
  <2>6. ASSUME NEW k \in 1 .. n + 1
        PROVE  g[k] = step[<<g[k - 1], k>>]
    <3>1. CASE k = n + 1
      <4>1. g[n + 1] = step[<<f[n], n + 1>>] /\ g[n] = f[n]
        OBVIOUS
      <4>2. k - 1 = n
        BY <3>1
      <4> HIDE DEF g
      <4> QED
        BY <3>1, <4>1, <4>2
    <3>2. CASE k # n + 1
      <4>1. k \in 1 .. n /\ g[k] = f[k] /\ g[k - 1] = f[k - 1]
        BY <3>2
      <4>2. f[k] = step[<<f[k - 1], k>>]
        BY <4>1, <2>1
      <4> HIDE DEF g
      <4> QED
        BY <4>1, <4>2
    <3> QED
      BY <3>1, <3>2
  <2> HIDE DEF g
  <2> QED
    BY <2>4, <2>5, <2>6
<1> HIDE DEF S
<1>3. N \in S
  BY <1>1, <1>2, SetInduction
<1> QED
  BY <1>3 DEF S, Recurs

-----------------------------------------------------------------------------
(* Greatest and least elements of finite sets                               *)

LEMMA MaxFinite ==
  ASSUME NEW S \in SUBSET Int, IsFiniteSet(S), S # {}
  PROVE  Max(S) \in S /\ \A y \in S : y <= Max(S)
<1> DEFINE f == [x \in S |-> x]
<1>1. f \in [S -> Int]
  OBVIOUS
<1>2. PICK e \in S : \A g \in S : f[g] <= f[e]
  <2> HIDE DEF f
  <2> QED
    BY <1>1, Attained
<1>3. \A y \in S : y <= e
  BY <1>2
<1>4. Max(S) = e
  BY <1>3, MaxIs
<1> QED
  BY <1>3, <1>4

LEMMA MinFinite ==
  ASSUME NEW S \in SUBSET Int, IsFiniteSet(S), S # {}
  PROVE  Min(S) \in S /\ \A y \in S : Min(S) <= y
<1> DEFINE f == [x \in S |-> -x]
<1>1. f \in [S -> Int]
  OBVIOUS
<1>2. PICK e \in S : \A g \in S : f[g] <= f[e]
  <2> HIDE DEF f
  <2> QED
    BY <1>1, Attained
<1>3. \A y \in S : e <= y
  BY <1>2
<1>4. Min(S) = e
  BY <1>3, MinIs
<1> QED
  BY <1>3, <1>4

LEMMA MinNatural ==
  ASSUME NEW S \in SUBSET Nat, S # {}
  PROVE  Min(S) \in S /\ \A y \in S : Min(S) <= y
<1>1. PICK e \in S : \A y \in S : e <= y
  BY LeastNatural
<1>2. Min(S) = e
  BY <1>1, MinIs
<1> QED
  BY <1>1, <1>2

LEMMA MaxOfThree ==
  ASSUME NEW a \in Int, NEW b \in Int, NEW c \in Int
  PROVE  /\ Max({a, b, c}) \in Int
         /\ a <= Max({a, b, c}) /\ b <= Max({a, b, c}) /\ c <= Max({a, b, c})
<1>1. PICK e \in {a, b, c} : \A y \in {a, b, c} : y <= e
  OBVIOUS
<1>2. Max({a, b, c}) = e
  BY <1>1, MaxIs
<1> QED
  BY <1>1, <1>2

LEMMA MinOfThree ==
  ASSUME NEW a \in Int, NEW b \in Int, NEW c \in Int
  PROVE  /\ Min({a, b, c}) \in Int
         /\ Min({a, b, c}) <= a /\ Min({a, b, c}) <= b /\ Min({a, b, c}) <= c
<1>1. PICK e \in {a, b, c} : \A y \in {a, b, c} : e <= y
  OBVIOUS
<1>2. Min({a, b, c}) = e
  BY <1>1, MinIs
<1> QED
  BY <1>1, <1>2

LEMMA ThreeWithin ==
  ASSUME NEW a \in Int, NEW b \in Int, NEW c \in Int, NEW x \in Int
  PROVE  /\ a <= x /\ b <= x /\ c <= x => Max({a, b, c}) <= x
         /\ x <= a /\ x <= b /\ x <= c => x <= Min({a, b, c})
<1>1. PICK e \in {a, b, c} : \A y \in {a, b, c} : y <= e
  OBVIOUS
<1>2. Max({a, b, c}) = e
  BY <1>1, MaxIs
<1>3. PICK d \in {a, b, c} : \A y \in {a, b, c} : d <= y
  OBVIOUS
<1>4. Min({a, b, c}) = d
  BY <1>3, MinIs
<1> QED
  BY <1>1, <1>2, <1>3, <1>4

(* e is greatest in S in the order of three keys.                           *)
GreatestBy(e, S, f, g, h) ==
  /\ e \in S
  /\ \A t \in S : /\ f[t] <= f[e]
                  /\ f[t] = f[e] => g[t] <= g[e]
                  /\ f[t] = f[e] /\ g[t] = g[e] => h[t] <= h[e]

LEMMA GreatestOfThree ==
  ASSUME NEW S, IsFiniteSet(S), S # {}, NEW f \in [S -> Int], NEW g \in [S -> Int], NEW h \in [S -> Int]
  PROVE  \E e : GreatestBy(e, S, f, g, h)
<1>1. PICK a \in S : \A t \in S : f[t] <= f[a]
  BY Attained
<1>2. PICK A : A = {t \in S : f[t] = f[a]}
  OBVIOUS
<1>3. A \in SUBSET S /\ A # {} /\ IsFiniteSet(A)
  <2>1. A \in SUBSET S /\ A # {}
    BY <1>2
  <2> QED
    BY <2>1, FS_Subset
<1>4. PICK b \in A : \A t \in A : g[t] <= g[b]
  <2> DEFINE k == [t \in A |-> g[t]]
  <2>1. k \in [A -> Int]
    BY <1>3
  <2>2. PICK b \in A : \A t \in A : k[t] <= k[b]
    <3> HIDE DEF k
    <3> QED
      BY <1>3, <2>1, Attained
  <2> QED
    BY <2>2
<1>5. PICK B : B = {t \in A : g[t] = g[b]}
  OBVIOUS
<1>6. B \in SUBSET S /\ B # {} /\ IsFiniteSet(B)
  <2>1. B \in SUBSET S /\ B # {}
    BY <1>3, <1>5
  <2> QED
    BY <2>1, FS_Subset
<1>7. PICK e \in B : \A t \in B : h[t] <= h[e]
  <2> DEFINE k == [t \in B |-> h[t]]
  <2>1. k \in [B -> Int]
    BY <1>6
  <2>2. PICK e \in B : \A t \in B : k[t] <= k[e]
    <3> HIDE DEF k
    <3> QED
      BY <1>6, <2>1, Attained
  <2> QED
    BY <2>2
<1>8. e \in S /\ f[e] = f[a] /\ g[e] = g[b]
  BY <1>2, <1>5, <1>6
<1>9. ASSUME NEW t \in S
      PROVE  /\ f[t] <= f[e]
             /\ f[t] = f[e] => g[t] <= g[e]
             /\ f[t] = f[e] /\ g[t] = g[e] => h[t] <= h[e]
  <2>1. f[t] <= f[e]
    BY <1>1, <1>8
  <2>2. ASSUME f[t] = f[e] PROVE t \in A /\ g[t] <= g[e]
    BY <1>2, <1>4, <1>8, <2>2
  <2>3. ASSUME f[t] = f[e], g[t] = g[e] PROVE h[t] <= h[e]
    <3>1. t \in B
      BY <1>5, <1>8, <2>2, <2>3
    <3> QED
      BY <1>7, <3>1
  <2> QED
    BY <2>1, <2>2, <2>3
<1>10. GreatestBy(e, S, f, g, h)
  BY <1>8, <1>9 DEF GreatestBy
<1> QED
  BY <1>10

(* The values of a function on a finite set are finitely many.              *)
LEMMA ValuesFinite ==
  ASSUME NEW S, IsFiniteSet(S), NEW f, f \in [S -> Int]
  PROVE  IsFiniteSet({f[x] : x \in S}) /\ {f[x] : x \in S} \in SUBSET Int
<1> DEFINE T == {f[x] : x \in S}
<1>1. f \in [S -> T] /\ \A t \in T : \E x \in S : f[x] = t
  OBVIOUS
<1>2. f \in Surjection(S, T)
  <2> HIDE DEF T
  <2> QED
    BY <1>1 DEF Surjection
<1>3. IsFiniteSet(T)
  BY <1>2, FS_Surjection
<1> QED
  BY <1>3

-----------------------------------------------------------------------------
(* Products and quotients                                                   *)

LEMMA TimesMonotoneInt ==
  ASSUME NEW i \in Int, NEW j \in Int, i <= j, NEW w \in Nat
  PROVE  i * w <= j * w /\ i * w \in Int /\ j * w \in Int
<1>1. (j - i) * w >= 0
  BY SMT
<1>2. j * w = i * w + (j - i) * w
  BY SMT
<1>3. i * w \in Int /\ j * w \in Int /\ (j - i) * w \in Int
  BY SMT
<1> QED
  BY <1>1, <1>2, <1>3

LEMMA QuotientBound ==
  ASSUME NEW x \in Int, NEW y \in Nat \ {0}
  PROVE  x \div y \in Int /\ (x \div y) * y <= x
BY SMT

LEMMA BelowQuotient ==
  ASSUME NEW x \in Int, NEW y \in Nat \ {0}, NEW a \in Int, a <= x \div y
  PROVE  a * y <= x
BY SMT

LEMMA AboveQuotient ==
  ASSUME NEW x \in Int, NEW y \in Nat \ {0}, NEW a \in Int, a * y <= x
  PROVE  a <= x \div y
BY SMT

LEMMA TimesOrder ==
  ASSUME NEW d \in Nat \ {0}, NEW x \in Int, NEW y \in Int
  PROVE  /\ d * x \in Int /\ d * y \in Int
         /\ d * x <= d * y <=> x <= y
<1>1. d * x \in Int /\ d * y \in Int /\ d * (y - x) \in Int
  BY SMT
<1>2. d * (y - x) = d * y - d * x
  BY SMT
<1>3. x <= y => d * (y - x) >= 0
  BY SMT
<1>4. ASSUME ~(x <= y) PROVE d * (y - x) < 0
  <2>1. d * (x - y) > 0
    BY <1>4, SMT
  <2>2. d * (x - y) = -(d * (y - x))
    BY SMT
  <2> QED
    BY <1>1, <2>1, <2>2
<1> QED
  BY <1>1, <1>2, <1>3, <1>4

(* Two numbers and two that are in proportion to them are in the same order. *)
LEMMA ScaledOrder ==
  ASSUME NEW d \in Nat \ {0}, NEW e \in Nat \ {0},
         NEW x \in Int, NEW y \in Int, NEW x2 \in Int, NEW y2 \in Int,
         d * x2 = e * x, d * y2 = e * y
  PROVE  (x2 <= y2 <=> x <= y) /\ (x2 < y2 <=> x < y) /\ (x2 = y2 <=> x = y)
<1>1. d * x2 <= d * y2 <=> x2 <= y2
  BY TimesOrder
<1>2. d * y2 <= d * x2 <=> y2 <= x2
  BY TimesOrder
<1>3. e * x <= e * y <=> x <= y
  BY TimesOrder
<1>4. e * y <= e * x <=> y <= x
  BY TimesOrder
<1>5. (x2 <= y2 <=> x <= y) /\ (y2 <= x2 <=> y <= x)
  BY <1>1, <1>2, <1>3, <1>4, Zenon
<1> QED
  BY <1>5

-----------------------------------------------------------------------------
(* Sums over finite sets                                                    *)

(* f is the sum of the weights w over each set of D, a family of sets that  *)
(* has s without pick[s] for every s in D.                                  *)
SumsUp(f, D, w, pick) ==
  \A s \in D : f[s] = IF s = {} THEN 0 ELSE w[pick[s]] + f[s \ {pick[s]}]

Sums(f, D, w, pick) == f \in [D -> Nat] /\ SumsUp(f, D, w, pick)

(* A finite set has a sum, in whichever order its elements are picked.      *)
LEMMA SumExists ==
  ASSUME NEW I, IsFiniteSet(I), NEW w \in [I -> Nat],
         NEW pick, \A s \in SUBSET I : s # {} => pick[s] \in s
  PROVE  \E f : Sums(f, SUBSET I, w, pick)
<1> DEFINE Small(n) == {s \in SUBSET I : Cardinality(s) <= n}
           S == {n \in Nat : \E f : Sums(f, Small(n), w, pick)}
<1>1. \A s \in SUBSET I : /\ Cardinality(s) \in Nat /\ IsFiniteSet(s) /\ (Cardinality(s) = 0 <=> s = {})
                          /\ Cardinality(s) <= Cardinality(I)
  BY FS_Subset, FS_CardinalityType, FS_EmptySet
<1>2. ASSUME NEW s \in SUBSET I, s # {}
      PROVE  s \ {pick[s]} \in SUBSET I /\ Cardinality(s \ {pick[s]}) = Cardinality(s) - 1
  <2>1. pick[s] \in s /\ IsFiniteSet(s)
    BY <1>1, <1>2
  <2> QED
    BY <2>1, FS_RemoveElement
<1>3. 0 \in S
  <2>1. Small(0) = {{}}
    <3>1. \A s \in SUBSET I : Cardinality(s) <= 0 <=> s = {}
      BY <1>1
    <3> QED
      BY <3>1
  <2> DEFINE f == [s \in Small(0) |-> 0]
  <2>2. f \in [Small(0) -> Nat]
    OBVIOUS
  <2>3. \A s \in Small(0) : s = {} /\ f[s] = 0
    BY <2>1
  <2> HIDE DEF f, Small
  <2>4. \A s \in Small(0) : f[s] = IF s = {} THEN 0 ELSE w[pick[s]] + f[s \ {pick[s]}]
    BY <2>3, Zenon
  <2>5. Sums(f, Small(0), w, pick)
    BY <2>2, <2>4, Zenon DEF Sums, SumsUp
  <2> QED
    BY <2>5
<1>4. ASSUME NEW n \in Nat, n \in S PROVE n + 1 \in S
  <2>1. PICK f : Sums(f, Small(n), w, pick)
    BY <1>4
  <2>2. /\ f \in [Small(n) -> Nat]
        /\ \A s \in Small(n) : f[s] = IF s = {} THEN 0 ELSE w[pick[s]] + f[s \ {pick[s]}]
    BY <2>1, Zenon DEF Sums, SumsUp
  <2> DEFINE g == [s \in Small(n + 1) |->
                     IF Cardinality(s) <= n THEN f[s] ELSE w[pick[s]] + f[s \ {pick[s]}]]
  <2>3. ASSUME NEW s \in Small(n + 1), s # {}
        PROVE  s \ {pick[s]} \in Small(n) /\ s \ {pick[s]} \in Small(n + 1) /\ w[pick[s]] \in Nat
    <3>1. /\ s \in SUBSET I /\ Cardinality(s) <= n + 1 /\ Cardinality(s) \in Nat
          /\ s \ {pick[s]} \in SUBSET I /\ Cardinality(s \ {pick[s]}) = Cardinality(s) - 1
      BY <1>1, <1>2, <2>3
    <3>2. pick[s] \in I
      BY <2>3, <3>1
    <3> QED
      BY <3>1, <3>2
  <2>4. ASSUME NEW s \in Small(n + 1)
        PROVE  g[s] \in Nat /\ g[s] = IF s = {} THEN 0 ELSE w[pick[s]] + g[s \ {pick[s]}]
    <3>1. CASE s = {}
      <4>1. s \in Small(n) /\ Cardinality(s) <= n
        BY <1>1, <3>1
      <4>2. g[s] = f[s] /\ f[s] = 0
        BY <2>2, <3>1, <4>1
      <4> HIDE DEF g
      <4> QED
        BY <3>1, <4>2
    <3>2. CASE s # {}
      <4>1. PICK r : r = s \ {pick[s]}
        OBVIOUS
      <4>2. r \in Small(n) /\ r \in Small(n + 1) /\ w[pick[s]] \in Nat
        BY <2>3, <3>2, <4>1
      <4>3. g[r] = f[r] /\ f[r] \in Nat
        BY <2>2, <4>2
      <4>4. g[s] = w[pick[s]] + f[r]
        <5>1. CASE Cardinality(s) <= n
          <6>1. s \in Small(n) /\ g[s] = f[s]
            BY <5>1
          <6>2. f[s] = w[pick[s]] + f[s \ {pick[s]}]
            BY <2>2, <3>2, <6>1, Zenon
          <6> QED
            BY <4>1, <6>1, <6>2, Zenon
        <5>2. CASE ~(Cardinality(s) <= n)
          <6>1. g[s] = w[pick[s]] + f[s \ {pick[s]}]
            BY <5>2
          <6> QED
            BY <4>1, <6>1, Zenon
        <5> QED
          BY <5>1, <5>2
      <4> HIDE DEF g, Small
      <4>5. g[s] \in Nat
        BY <4>2, <4>3, <4>4
      <4>6. g[s] = w[pick[s]] + g[s \ {pick[s]}]
        BY <4>1, <4>3, <4>4, Zenon
      <4> QED
        BY <3>2, <4>5, <4>6
    <3> QED
      BY <3>1, <3>2
  <2>5. g \in [Small(n + 1) -> Nat]
    <3>1. \A s \in Small(n + 1) : g[s] \in Nat
      BY <2>4
    <3> QED
      BY <3>1
  <2> HIDE DEF g, Small
  <2>6. Sums(g, Small(n + 1), w, pick)
    BY <2>4, <2>5, Zenon DEF Sums, SumsUp
  <2> QED
    BY <2>6
<1>5. PICK n \in Nat : n = Cardinality(I)
  BY FS_CardinalityType
<1>6. n \in S
  <2> HIDE DEF S
  <2> QED
    BY <1>3, <1>4, SetInduction
<1>7. Small(n) = SUBSET I
  BY <1>1, <1>5
<1> HIDE DEF Small
<1>8. PICK f : Sums(f, Small(n), w, pick)
  BY <1>6
<1>9. Sums(f, SUBSET I, w, pick)
  BY <1>7, <1>8
<1> QED
  BY <1>9

(* The recursion determines the sums.                                       *)
LEMMA SumUnique ==
  ASSUME NEW I, IsFiniteSet(I), NEW w, NEW pick, \A s \in SUBSET I : s # {} => pick[s] \in s,
         NEW f, SumsUp(f, SUBSET I, w, pick), NEW g, SumsUp(g, SUBSET I, w, pick)
  PROVE  \A s \in SUBSET I : f[s] = g[s]
<1> DEFINE S == {n \in Nat : \A s \in SUBSET I : Cardinality(s) = n => f[s] = g[s]}
<1>1. \A s \in SUBSET I : Cardinality(s) \in Nat /\ IsFiniteSet(s) /\ (Cardinality(s) = 0 <=> s = {})
  BY FS_Subset, FS_CardinalityType, FS_EmptySet
<1>2. 0 \in S
  <2> SUFFICES ASSUME NEW s \in SUBSET I, Cardinality(s) = 0 PROVE f[s] = g[s]
    OBVIOUS
  <2>1. s = {}
    BY <1>1
  <2>2. f[s] = 0 /\ g[s] = 0
    BY <2>1, Zenon DEF SumsUp
  <2> QED
    BY <2>2
<1>3. ASSUME NEW n \in Nat, n \in S PROVE n + 1 \in S
  <2> SUFFICES ASSUME NEW s \in SUBSET I, Cardinality(s) = n + 1 PROVE f[s] = g[s]
    OBVIOUS
  <2>1. s # {} /\ IsFiniteSet(s)
    BY <1>1
  <2>2. PICK r : r = s \ {pick[s]}
    OBVIOUS
  <2>3. pick[s] \in s
    BY <2>1
  <2>4. r \in SUBSET I /\ Cardinality(r) = n
    <3>1. PICK e : e = pick[s]
      OBVIOUS
    <3>2. e \in s /\ r = s \ {e}
      BY <2>2, <2>3, <3>1
    <3>3. Cardinality(s \ {e}) = Cardinality(s) - 1
      BY <2>1, <3>2, FS_RemoveElement
    <3> QED
      BY <3>2, <3>3
  <2>5. f[r] = g[r]
    BY <1>3, <2>4
  <2>6. f[s] = w[pick[s]] + f[r] /\ g[s] = w[pick[s]] + g[r]
    BY <2>1, <2>2, Zenon DEF SumsUp
  <2> QED
    BY <2>5, <2>6, Zenon
<1>4. \A n \in Nat : n \in S
  <2> HIDE DEF S
  <2> QED
    BY <1>2, <1>3, SetInduction
<1> QED
  BY <1>1, <1>4

(* F is the sum of w, whichever element is taken first.                     *)
Adds(F, D, w) ==
  /\ F \in [SUBSET D -> Nat] /\ F[{}] = 0
  /\ \A J \in SUBSET D : \A y \in J : F[J] = w[y] + F[J \ {y}]

LEMMA SmallerSets ==
  ASSUME NEW D, IsFiniteSet(D), NEW J \in SUBSET D
  PROVE  /\ IsFiniteSet(J) /\ Cardinality(J) \in Nat /\ (Cardinality(J) = 0 <=> J = {})
         /\ \A y \in J : J \ {y} \in SUBSET D /\ Cardinality(J \ {y}) = Cardinality(J) - 1
<1>1. IsFiniteSet(J) /\ Cardinality(J) \in Nat /\ (Cardinality(J) = 0 <=> J = {})
  BY FS_Subset, FS_CardinalityType, FS_EmptySet
<1>2. ASSUME NEW y \in J PROVE J \ {y} \in SUBSET D /\ Cardinality(J \ {y}) = Cardinality(J) - 1
  BY <1>1, FS_RemoveElement
<1> QED
  BY <1>1, <1>2

LEMMA SumAnyOrder ==
  ASSUME NEW D, IsFiniteSet(D), NEW w \in [D -> Nat],
         NEW pick, \A s \in SUBSET D : s # {} => pick[s] \in s,
         NEW F, Sums(F, SUBSET D, w, pick)
  PROVE  Adds(F, D, w)
<1>1. F \in [SUBSET D -> Nat] /\ \A s \in SUBSET D : F[s] = IF s = {} THEN 0 ELSE w[pick[s]] + F[s \ {pick[s]}]
  BY Zenon DEF Sums, SumsUp
<1> DEFINE S == {n \in Nat : \A J \in SUBSET D : Cardinality(J) = n =>
                               \A y \in J : F[J] = w[y] + F[J \ {y}]}
<1>2. 0 \in S
  <2> SUFFICES ASSUME NEW J \in SUBSET D, Cardinality(J) = 0, NEW y \in J PROVE FALSE
    OBVIOUS
  <2> QED
    BY SmallerSets
<1>3. ASSUME NEW n \in Nat, n \in S PROVE n + 1 \in S
  <2> SUFFICES ASSUME NEW J \in SUBSET D, Cardinality(J) = n + 1, NEW y \in J
               PROVE  F[J] = w[y] + F[J \ {y}]
    OBVIOUS
  <2>1. PICK x : x = pick[J]
    OBVIOUS
  <2>2. x \in J /\ F[J] = w[x] + F[J \ {x}]
    <3>1. J # {}
      OBVIOUS
    <3> QED
      BY <1>1, <2>1, <3>1, Zenon
  <2>3. CASE x = y
    BY <2>2, <2>3
  <2>4. CASE x # y
    <3>1. PICK A : A = J \ {x}
      OBVIOUS
    <3>2. PICK B : B = J \ {y}
      OBVIOUS
    <3>3. PICK C : C = J \ {x, y}
      OBVIOUS
    <3>4. A \in SUBSET D /\ B \in SUBSET D /\ C \in SUBSET D /\ y \in A /\ x \in B
      BY <2>2, <2>4, <3>1, <3>2, <3>3
    <3>5. Cardinality(A) = n /\ Cardinality(B) = n
      <4>1. \A z \in J : Cardinality(J \ {z}) = Cardinality(J) - 1
        BY SmallerSets
      <4>2. Cardinality(A) = (n + 1) - 1 /\ Cardinality(B) = (n + 1) - 1
        BY <2>2, <3>1, <3>2, <4>1
      <4> QED
        BY <4>2
    <3>6. A \ {y} = C /\ B \ {x} = C
      BY <3>1, <3>2, <3>3
    <3>7. F[A] = w[y] + F[A \ {y}] /\ F[B] = w[x] + F[B \ {x}]
      BY <1>3, <3>4, <3>5
    <3>8. F[A] = w[y] + F[C] /\ F[B] = w[x] + F[C]
      BY <3>6, <3>7, Zenon
    <3>9. F[C] \in Nat /\ w[x] \in Nat /\ w[y] \in Nat
      BY <1>1, <2>2, <3>4
    <3>10. F[J] = w[x] + F[A]
      BY <2>2, <3>1, Zenon
    <3>11. F[J] = w[y] + F[B]
      BY <3>8, <3>9, <3>10
    <3> QED
      BY <3>2, <3>11, Zenon
  <2> QED
    BY <2>3, <2>4
<1>4. \A n \in Nat : n \in S
  <2> HIDE DEF S
  <2> QED
    BY <1>2, <1>3, SetInduction
<1>5. \A J \in SUBSET D : \A y \in J : F[J] = w[y] + F[J \ {y}]
  <2>1. \A J \in SUBSET D : Cardinality(J) \in Nat
    BY SmallerSets
  <2> QED
    BY <1>4, <2>1
<1>6. F[{}] = 0
  <2>1. {} \in SUBSET D
    OBVIOUS
  <2> QED
    BY <1>1, <2>1, Zenon
<1> QED
  BY <1>1, <1>5, <1>6, Zenon DEF Adds

LEMMA SumOfUnion ==
  ASSUME NEW D, IsFiniteSet(D), NEW w \in [D -> Nat], NEW F, Adds(F, D, w),
         NEW A \in SUBSET D, NEW B \in SUBSET D, A \cap B = {}
  PROVE  F[A \union B] = F[A] + F[B]
<1>1. F \in [SUBSET D -> Nat] /\ F[{}] = 0 /\ \A J \in SUBSET D : \A y \in J : F[J] = w[y] + F[J \ {y}]
  BY Zenon DEF Adds
<1> DEFINE S == {n \in Nat : \A J \in SUBSET D : Cardinality(J) = n /\ J \cap B = {} =>
                               F[J \union B] = F[J] + F[B]}
<1>2. 0 \in S
  <2> SUFFICES ASSUME NEW J \in SUBSET D, Cardinality(J) = 0 PROVE F[J \union B] = F[J] + F[B]
    OBVIOUS
  <2>1. J = {}
    BY SmallerSets
  <2>2. PICK U : U = J \union B
    OBVIOUS
  <2>3. U = B /\ F[J] = 0
    BY <1>1, <2>1, <2>2
  <2>4. F[U] = F[J] + F[B]
    BY <1>1, <2>3
  <2> QED
    BY <2>2, <2>4, Zenon
<1>3. ASSUME NEW n \in Nat, n \in S PROVE n + 1 \in S
  <2> SUFFICES ASSUME NEW J \in SUBSET D, Cardinality(J) = n + 1, J \cap B = {}
               PROVE  F[J \union B] = F[J] + F[B]
    OBVIOUS
  <2>1. J # {}
    BY SmallerSets
  <2>2. PICK y \in J : TRUE
    BY <2>1
  <2>3. PICK K : K = J \ {y}
    OBVIOUS
  <2>4. K \in SUBSET D /\ Cardinality(K) = n
    BY <2>3, SmallerSets
  <2>5. K \cap B = {}
    BY <2>3
  <2>6. F[K \union B] = F[K] + F[B]
    BY <1>3, <2>4, <2>5
  <2>7. F[J] = w[y] + F[K]
    BY <1>1, <2>3, Zenon
  <2>8. J \union B \in SUBSET D /\ y \in J \union B /\ (J \union B) \ {y} = K \union B
    BY <2>3
  <2>9. F[J \union B] = w[y] + F[K \union B]
    <3>1. PICK U : U = J \union B
      OBVIOUS
    <3>2. PICK V : V = K \union B
      OBVIOUS
    <3>3. U \in SUBSET D /\ y \in U /\ U \ {y} = V
      BY <2>8, <3>1, <3>2
    <3>4. F[U] = w[y] + F[U \ {y}]
      BY <1>1, <3>3
    <3> QED
      BY <3>1, <3>2, <3>3, <3>4, Zenon
  <2>10. F[K] \in Nat /\ F[B] \in Nat /\ w[y] \in Nat
    BY <1>1, <2>4
  <2> QED
    BY <2>6, <2>7, <2>9, <2>10
<1>4. \A n \in Nat : n \in S
  <2> HIDE DEF S
  <2> QED
    BY <1>2, <1>3, SetInduction
<1>5. Cardinality(A) \in Nat
  BY SmallerSets
<1> QED
  BY <1>4, <1>5

(* The sums G of v and F of w are over weights in the proportion b to a.    *)
Proportional(D, a, v, G, b, w, F) ==
  /\ v \in [D -> Nat] /\ Adds(G, D, v) /\ a \in Nat
  /\ w \in [D -> Nat] /\ Adds(F, D, w) /\ b \in Nat
  /\ \A i \in D : a * v[i] = b * w[i]

(* Sums of weights in a fixed proportion are in that proportion.            *)
LEMMA SumScaled ==
  ASSUME NEW D, IsFiniteSet(D), NEW w, NEW F, NEW v, NEW G, NEW a, NEW b,
         Proportional(D, a, v, G, b, w, F), NEW A \in SUBSET D
  PROVE  a * G[A] = b * F[A]
<1>1. F \in [SUBSET D -> Nat] /\ F[{}] = 0 /\ \A J \in SUBSET D : \A y \in J : F[J] = w[y] + F[J \ {y}]
  BY Zenon DEF Adds, Proportional
<1>2. G \in [SUBSET D -> Nat] /\ G[{}] = 0 /\ \A J \in SUBSET D : \A y \in J : G[J] = v[y] + G[J \ {y}]
  BY Zenon DEF Adds, Proportional
<1>3. w \in [D -> Nat] /\ v \in [D -> Nat] /\ a \in Nat /\ b \in Nat
  BY Zenon DEF Proportional
<1> DEFINE S == {n \in Nat : \A J \in SUBSET D : Cardinality(J) = n => a * G[J] = b * F[J]}
<1>4. 0 \in S
  <2> SUFFICES ASSUME NEW J \in SUBSET D, Cardinality(J) = 0 PROVE a * G[J] = b * F[J]
    OBVIOUS
  <2>1. J = {}
    BY SmallerSets
  <2>2. F[J] = 0 /\ G[J] = 0
    BY <1>1, <1>2, <2>1
  <2> QED
    BY <1>3, <2>2
<1>5. ASSUME NEW n \in Nat, n \in S PROVE n + 1 \in S
  <2> SUFFICES ASSUME NEW J \in SUBSET D, Cardinality(J) = n + 1 PROVE a * G[J] = b * F[J]
    OBVIOUS
  <2>1. J # {}
    BY SmallerSets
  <2>2. PICK y \in J : TRUE
    BY <2>1
  <2>3. PICK K : K = J \ {y}
    OBVIOUS
  <2>4. K \in SUBSET D /\ Cardinality(K) = n
    BY <2>3, SmallerSets
  <2>5. a * G[K] = b * F[K] /\ a * v[y] = b * w[y]
    BY <1>5, <2>4 DEF Proportional
  <2>6. F[J] = w[y] + F[K]
    BY <1>1, <2>3, Zenon
  <2>7. G[J] = v[y] + G[K]
    BY <1>2, <2>3, Zenon
  <2>8. F[K] \in Nat /\ G[K] \in Nat /\ w[y] \in Nat /\ v[y] \in Nat
    BY <1>1, <1>2, <1>3, <2>4
  <2>9. a * (v[y] + G[K]) = a * v[y] + a * G[K] /\ b * (w[y] + F[K]) = b * w[y] + b * F[K]
    BY <1>3, <2>8
  <2> QED
    BY <1>3, <2>5, <2>6, <2>7, <2>9
<1>6. \A n \in Nat : n \in S
  <2> HIDE DEF S
  <2> QED
    BY <1>4, <1>5, SetInduction
<1>7. Cardinality(A) \in Nat
  BY SmallerSets
<1> QED
  BY <1>6, <1>7

=============================================================================
