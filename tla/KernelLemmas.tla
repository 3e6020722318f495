---------------------------- MODULE KernelLemmas ----------------------------
(***************************************************************************)
(* What the proofs about the kernels share.  First numbers and finite sets: *)
(* least elements and induction, sizes of unions, sums over bins, and the   *)
(* one step of a radix selection.  Then the rings of stages.                *)
(***************************************************************************)
EXTENDS MBarrier, FiniteSets, FiniteSetsExt, Functions,
        TLAPS, FiniteSetTheorems, NaturalsInduction, WellFoundedInduction

\* A set of numbers has a least one.
LEMMA HasLeast ==
  ASSUME NEW S \in SUBSET Nat, S # {}
  PROVE  \E x \in S : \A y \in S : x <= y
<1> DEFINE less == {p \in Nat \X Nat : p[1] < p[2]}
<1>1. IsWellFoundedOn(less, Nat)
  BY NatLessThanWellFounded DEF OpToRel
<1>2. \A y, x \in Nat : <<y, x>> \in less <=> y < x
  OBVIOUS
<1> HIDE DEF less
<1>3. PICK x \in S : \A y \in S : ~(<<y, x>> \in less)
  BY <1>1, WFMin
<1>4. \A y \in S : x <= y
  <2> TAKE y \in S
  <2>1. y \in Nat /\ x \in Nat /\ ~(y < x)
    BY <1>2, <1>3
  <2> QED BY <2>1
<1> QED BY <1>4

\* Induction over a set of numbers.
LEMMA NatSetInduction ==
  ASSUME NEW S, 0 \in S, \A n \in Nat : n \in S => n + 1 \in S
  PROVE  \A n \in Nat : n \in S
<1> SUFFICES ASSUME NEW n \in Nat, n \notin S PROVE FALSE
  OBVIOUS
<1>1. PICK x \in Nat \ S : \A y \in Nat \ S : x <= y
  BY HasLeast
<1>2. x # 0 /\ x - 1 \in Nat /\ x - 1 \notin S
  OBVIOUS
<1> QED BY <1>1, <1>2

\* The image of a finite set is finite.
LEMMA ImageIsFinite ==
  ASSUME NEW f, f = [x \in DOMAIN f |-> f[x]], IsFiniteSet(DOMAIN f)
  PROVE  IsFiniteSet(Range(f))
<1>1. f \in Surjection(DOMAIN f, Range(f))
  BY DEF Surjection, Range
<1> QED BY <1>1, FS_Surjection

\* An interval of numbers is finite, and how large.
LEMMA IntervalSize ==
  ASSUME NEW n \in Nat
  PROVE  /\ IsFiniteSet(1 .. n) /\ Cardinality(1 .. n) = n
         /\ IsFiniteSet(0 .. n - 1) /\ Cardinality(0 .. n - 1) = n
BY FS_Interval

\* The numbers from 1 to n are finitely many.
LEMMA NumbersAreFinite ==
  ASSUME NEW n \in Nat
  PROVE  IsFiniteSet(1 .. n)
BY FS_Interval

---------------------------------------------------------------------------
(* Sums over disjoint sets.                                                 *)

\* What adds up the sizes of disjoint sets, one after another, is the size of
\* their union.
UnionOver(s, A) == UNION {A[x] : x \in s}
SizeOver(L, A)  == [s \in SUBSET L |-> Cardinality(UnionOver(s, A))]
Adds(it, L, A)  ==
  \A s \in SUBSET L :
    LET x == CHOOSE x \in s : TRUE
    IN  IF s = {} THEN it[s] = 0
        ELSE \/ it[s] = it[s \ {x}] + Cardinality(A[x])
             \/ it[s] = Cardinality(A[x]) + it[s \ {x}]
SizesAdd(it, L, A) ==
  /\ it[{}] = 0
  /\ \A s \in SUBSET L : s # {} =>
       LET x == CHOOSE x \in s : TRUE
       IN  /\ x \in s /\ s \ {x} \in SUBSET L
           /\ it[s \ {x}] \in Nat /\ Cardinality(A[x]) \in Nat
           /\ it[s] = it[s \ {x}] + Cardinality(A[x])

LEMMA DisjointSum ==
  ASSUME NEW L, IsFiniteSet(L), NEW A, \A x \in L : IsFiniteSet(A[x]),
         \A x, y \in L : x # y => A[x] \cap A[y] = {}
  PROVE  /\ SizesAdd(SizeOver(L, A), L, A)
         /\ \A it : Adds(it, L, A) => it[L] = Cardinality(UnionOver(L, A))
<1> DEFINE one(s) == CHOOSE x \in s : TRUE
           U(s) == UnionOver(s, A)
           w == SizeOver(L, A)
<1>1. \A s \in SUBSET L : s # {} => one(s) \in s /\ s \ {one(s)} \in SUBSET L
  OBVIOUS
<1>2. ASSUME NEW s \in SUBSET L PROVE IsFiniteSet(s) /\ IsFiniteSet(U(s)) /\ Cardinality(U(s)) \in Nat
  <2>1. IsFiniteSet(s)
    BY FS_Subset
  <2>2. IsFiniteSet({A[x] : x \in s})
    <3> DEFINE f == [x \in s |-> A[x]]
    <3>1. f = [x \in DOMAIN f |-> f[x]] /\ DOMAIN f = s
      OBVIOUS
    <3>2. {A[x] : x \in s} = Range(f)
      BY DEF Range
    <3> HIDE DEF f
    <3> QED BY <2>1, <3>1, <3>2, ImageIsFinite
  <2>3. IsFiniteSet(U(s))
    <3> DEFINE parts == {A[x] : x \in s}
    <3>1. \A T \in parts : IsFiniteSet(T)
      OBVIOUS
    <3>2. U(s) = UNION parts
      BY DEF UnionOver
    <3> HIDE DEF parts, U
    <3> QED BY <2>2, <3>1, <3>2, FS_UNION DEF parts
  <2> QED BY <2>1, <2>3, FS_CardinalityType
<1>3. ASSUME NEW s \in SUBSET L, NEW x \in s
      PROVE  Cardinality(U(s)) = Cardinality(U(s \ {x})) + Cardinality(A[x])
  <2>1. U(s) = U(s \ {x}) \cup A[x] /\ U(s \ {x}) \cap A[x] = {}
    BY DEF UnionOver
  <2>2. /\ IsFiniteSet(U(s \ {x})) /\ IsFiniteSet(A[x]) /\ Cardinality(A[x]) \in Nat
        /\ Cardinality(U(s \ {x})) \in Nat
    BY <1>2, FS_CardinalityType
  <2> HIDE DEF U
  <2>3. Cardinality(U(s \ {x}) \cap A[x]) = 0
    BY <2>1, FS_EmptySet
  <2>4. Cardinality(U(s \ {x}) \cup A[x])
          = Cardinality(U(s \ {x})) + Cardinality(A[x]) - Cardinality(U(s \ {x}) \cap A[x])
    BY <2>2, FS_Union
  <2> QED BY <2>1, <2>2, <2>3, <2>4
<1>4. U({}) = {} /\ Cardinality({}) = 0
  BY FS_EmptySet DEF UnionOver
<1>5. \A s \in SUBSET L : w[s] = Cardinality(U(s))
  BY DEF SizeOver
<1>6. \A x \in L : Cardinality(A[x]) \in Nat
  BY FS_CardinalityType
<1>7. ASSUME NEW it, Adds(it, L, A) PROVE it[L] = Cardinality(U(L))
  <2> DEFINE Bad == {n \in Nat : \E s \in SUBSET L : Cardinality(s) = n /\ it[s] # Cardinality(U(s))}
  <2>1. \A s \in SUBSET L :
          IF s = {} THEN it[s] = 0
          ELSE \/ it[s] = it[s \ {one(s)}] + Cardinality(A[one(s)])
               \/ it[s] = Cardinality(A[one(s)]) + it[s \ {one(s)}]
    BY <1>7 DEF Adds
  <2> HIDE DEF U
  <2>2. ASSUME Bad # {} PROVE FALSE
    <3>1. PICK n \in Bad : \A k \in Bad : n <= k
      <4>1. Bad \in SUBSET Nat
        OBVIOUS
      <4> HIDE DEF Bad
      <4> QED BY <4>1, <2>2, HasLeast
    <3>2. PICK s \in SUBSET L : Cardinality(s) = n /\ it[s] # Cardinality(U(s))
      BY <3>1
    <3>3. s # {}
      BY <3>2, <2>1, <1>4
    <3> HIDE DEF one
    <3>4. one(s) \in s /\ one(s) \in L /\ s \ {one(s)} \in SUBSET L
      BY <1>1, <3>3
    <3>5. it[s \ {one(s)}] # Cardinality(U(s \ {one(s)}))
      <4> DEFINE t == s \ {one(s)}
                 c == Cardinality(A[one(s)])
      <4>1. Cardinality(U(s)) = Cardinality(U(t)) + c
        BY <3>4, <1>3
      <4>2. Cardinality(U(t)) \in Nat /\ c \in Nat
        BY <3>4, <1>2, <1>6
      <4>3. it[s] = it[t] + c \/ it[s] = c + it[t]
        BY <3>3, <2>1
      <4> HIDE DEF t, c
      <4>4. it[t] = Cardinality(U(t)) => it[s] = Cardinality(U(s))
        BY <4>1, <4>2, <4>3
      <4> QED BY <4>4, <3>2 DEF t
    <3>6. Cardinality(s \ {one(s)}) = n - 1 /\ n \in Nat /\ n - 1 \in Nat
      <4>1. IsFiniteSet(s) /\ IsFiniteSet(s \ {one(s)})
        BY <1>2, <3>4
      <4> QED BY <4>1, <3>2, <3>4, FS_RemoveElement, FS_CardinalityType
    <3>7. n - 1 \in Bad
      BY <3>4, <3>5, <3>6
    <3> QED BY <3>1, <3>6, <3>7
  <2>3. Cardinality(L) \in Nat
    BY FS_CardinalityType
  <2> QED BY <2>2, <2>3
<1> HIDE DEF w, U
<1>8. w[{}] = 0
  BY <1>4, <1>5
<1>9. ASSUME NEW s \in SUBSET L, s # {}
      PROVE  /\ one(s) \in s /\ s \ {one(s)} \in SUBSET L
             /\ w[s \ {one(s)}] \in Nat /\ Cardinality(A[one(s)]) \in Nat
             /\ w[s] = w[s \ {one(s)}] + Cardinality(A[one(s)])
  <2> HIDE DEF one
  <2>1. one(s) \in s /\ one(s) \in L /\ s \ {one(s)} \in SUBSET L
    BY <1>1, <1>9
  <2> QED BY <2>1, <1>2, <1>3, <1>5, <1>6
<1>10. SizesAdd(w, L, A)
  BY <1>8, <1>9 DEF SizesAdd
<1> QED BY <1>7, <1>10 DEF w, U

\* The sum of a function over a set, of sizes of disjoint sets.
SumOver(h, L) == MapThenSumSet(LAMBDA x : h[x], L)

LEMMA SumOfSizes ==
  ASSUME NEW L, IsFiniteSet(L), NEW A, \A x \in L : IsFiniteSet(A[x]),
         \A x, y \in L : x # y => A[x] \cap A[y] = {},
         NEW h, \A x \in L : h[x] = Cardinality(A[x])
  PROVE  SumOver(h, L) = Cardinality(UnionOver(L, A))
<1> DEFINE Eq(it) == [s \in SUBSET L |-> IF s = {} THEN 0
                       ELSE LET x == CHOOSE x \in s : TRUE IN h[x] + it[s \ {x}]]
           iter == CHOOSE it : it = Eq(it)
           w == SizeOver(L, A)
<1>1. SumOver(h, L) = iter[L]
  BY DEF SumOver, MapThenSumSet, MapThenFoldSet
<1>2. /\ SizesAdd(w, L, A)
      /\ \A it : Adds(it, L, A) => it[L] = Cardinality(UnionOver(L, A))
  BY DisjointSum
<1>3. w = [s \in SUBSET L |-> w[s]]
  BY DEF SizeOver
<1> HIDE DEF w
<1>4. w = Eq(w)
  <2>1. \A s \in SUBSET L :
          w[s] = IF s = {} THEN 0 ELSE LET x == CHOOSE x \in s : TRUE IN h[x] + w[s \ {x}]
    <3> TAKE s \in SUBSET L
    <3>1. CASE s = {}
      BY <3>1, <1>2 DEF SizesAdd
    <3>2. CASE s # {}
      <4> DEFINE x == CHOOSE x \in s : TRUE
      <4>1. /\ x \in s /\ w[s \ {x}] \in Nat /\ Cardinality(A[x]) \in Nat
            /\ w[s] = w[s \ {x}] + Cardinality(A[x])
        BY <1>2, <3>2 DEF SizesAdd
      <4> HIDE DEF x
      <4>2. h[x] = Cardinality(A[x])
        BY <4>1
      <4>3. w[s] = h[x] + w[s \ {x}]
        BY <4>1, <4>2
      <4> QED BY <3>2, <4>3 DEF x
    <3> QED BY <3>1, <3>2
  <2> QED BY <1>3, <2>1
<1>5. iter = Eq(iter)
  <2> HIDE DEF Eq
  <2> QED BY <1>4
<1> HIDE DEF iter
<1>6. Adds(iter, L, A)
  <2>1. \A s \in SUBSET L :
          iter[s] = IF s = {} THEN 0 ELSE LET x == CHOOSE x \in s : TRUE IN h[x] + iter[s \ {x}]
    BY <1>5
  <2>2. \A s \in SUBSET L : s # {} => (CHOOSE x \in s : TRUE) \in L
    OBVIOUS
  <2> QED BY <2>1, <2>2 DEF Adds
<1> QED BY <1>1, <1>2, <1>6

---------------------------------------------------------------------------
(* Powers, as a recursive function: there is one with these equations.       *)

LEMMA PowersOf ==
  ASSUME NEW R \in Nat \ {0},
         NEW f, f = CHOOSE g : g = [d \in Nat |-> IF d = 0 THEN 1 ELSE R * g[d - 1]]
  PROVE  /\ f[0] = 1
         /\ \A d \in Nat : f[d] \in Nat \ {0} /\ f[d + 1] = R * f[d]
<1> DEFINE Pow(g, n) == /\ g \in [0 .. n -> Nat \ {0}] /\ g[0] = 1
                        /\ \A i \in 0 .. n - 1 : g[i + 1] = R * g[i]
           some(n) == CHOOSE g : Pow(g, n)
           w == [d \in Nat |-> some(d)[d]]
           Eq(g) == [d \in Nat |-> IF d = 0 THEN 1 ELSE R * g[d - 1]]
<1>1. \A x \in Nat \ {0} : R * x \in Nat \ {0}
  BY Z3
<1>2. \A n \in Nat : Pow(some(n), n)
  <2> DEFINE S == {n \in Nat : \E g : Pow(g, n)}
  <2>1. 0 \in S
    <3>1. Pow([i \in 0 .. 0 |-> 1], 0)
      OBVIOUS
    <3> HIDE DEF Pow
    <3> QED BY <3>1
  <2>2. ASSUME NEW n \in Nat, n \in S PROVE n + 1 \in S
    <3>1. PICK g : Pow(g, n)
      BY <2>2
    <3> DEFINE h == [i \in 0 .. n + 1 |-> IF i = n + 1 THEN R * g[n] ELSE g[i]]
    <3>2. h \in [0 .. n + 1 -> Nat \ {0}] /\ h[0] = 1
      BY <3>1, <1>1
    <3>3. ASSUME NEW i \in 0 .. n PROVE h[i + 1] = R * h[i]
      <4>1. CASE i = n
        BY <4>1
      <4>2. CASE i # n
        <5>1. i \in 0 .. n - 1 /\ i + 1 # n + 1 /\ i + 1 \in 0 .. n + 1 /\ i \in 0 .. n + 1 /\ i # n + 1
          BY <4>2
        <5>2. h[i + 1] = g[i + 1] /\ h[i] = g[i]
          BY <5>1
        <5>3. g[i + 1] = R * g[i]
          BY <5>1, <3>1
        <5> QED BY <5>2, <5>3
      <4> QED BY <4>1, <4>2
    <3> HIDE DEF h
    <3>4. Pow(h, n + 1)
      <4>1. n + 1 - 1 = n
        OBVIOUS
      <4> QED BY <3>2, <3>3, <4>1
    <3> HIDE DEF Pow
    <3> QED BY <3>4
  <2>3. \A n \in Nat : n \in S
    <3> HIDE DEF S
    <3> QED BY <2>1, <2>2, NatSetInduction
  <2> HIDE DEF Pow
  <2> QED BY <2>3
<1>3. ASSUME NEW g, NEW h, NEW m \in Nat, NEW n \in Nat, Pow(g, m), Pow(h, n)
      PROVE  \A i \in Nat : i <= m /\ i <= n => g[i] = h[i]
  <2> DEFINE S == {i \in Nat : i <= m /\ i <= n => g[i] = h[i]}
  <2>1. 0 \in S
    BY <1>3
  <2>2. ASSUME NEW i \in Nat, i \in S PROVE i + 1 \in S
    <3> SUFFICES ASSUME i + 1 <= m, i + 1 <= n PROVE g[i + 1] = h[i + 1]
      OBVIOUS
    <3>1. i \in 0 .. m - 1 /\ i \in 0 .. n - 1
      OBVIOUS
    <3> QED BY <3>1, <2>2, <1>3
  <2>3. \A i \in Nat : i \in S
    <3> HIDE DEF S
    <3> QED BY <2>1, <2>2, NatSetInduction
  <2> QED BY <2>3
<1> HIDE DEF some
<1>4. w[0] = 1 /\ \A d \in Nat : w[d + 1] = R * w[d]
  <2>1. \A d \in Nat : w[d] = some(d)[d]
    OBVIOUS
  <2> HIDE DEF w
  <2>2. w[0] = 1
    <3>1. Pow(some(0), 0) /\ w[0] = some(0)[0]
      BY <2>1, <1>2
    <3> QED BY <3>1
  <2>3. ASSUME NEW d \in Nat PROVE w[d + 1] = R * w[d]
    <3>1. Pow(some(d + 1), d + 1) /\ Pow(some(d), d) /\ d + 1 \in Nat
      BY <1>2
    <3>2. some(d + 1)[d + 1] = R * some(d + 1)[d]
      BY <3>1
    <3>3. some(d + 1)[d] = some(d)[d]
      <4> HIDE DEF Pow
      <4>1. d <= d + 1 /\ d <= d
        OBVIOUS
      <4> QED BY <3>1, <4>1, <1>3
    <3> QED BY <2>1, <3>1, <3>2, <3>3
  <2> QED BY <2>2, <2>3
<1>5. w = Eq(w)
  <2>1. w = [d \in Nat |-> w[d]]
    OBVIOUS
  <2> HIDE DEF w
  <2>2. \A d \in Nat : w[d] = IF d = 0 THEN 1 ELSE R * w[d - 1]
    <3> SUFFICES ASSUME NEW d \in Nat, d # 0 PROVE w[d] = R * w[d - 1]
      BY <1>4
    <3>1. d - 1 \in Nat /\ (d - 1) + 1 = d
      OBVIOUS
    <3>2. w[(d - 1) + 1] = R * w[d - 1]
      BY <3>1, <1>4
    <3> QED BY <3>1, <3>2
  <2> QED BY <2>1, <2>2
<1>6. f = Eq(f)
  <2>1. f = CHOOSE g : g = Eq(g)
    OBVIOUS
  <2> HIDE DEF w, Eq
  <2> QED BY <2>1, <1>5
<1>7. f[0] = 1 /\ \A d \in Nat : f[d + 1] = R * f[d]
  <2>1. \A d \in Nat : f[d] = IF d = 0 THEN 1 ELSE R * f[d - 1]
    BY <1>6
  <2>2. ASSUME NEW d \in Nat PROVE f[d + 1] = R * f[d]
    <3>1. d + 1 \in Nat /\ d + 1 # 0 /\ (d + 1) - 1 = d
      OBVIOUS
    <3>2. f[d + 1] = R * f[(d + 1) - 1]
      BY <2>1, <3>1
    <3> QED BY <3>1, <3>2
  <2> QED BY <2>1, <2>2
<1>8. \A d \in Nat : f[d] \in Nat \ {0}
  <2> DEFINE S == {d \in Nat : f[d] \in Nat \ {0}}
  <2>1. 0 \in S
    BY <1>7
  <2>2. ASSUME NEW d \in Nat, d \in S PROVE d + 1 \in S
    <3>1. f[d] \in Nat \ {0} /\ f[d + 1] = R * f[d]
      BY <2>2, <1>7
    <3>2. R * f[d] \in Nat \ {0}
      BY <3>1, <1>1
    <3> QED BY <3>1, <3>2
  <2>3. \A d \in Nat : d \in S
    <3> HIDE DEF S
    <3> QED BY <2>1, <2>2, NatSetInduction
  <2> QED BY <2>3
<1> QED BY <1>7, <1>8

---------------------------------------------------------------------------
(* One round of a radix selection.                                          *)

LEMMA DivUnique ==
  ASSUME NEW a \in Int, NEW d \in Nat \ {0}, NEW q \in Int, NEW o \in 0 .. d - 1, a = q * d + o
  PROVE  a \div d = q /\ a % d = o
OBVIOUS

LEMMA DivFloor ==
  ASSUME NEW x \in Nat, NEW w \in Nat \ {0}
  PROVE  /\ x \div w \in Nat /\ x % w \in 0 .. w - 1
         /\ x = (x \div w) * w + (x % w)
<1>1. x \div w \in Nat /\ x % w \in 0 .. w - 1
  OBVIOUS
<1>2. x = w * (x \div w) + (x % w)
  BY Z3
<1>3. w * (x \div w) = (x \div w) * w
  BY <1>1, Z3
<1> QED BY <1>1, <1>2, <1>3

LEMMA DivMonotone ==
  ASSUME NEW x \in Nat, NEW y \in Nat, NEW w \in Nat \ {0}, x <= y
  PROVE  x \div w <= y \div w
<1> DEFINE p == x \div w
           q == y \div w
           m == x % w
           n == y % w
<1>1. /\ p \in Nat /\ q \in Nat /\ m \in 0 .. w - 1 /\ n \in 0 .. w - 1
      /\ x = p * w + m /\ y = q * w + n
  BY DivFloor
<1> HIDE DEF p, q, m, n
<1>2. SUFFICES ASSUME q < p PROVE FALSE
  BY <1>1 DEF p, q
<1>3. p - q - 1 \in Nat /\ (p - q - 1) * w \in Nat
  BY <1>1, <1>2
<1>4. p * w = q * w + w + (p - q - 1) * w
  BY <1>1, Z3
<1> QED BY <1>1, <1>3, <1>4

\* A digit: dividing by one weight, and by the next.
LEMMA DigitSplits ==
  ASSUME NEW x \in Nat, NEW w \in Nat \ {0}, NEW R \in Nat \ {0}
  PROVE  /\ R * w \in Nat \ {0} /\ x \div w \in Nat /\ x \div (R * w) \in Nat
         /\ (x \div w) % R \in 0 .. R - 1
         /\ x \div w = (x \div (R * w)) * R + ((x \div w) % R)
<1> DEFINE y == x \div w
           m == x % w
           p == y \div R
           e == y % R
<1>1. y \in Nat /\ m \in 0 .. w - 1 /\ x = y * w + m
  BY DivFloor
<1>2. p \in Nat /\ e \in 0 .. R - 1 /\ y = p * R + e
  <2> HIDE DEF y
  <2> QED BY <1>1, DivFloor
<1>0. x \div w = y /\ y % R = e
  OBVIOUS
<1> HIDE DEF y, m, p, e
<1>3. R * w \in Nat \ {0}
  BY Z3
<1>4. e * w + m \in 0 .. R * w - 1
  <2>1. R - 1 - e \in Nat /\ (R - 1 - e) * w \in Nat /\ e * w \in Nat
    BY <1>2
  <2>2. R * w = e * w + w + (R - 1 - e) * w
    BY <1>2, Z3
  <2> QED BY <1>1, <2>1, <2>2
<1>5. x = p * (R * w) + (e * w + m)
  BY <1>1, <1>2, Z3
<1>6. x \div (R * w) = p
  <2> DEFINE v == R * w
             o == e * w + m
  <2>1. v \in Nat \ {0} /\ o \in 0 .. v - 1 /\ x = p * v + o /\ p \in Int /\ x \in Int
    BY <1>2, <1>3, <1>4, <1>5
  <2> HIDE DEF v, o
  <2>2. x \div v = p
    BY <2>1, DivUnique
  <2> QED BY <2>2 DEF v
<1> QED BY <1>0, <1>1, <1>2, <1>3, <1>6

\* The key of the rank: as many reach it, and fewer are above.  Of enough keys
\* there is one.
CutsAt(S, key, rank, t) ==
  /\ Cardinality({i \in S : key[i] >= t}) >= rank
  /\ Cardinality({i \in S : key[i] > t}) < rank

LEMMA CutExists ==
  ASSUME NEW S, IsFiniteSet(S), NEW key, \A i \in S : key[i] \in Nat,
         NEW rank \in Nat \ {0}, rank <= Cardinality(S),
         NEW bound \in Nat, \A i \in S : key[i] < bound
  PROVE  \E t \in Nat : t < bound /\ CutsAt(S, key, rank, t)
<1> DEFINE Reach(t) == {i \in S : key[i] >= t}
           Few == {t \in Nat : Cardinality(Reach(t + 1)) < rank}
<1>1. \A t : IsFiniteSet(Reach(t)) /\ Cardinality(Reach(t)) \in Nat
  BY FS_Subset, FS_CardinalityType
<1>2. Reach(0) = S
  OBVIOUS
<1>3. \A t \in Nat : t >= bound => Reach(t) = {}
  OBVIOUS
<1>4. bound \in Few
  <2>1. Reach(bound + 1) = {}
    BY <1>3
  <2> HIDE DEF Reach
  <2> QED BY <2>1, FS_EmptySet
<1>5. PICK t \in Few : \A u \in Few : t <= u
  <2>1. Few \in SUBSET Nat /\ Few # {}
    BY <1>4
  <2> HIDE DEF Few
  <2> QED BY <2>1, HasLeast
<1>6. t \in Nat /\ Cardinality(Reach(t + 1)) < rank
  BY <1>5
<1>7. Cardinality(Reach(t)) >= rank
  <2>1. CASE t = 0
    BY <2>1, <1>2
  <2>2. CASE t # 0
    <3>1. t - 1 \in Nat /\ t - 1 \notin Few /\ (t - 1) + 1 = t
      <4> HIDE DEF Few
      <4> QED BY <2>2, <1>5, <1>6
    <3>2. ~(Cardinality(Reach((t - 1) + 1)) < rank)
      BY <3>1
    <3> HIDE DEF Reach
    <3> QED BY <3>1, <3>2, <1>1
  <2> QED BY <2>1, <2>2
<1>8. t < bound
  <2>1. SUFFICES ASSUME t >= bound PROVE FALSE
    BY <1>6
  <2>2. Reach(t) = {}
    BY <2>1, <1>3, <1>6
  <2> QED BY <2>2, <1>7, FS_EmptySet
<1>9. {i \in S : key[i] > t} = Reach(t + 1)
  BY <1>6
<1> QED BY <1>6, <1>7, <1>8, <1>9 DEF CutsAt

\* The bin of a rank.  The keys of S that agree with t above a digit of weight
\* w are counted by that digit; t is the key of the rank.  Then the bins above
\* t's digit count what is above t up to this digit and not above it before,
\* and t's digit is the only bin that holds the rank.
KeysOf(S, key, v, t) == {i \in S : key[i] \div v > t \div v}
BucketOf(S, key, w, R, t, b) ==
  {i \in S : key[i] \div (R * w) = t \div (R * w) /\ (key[i] \div w) % R = b}

RankIsAt(S, key, w, R, t, rank, h) ==
  LET before == Cardinality(KeysOf(S, key, R * w, t))
      digit  == (t \div w) % R
  IN  /\ before \in Nat /\ digit \in 0 .. R - 1
      /\ SumOver(h, digit + 1 .. R - 1) = Cardinality(KeysOf(S, key, w, t)) - before
      /\ \A b \in 0 .. R - 1 :
           /\ SumOver(h, b + 1 .. R - 1) \in Nat /\ h[b] \in Nat
           /\ SumOver(h, b + 1 .. R - 1) < rank - before
              /\ rank - before <= SumOver(h, b + 1 .. R - 1) + h[b]
              <=> b = digit

LEMMA RankBin ==
  ASSUME NEW S, IsFiniteSet(S), NEW key, \A i \in S : key[i] \in Nat,
         NEW w \in Nat \ {0}, NEW R \in Nat \ {0}, NEW t \in Nat, NEW rank \in Nat,
         CutsAt(S, key, rank, t),
         NEW h, \A b \in 0 .. R - 1 : h[b] = Cardinality(BucketOf(S, key, w, R, t, b))
  PROVE  RankIsAt(S, key, w, R, t, rank, h)
<1> DEFINE v == R * w
           digit == (t \div w) % R
           Over == KeysOf(S, key, v, t)
           A == [b \in 0 .. R - 1 |-> BucketOf(S, key, w, R, t, b)]
           Up(b) == Over \cup UnionOver(b + 1 .. R - 1, A)
<1>1. /\ v \in Nat \ {0} /\ digit \in 0 .. R - 1
      /\ t \div w = (t \div v) * R + digit /\ t \div v \in Nat /\ t \div w \in Nat
  BY DigitSplits
<1>2. \A i \in S : /\ key[i] \div w = (key[i] \div v) * R + ((key[i] \div w) % R)
                   /\ key[i] \div v \in Nat /\ key[i] \div w \in Nat
                   /\ (key[i] \div w) % R \in 0 .. R - 1
  <2> TAKE i \in S
  <2>1. key[i] \in Nat
    OBVIOUS
  <2> QED BY <2>1, DigitSplits
<1>3. \A i \in S : /\ key[i] \div v > t \div v => key[i] \div w > t \div w
                   /\ key[i] \div v = t \div v =>
                        (key[i] \div w) - (t \div w) = ((key[i] \div w) % R) - digit
                   /\ key[i] \div w > t \div w => key[i] \div v >= t \div v
  <2> TAKE i \in S
  <2> DEFINE kw == key[i] \div w
             kv == key[i] \div v
             kd == (key[i] \div w) % R
             tw == t \div w
             tv == t \div v
  <2>1. /\ kw = kv * R + kd /\ kv \in Nat /\ kw \in Nat /\ kd \in 0 .. R - 1
        /\ tw = tv * R + digit /\ tv \in Nat /\ tw \in Nat /\ digit \in 0 .. R - 1
    BY <1>1, <1>2
  <2> HIDE DEF kw, kv, kd, tw, tv, digit
  <2>2. kv > tv => kw > tw
    <3>1. SUFFICES ASSUME kv > tv PROVE kw > tw
      OBVIOUS
    <3>2. kv - tv - 1 \in Nat /\ (kv - tv - 1) * R \in Nat
      BY <2>1, <3>1
    <3>3. kv * R = tv * R + R + (kv - tv - 1) * R
      BY <2>1, Z3
    <3>4. tv * R \in Nat
      BY <2>1
    <3> QED BY <2>1, <3>2, <3>3, <3>4
  <2>3. kw > tw => kv >= tv
    <3>1. SUFFICES ASSUME kv < tv PROVE kw < tw
      BY <2>1
    <3>2. tv - kv - 1 \in Nat /\ (tv - kv - 1) * R \in Nat
      BY <2>1, <3>1
    <3>3. tv * R = kv * R + R + (tv - kv - 1) * R
      BY <2>1, Z3
    <3>4. kv * R \in Nat
      BY <2>1
    <3> QED BY <2>1, <3>2, <3>3, <3>4
  <2>4. kv = tv => kw - tw = kd - digit
    <3>1. tv * R \in Nat
      BY <2>1
    <3> QED BY <2>1, <3>1
  <2> QED BY <2>2, <2>3, <2>4 DEF kw, kv, kd, tw, tv
<1>4. \A b \in 0 .. R - 1 : IsFiniteSet(A[b]) /\ A[b] = BucketOf(S, key, w, R, t, b) /\ h[b] = Cardinality(A[b])
  BY FS_Subset DEF BucketOf
<1>5. \A b, c \in 0 .. R - 1 : b # c => A[b] \cap A[c] = {}
  BY DEF BucketOf
<1>6. \A b \in -1 .. R - 1 :
        /\ IsFiniteSet(UnionOver(b + 1 .. R - 1, A)) /\ IsFiniteSet(Over)
        /\ Over \cap UnionOver(b + 1 .. R - 1, A) = {}
        /\ Cardinality(UnionOver(b + 1 .. R - 1, A)) \in Nat /\ Cardinality(Over) \in Nat
        /\ Cardinality(Up(b)) = Cardinality(Over) + Cardinality(UnionOver(b + 1 .. R - 1, A))
        /\ Cardinality(UnionOver(b + 1 .. R - 1, A)) = SumOver(h, b + 1 .. R - 1)
  <2> TAKE b \in -1 .. R - 1
  <2> DEFINE L == b + 1 .. R - 1
             V == UnionOver(L, A)
  <2>1. L \subseteq 0 .. R - 1 /\ IsFiniteSet(L)
    BY FS_Interval
  <2>2. V \subseteq S /\ Over \subseteq S /\ Over \cap V = {}
    <3>1. \A a \in L : A[a] \subseteq S /\ \A i \in A[a] : key[i] \div v = t \div v
      BY <2>1 DEF BucketOf
    <3>2. \A i \in V : \E a \in L : i \in A[a]
      BY DEF UnionOver
    <3>3. \A i \in Over : i \in S /\ ~(key[i] \div v = t \div v)
      BY <1>1, <1>2 DEF KeysOf
    <3> HIDE DEF L, V, Over, A, v
    <3> QED BY <3>1, <3>2, <3>3
  <2>3. IsFiniteSet(V) /\ IsFiniteSet(Over) /\ Cardinality(V) \in Nat /\ Cardinality(Over) \in Nat
    <3> HIDE DEF V, Over
    <3> QED BY <2>2, FS_Subset, FS_CardinalityType
  <2>4. Cardinality(Over \cup V) = Cardinality(Over) + Cardinality(V)
    <3> HIDE DEF V, Over
    <3>1. Cardinality(Over \cap V) = 0
      BY <2>2, FS_EmptySet
    <3>2. Cardinality(Over \cup V) = Cardinality(Over) + Cardinality(V) - Cardinality(Over \cap V)
      BY <2>3, FS_Union
    <3> QED BY <2>3, <3>1, <3>2
  <2>5. SumOver(h, L) = Cardinality(V)
    <3>1. \A a \in L : IsFiniteSet(A[a]) /\ h[a] = Cardinality(A[a])
      BY <2>1, <1>4
    <3>2. \A a, c \in L : a # c => A[a] \cap A[c] = {}
      BY <2>1, <1>5
    <3> HIDE DEF A, L
    <3> QED BY <2>1, <3>1, <3>2, SumOfSizes
  <2> QED BY <2>2, <2>3, <2>4, <2>5
<1>7. \A b \in -1 .. R - 1, i \in S :
        i \in Up(b) <=> \/ key[i] \div v > t \div v
                        \/ key[i] \div v = t \div v /\ (key[i] \div w) % R > b
  <2> TAKE b \in -1 .. R - 1, i \in S
  <2> DEFINE kd == (key[i] \div w) % R
  <2>1. kd \in 0 .. R - 1
    BY <1>2
  <2>2. i \in UnionOver(b + 1 .. R - 1, A) <=> \E a \in b + 1 .. R - 1 : i \in A[a]
    BY DEF UnionOver
  <2>3. \A a \in b + 1 .. R - 1 : a \in 0 .. R - 1 /\ (i \in A[a] <=> key[i] \div v = t \div v /\ kd = a)
    BY DEF BucketOf
  <2>4. (\E a \in b + 1 .. R - 1 : kd = a) <=> kd > b
    BY <2>1
  <2>5. i \in Over <=> key[i] \div v > t \div v
    BY DEF KeysOf
  <2> HIDE DEF kd, A, v, Over
  <2>6. i \in UnionOver(b + 1 .. R - 1, A) <=> key[i] \div v = t \div v /\ kd > b
    BY <2>2, <2>3, <2>4
  <2> QED BY <2>5, <2>6 DEF kd
<1>8. \A b \in -1 .. R - 1 : Up(b) \subseteq S /\ IsFiniteSet(Up(b)) /\ Cardinality(Up(b)) \in Nat
  <2> TAKE b \in -1 .. R - 1
  <2>1. Up(b) \subseteq S
    <3>1. \A a \in b + 1 .. R - 1 : A[a] \subseteq S
      <4> SUFFICES ASSUME NEW a \in b + 1 .. R - 1 PROVE A[a] \subseteq S
        OBVIOUS
      <4>1. a \in 0 .. R - 1
        OBVIOUS
      <4> QED BY <4>1, <1>4 DEF BucketOf
    <3>2. Over \subseteq S
      BY DEF KeysOf
    <3> HIDE DEF A, Over
    <3> QED BY <3>1, <3>2 DEF UnionOver
  <2> HIDE DEF Up
  <2> QED BY <2>1, FS_Subset, FS_CardinalityType
<1> DEFINE Reaching == {i \in S : key[i] >= t}
           Beyond == {i \in S : key[i] > t}
<1>9. \A b \in -1 .. R - 1 : b < digit => Reaching \subseteq Up(b)
  <2> TAKE b \in -1 .. R - 1
  <2> SUFFICES ASSUME b < digit, NEW i \in Reaching PROVE i \in Up(b)
    OBVIOUS
  <2>1. i \in S /\ key[i] \in Nat /\ t <= key[i]
    OBVIOUS
  <2>2. t \div w <= key[i] \div w /\ t \div v <= key[i] \div v
    BY <2>1, <1>1, DivMonotone
  <2>3. key[i] \div v = t \div v => (key[i] \div w) % R >= digit
    BY <2>1, <2>2, <1>1, <1>2, <1>3
  <2> HIDE DEF Up, v, digit
  <2> QED BY <2>1, <2>2, <2>3, <1>1, <1>2, <1>7
<1>10. \A b \in -1 .. R - 1 : digit <= b => Up(b) \subseteq Beyond
  <2> TAKE b \in -1 .. R - 1
  <2> SUFFICES ASSUME digit <= b, NEW i \in Up(b) PROVE i \in Beyond
    OBVIOUS
  <2>1. i \in S /\ key[i] \in Nat
    BY <1>8
  <2>2. key[i] \div w > t \div w
    <3>1. CASE key[i] \div v > t \div v
      BY <2>1, <3>1, <1>3
    <3>2. CASE key[i] \div v = t \div v /\ (key[i] \div w) % R > b
      <4>1. (key[i] \div w) - (t \div w) = ((key[i] \div w) % R) - digit
        BY <2>1, <3>2, <1>3
      <4>2. /\ (key[i] \div w) % R \in 0 .. R - 1 /\ digit \in 0 .. R - 1
            /\ key[i] \div w \in Nat /\ t \div w \in Nat
        BY <2>1, <1>1, <1>2
      <4> DEFINE kw == key[i] \div w
                 tw == t \div w
                 kd == (key[i] \div w) % R
      <4>3. kw - tw = kd - digit /\ kd > b /\ kw \in Nat /\ tw \in Nat /\ kd \in Nat /\ digit \in Nat
        BY <3>2, <4>1, <4>2
      <4> HIDE DEF digit, kw, tw, kd
      <4>4. kw > tw
        BY ONLY <4>3, digit <= b, b \in Int
      <4> QED BY <4>4 DEF kw, tw
    <3> HIDE DEF Up
    <3> QED BY <2>1, <3>1, <3>2, <1>7
  <2>3. ~(key[i] <= t)
    <3>1. SUFFICES ASSUME key[i] <= t PROVE FALSE
      OBVIOUS
    <3>2. key[i] \div w <= t \div w
      BY <2>1, <3>1, DivMonotone
    <3>3. key[i] \div w \in Nat /\ t \div w \in Nat
      BY <2>1, <1>1, <1>2
    <3> QED BY <2>2, <3>2, <3>3
  <2> QED BY <2>1, <2>3
<1>11. Up(digit) = KeysOf(S, key, w, t)
  <2>1. \A i \in S : i \in Up(digit) <=> key[i] \div w > t \div w
    <3> TAKE i \in S
    <3> HIDE DEF Up, v, digit
    <3> QED BY <1>1, <1>2, <1>3, <1>7
  <2>2. digit \in -1 .. R - 1
    BY <1>1
  <2>3. Up(digit) \subseteq S
    BY <2>2, <1>8
  <2> HIDE DEF digit, Up
  <2> QED BY <2>1, <2>3 DEF KeysOf
<1>12. \A b \in 0 .. R - 1 : Cardinality(Up(b - 1)) = Cardinality(Up(b)) + h[b] /\ h[b] \in Nat
  <2> TAKE b \in 0 .. R - 1
  <2>1. b - 1 \in -1 .. R - 1 /\ b \in -1 .. R - 1 /\ b - 1 + 1 = b
    OBVIOUS
  <2>2. Up(b - 1) = Up(b) \cup A[b]
    <3>1. b - 1 + 1 .. R - 1 = b + 1 .. R - 1 \cup {b}
      OBVIOUS
    <3> HIDE DEF A, Over
    <3> QED BY <3>1 DEF UnionOver
  <2>3. Up(b) \cap A[b] = {}
    <3>1. \A i \in A[b] : i \in S /\ key[i] \div v = t \div v /\ (key[i] \div w) % R = b
      BY DEF BucketOf
    <3> HIDE DEF Up, A, v
    <3> QED BY <3>1, <2>1, <1>1, <1>2, <1>7
  <2>4. IsFiniteSet(Up(b)) /\ IsFiniteSet(A[b]) /\ Cardinality(Up(b)) \in Nat /\ Cardinality(A[b]) \in Nat
    BY <2>1, <1>4, <1>8, FS_CardinalityType
  <2> HIDE DEF Up, A
  <2>5. Cardinality(Up(b) \cap A[b]) = 0
    BY <2>3, FS_EmptySet
  <2>6. Cardinality(Up(b) \cup A[b]) = Cardinality(Up(b)) + Cardinality(A[b]) - Cardinality(Up(b) \cap A[b])
    BY <2>4, FS_Union
  <2>7. h[b] = Cardinality(A[b])
    BY <1>4
  <2>8. Cardinality(Up(b) \cup A[b]) = Cardinality(Up(b)) + Cardinality(A[b])
    BY ONLY <2>4, <2>5, <2>6
  <2>9. Cardinality(Up(b - 1)) = Cardinality(Up(b) \cup A[b])
    BY ONLY <2>2
  <2> QED BY ONLY <2>4, <2>7, <2>8, <2>9
<1>13. \A b \in -1 .. R - 1 : /\ b < digit => Cardinality(Up(b)) >= rank
                              /\ digit <= b => Cardinality(Up(b)) < rank
  <2>1. IsFiniteSet(Reaching) /\ IsFiniteSet(Beyond)
        /\ Cardinality(Reaching) \in Nat /\ Cardinality(Beyond) \in Nat
    BY FS_Subset, FS_CardinalityType
  <2>2. Cardinality(Reaching) >= rank /\ Cardinality(Beyond) < rank
    BY DEF CutsAt
  <2> TAKE b \in -1 .. R - 1
  <2> HIDE DEF Reaching, Beyond, Up, digit
  <2>3. ASSUME b < digit PROVE Cardinality(Up(b)) >= rank
    <3>1. Cardinality(Reaching) <= Cardinality(Up(b))
      BY <2>3, <1>8, <1>9, FS_Subset
    <3> QED BY <3>1, <2>1, <2>2, <1>8
  <2>4. ASSUME digit <= b PROVE Cardinality(Up(b)) < rank
    <3>1. Cardinality(Up(b)) <= Cardinality(Beyond)
      BY <2>4, <2>1, <1>10, FS_Subset
    <3> QED BY <3>1, <2>1, <2>2, <1>8
  <2> QED BY <2>3, <2>4
<1> HIDE DEF Up, A, digit, v, Over
<1>14. \A b \in -1 .. R - 1 : /\ SumOver(h, b + 1 .. R - 1) \in Nat /\ Cardinality(Over) \in Nat
                              /\ Cardinality(Up(b)) = Cardinality(Over) + SumOver(h, b + 1 .. R - 1)
  BY <1>6
<1>15. digit \in -1 .. R - 1 /\ Cardinality(Over) \in Nat
  BY <1>1, <1>14
<1>16. SumOver(h, digit + 1 .. R - 1) = Cardinality(KeysOf(S, key, w, t)) - Cardinality(Over)
  BY <1>11, <1>14, <1>15
<1>17. ASSUME NEW b \in 0 .. R - 1
       PROVE  /\ SumOver(h, b + 1 .. R - 1) \in Nat /\ h[b] \in Nat
              /\ SumOver(h, b + 1 .. R - 1) < rank - Cardinality(Over)
                 /\ rank - Cardinality(Over) <= SumOver(h, b + 1 .. R - 1) + h[b]
                 <=> b = digit
  <2> DEFINE n == SumOver(h, b + 1 .. R - 1)
             o == Cardinality(Over)
             u == Cardinality(Up(b))
             u1 == Cardinality(Up(b - 1))
  <2>1. b \in -1 .. R - 1 /\ b - 1 \in -1 .. R - 1
    OBVIOUS
  <2>2. n \in Nat /\ o \in Nat /\ u = o + n /\ h[b] \in Nat /\ u1 = u + h[b]
    BY <2>1, <1>12, <1>14
  <2>3. /\ (b < digit => u >= rank) /\ (digit <= b => u < rank)
        /\ (b - 1 < digit => u1 >= rank) /\ (digit <= b - 1 => u1 < rank)
    BY <2>1, <1>13
  <2> HIDE DEF n, o, u, u1
  <2>4. n < rank - o /\ rank - o <= n + h[b] <=> b = digit
    BY <2>2, <2>3, <1>1
  <2> QED BY <2>2, <2>4 DEF n, o
<1> QED BY <1>1, <1>15, <1>16, <1>17 DEF RankIsAt, digit, v, Over

\* A sum of natural numbers is one, and 0 only if all of them are.
LEMMA SumIsNat ==
  ASSUME NEW L, IsFiniteSet(L), NEW h, \A x \in L : h[x] \in Nat
  PROVE  /\ SumOver(h, L) \in Nat
         /\ SumOver(h, L) = 0 <=> \A x \in L : h[x] = 0
<1> DEFINE A == [x \in L |-> {x} \X (1 .. h[x])]
           U == UnionOver(L, A)
<1>1. \A x \in L : IsFiniteSet(A[x]) /\ h[x] = Cardinality(A[x])
  <2> TAKE x \in L
  <2>1. /\ IsFiniteSet({x}) /\ Cardinality({x}) = 1
        /\ IsFiniteSet(1 .. h[x]) /\ Cardinality(1 .. h[x]) = h[x] /\ h[x] \in Nat
    BY IntervalSize, FS_Singleton
  <2>2. PICK I : I = 1 .. h[x]
    OBVIOUS
  <2>3. IsFiniteSet({x} \X I) /\ Cardinality({x} \X I) = 1 * Cardinality(I)
    BY <2>1, <2>2, FS_Product, Zenon
  <2> QED BY <2>1, <2>2, <2>3
<1>2. \A x, y \in L : x # y => A[x] \cap A[y] = {}
  OBVIOUS
<1>3. SumOver(h, L) = Cardinality(U)
  <2> HIDE DEF A
  <2> QED BY <1>1, <1>2, SumOfSizes
<1>4. IsFiniteSet(U)
  <2> DEFINE parts == {A[x] : x \in L}
             f == [x \in L |-> A[x]]
  <2>1. \A T \in parts : IsFiniteSet(T)
    BY <1>1
  <2>2. U = UNION parts
    BY DEF UnionOver
  <2>3. IsFiniteSet(parts)
    <3>1. f = [x \in DOMAIN f |-> f[x]] /\ DOMAIN f = L /\ parts = Range(f)
      BY DEF Range
    <3> HIDE DEF f, parts
    <3> QED BY <3>1, ImageIsFinite
  <2> HIDE DEF parts, U
  <2> QED BY <2>1, <2>2, <2>3, FS_UNION
<1>5. U = {} <=> \A x \in L : h[x] = 0
  <2>1. U = {} <=> \A x \in L : A[x] = {}
    <3> HIDE DEF A
    <3> QED BY DEF UnionOver
  <2>2. \A x \in L : A[x] = {} <=> h[x] = 0
    <3> TAKE x \in L
    <3>1. h[x] # 0 => <<x, 1>> \in A[x]
      OBVIOUS
    <3>2. h[x] = 0 => A[x] = {}
      OBVIOUS
    <3> QED BY <3>1, <3>2
  <2> QED BY <2>1, <2>2
<1> HIDE DEF U
<1> QED BY <1>3, <1>4, <1>5, FS_CardinalityType, FS_EmptySet

---------------------------------------------------------------------------
(* Outputs.  The keys above a cut (B, s of them) and k of those at it (T)     *)
(* take the places from 0, reserved for some of them at a time.             *)

Smaller(A, x) == Cardinality({i \in A : i < x})

\* Counting for each number of a finite set those below it numbers the set.
LEMMA RanksAreDense ==
  ASSUME NEW A \in SUBSET Int, IsFiniteSet(A)
  PROVE  /\ Cardinality(A) \in Nat
         /\ \A x \in A : Smaller(A, x) \in 0 .. Cardinality(A) - 1
         /\ \A x, y \in A : Smaller(A, x) = Smaller(A, y) => x = y
         /\ \A m \in 0 .. Cardinality(A) - 1 : \E x \in A : Smaller(A, x) = m
<1> DEFINE n == Cardinality(A)
           below(o) == {i \in A : i < o}
           place == [x \in A |-> Smaller(A, x)]
<1>1. n \in Nat
  BY FS_CardinalityType
<1>3. \A o \in A : IsFiniteSet(below(o)) /\ Cardinality(below(o)) \in Nat
  BY FS_Subset, FS_CardinalityType
<1>4. \A o \in A : Cardinality(below(o)) < n
  <2> TAKE o \in A
  <2>1. below(o) \in SUBSET (A \ {o})
    OBVIOUS
  <2>2. IsFiniteSet(A \ {o}) /\ Cardinality(A \ {o}) = n - 1
    BY <1>1, FS_RemoveElement
  <2>3. Cardinality(below(o)) <= n - 1
    BY <2>1, <2>2, FS_Subset
  <2> QED BY <1>1, <1>3, <2>3
<1>5. ASSUME NEW o \in A, NEW a \in A, o < a
      PROVE  Cardinality(below(o)) < Cardinality(below(a))
  <2>1. below(o) \in SUBSET below(a) /\ o \in below(a) /\ o \notin below(o)
    <3>1. \A c \in A : c < o => c < a
      BY <1>5
    <3>2. ~(o < o)
      OBVIOUS
    <3> QED BY <1>5, <3>1, <3>2, Zenon
  <2>2. PICK s, b : s = below(o) /\ b = below(a)
    OBVIOUS
  <2>3. IsFiniteSet(b) /\ s \in SUBSET b /\ s # b
    BY <1>3, <2>1, <2>2
  <2>4. Cardinality(s) <= Cardinality(b) /\ (Cardinality(b) = Cardinality(s) => b = s)
    BY <2>3, FS_Subset
  <2>5. Cardinality(s) \in Nat /\ Cardinality(b) \in Nat
    BY <1>3, <2>2
  <2>6. Cardinality(s) < Cardinality(b)
    BY <2>3, <2>4, <2>5
  <2> QED BY <2>2, <2>6
<1>7. \A o \in A : place[o] = Cardinality(below(o)) /\ Smaller(A, o) = place[o]
  BY DEF Smaller
<1> HIDE DEF below, n
<1>6. \A o, a \in A : place[o] = place[a] => o = a
  <2> SUFFICES ASSUME NEW o \in A, NEW a \in A, place[o] = place[a], o # a PROVE FALSE
    OBVIOUS
  <2>1. o < a \/ a < o
    OBVIOUS
  <2>2. Cardinality(below(o)) < Cardinality(below(a)) \/ Cardinality(below(a)) < Cardinality(below(o))
    BY <1>5, <2>1
  <2> HIDE DEF place
  <2> QED BY <2>2, <1>3, <1>7
<1>8. place \in [A -> 0 .. n - 1]
  BY <1>1, <1>3, <1>4, <1>7
<1> HIDE DEF place
<1>9. place \in Injection(A, 0 .. n - 1)
  BY <1>6, <1>8 DEF Injection, IsInjective
<1>10. Cardinality(0 .. n - 1) = n /\ IsFiniteSet(0 .. n - 1)
  BY <1>1, FS_Interval
<1>11. place \in Surjection(A, 0 .. n - 1)
  BY <1>9, <1>10, FS_Injection DEF n
<1>12. \A m \in 0 .. n - 1 : \E o \in A : place[o] = m
  BY <1>11 DEF Surjection, Range
<1> QED BY <1>1, <1>6, <1>7, <1>8, <1>12 DEF n

Lesser(m, n) == IF m <= n THEN m ELSE n
PlacesFrom(p, n) == p .. p + n - 1

\* What the places are for.
ToPlace(B, T, s, k) ==
  /\ B \subseteq Nat /\ T \subseteq Nat /\ B \cap T = {}
  /\ IsFiniteSet(B) /\ IsFiniteSet(T)
  /\ s = Cardinality(B) /\ k \in Nat \ {0}

\* An output with those of done that belong in it: of B at reserved places
\* outside the spans, and after the places of all of B the first of T.
IsOutput(B, T, s, k, out, done, reserved, spans) ==
  /\ \A x \in out : x = <<x[1], x[2]>> /\ x[1] \in Nat /\ x[2] \in done /\ x[2] \in B \cup T
  /\ \A id \in done \cap B : \E x \in out : x[2] = id
  /\ \A x, y \in out : x[1] = y[1] \/ x[2] = y[2] => x = y
  /\ \A x \in out : x[2] \in B =>
       x[1] < reserved /\ \A w \in DOMAIN spans : x[1] \notin spans[w]
  /\ \A w \in DOMAIN spans : \A p \in spans[w] : p \in Nat /\ p < reserved
  /\ \A v, w \in DOMAIN spans : v # w => spans[v] \cap spans[w] = {}
  /\ {x[1] : x \in {y \in out : y[2] \in T}} = PlacesFrom(s, Lesser(Cardinality(done \cap T), k))

LEMMA NothingIsOutput ==
  ASSUME NEW B, NEW T, NEW s \in Nat, NEW k \in Nat \ {0}, NEW spans, DOMAIN spans = {}
  PROVE  IsOutput(B, T, s, k, {}, {}, 0, spans)
<1>2. Cardinality({} \cap T) = 0
  BY FS_EmptySet
<1>3. Lesser(0, k) = 0
  BY DEF Lesser
<1>4. PlacesFrom(s, 0) = {}
  BY DEF PlacesFrom
<1>5. {x[1] : x \in {y \in {} : y[2] \in T}} = PlacesFrom(s, Lesser(Cardinality({} \cap T), k))
  BY <1>2, <1>3, <1>4
<1> QED BY <1>5 DEF IsOutput

\* The next places after those reserved for all go to one more warp.
LEMMA ReserveKeepsOutput ==
  ASSUME NEW B, NEW T, NEW s, NEW k, NEW out, NEW done, NEW m \in Nat, NEW spans, IsOutput(B, T, s, k, out, done, m, spans),
         NEW w, w \notin DOMAIN spans, NEW c \in Nat,
         NEW after, DOMAIN after = DOMAIN spans \cup {w}, after[w] = PlacesFrom(m, c),
         \A v \in DOMAIN spans : after[v] = spans[v]
  PROVE  IsOutput(B, T, s, k, out, done, m + c, after)
<1>1. \A p \in after[w] : p \in Nat /\ m <= p /\ p < m + c
  BY DEF PlacesFrom
<1>2. \A x \in out : x[1] \in Nat /\ (x[2] \in B =>
        x[1] < m /\ \A v \in DOMAIN spans : x[1] \notin spans[v])
  BY DEF IsOutput
<1>3. \A x \in out : x[2] \in B =>
        x[1] < m + c /\ \A v \in DOMAIN after : x[1] \notin after[v]
  <2> TAKE x \in out
  <2> HAVE x[2] \in B
  <2>1. x[1] \in Nat /\ x[1] < m
    BY <1>2
  <2>2. x[1] < m + c /\ x[1] \notin after[w]
    BY <1>1, <2>1
  <2> QED BY <1>2, <2>2
<1>4. \A v \in DOMAIN spans : \A p \in spans[v] : p \in Nat /\ p < m
  BY DEF IsOutput
<1>5. \A v \in DOMAIN after : \A p \in after[v] : p \in Nat /\ p < m + c
  BY <1>1, <1>4
<1>6. \A u, v \in DOMAIN after : u # v => after[u] \cap after[v] = {}
  <2>1. \A u, v \in DOMAIN spans : u # v => spans[u] \cap spans[v] = {}
    BY DEF IsOutput
  <2>2. \A v \in DOMAIN spans : after[w] \cap spans[v] = {}
    BY <1>1, <1>4
  <2> QED BY <2>1, <2>2
<1> QED BY <1>3, <1>5, <1>6 DEF IsOutput

WithBatch(out, s, k, first, above, e, level) ==
  out \cup {<<first + Smaller(above, id), id>> : id \in above}
      \cup {<<s + e + Smaller(level, id), id>> : id \in {i \in level : e + Smaller(level, i) < k}}
IsWithout(left, spans, w) == DOMAIN left = DOMAIN spans \ {w} /\ \A v \in DOMAIN left : left[v] = spans[v]

\* A warp fills its span with those of B of its batch and the next places with
\* those of T, as far as these go.
LEMMA PlaceKeepsOutput ==
  ASSUME NEW B, NEW T, NEW s, NEW k, ToPlace(B, T, s, k),
         NEW out, NEW done, NEW m \in Nat, NEW spans, IsOutput(B, T, s, k, out, done, m, spans),
         m <= s, NEW w \in DOMAIN spans,
         NEW above, NEW level, NEW batch, above = batch \cap B, level = batch \cap T,
         batch \cap done = {}, NEW first \in Nat, spans[w] = PlacesFrom(first, Cardinality(above)),
         NEW e, e = Cardinality(done \cap T),
         NEW left, IsWithout(left, spans, w)
  PROVE  IsOutput(B, T, s, k, WithBatch(out, s, k, first, above, e, level), done \cup batch, m, left)
<1>o. PICK new : new = WithBatch(out, s, k, first, above, e, level)
  OBVIOUS
<1>l. DOMAIN left = DOMAIN spans \ {w} /\ \A v \in DOMAIN left : left[v] = spans[v]
  BY DEF IsWithout
<1>1. /\ s = Cardinality(B) /\ s \in Nat /\ k \in Nat \ {0}
      /\ B \cap T = {} /\ IsFiniteSet(B) /\ IsFiniteSet(T)
      /\ B \subseteq Nat /\ T \subseteq Nat
  BY FS_CardinalityType DEF ToPlace
<1>2. /\ above \in SUBSET Int /\ IsFiniteSet(above) /\ level \in SUBSET Int /\ IsFiniteSet(level)
      /\ IsFiniteSet(done \cap T)
  <2>1. above \subseteq B /\ level \subseteq T /\ done \cap T \subseteq T
    OBVIOUS
  <2>2. IsFiniteSet(above) /\ IsFiniteSet(level) /\ IsFiniteSet(done \cap T)
    BY <1>1, <2>1, FS_Subset
  <2> QED BY <1>1, <2>1, <2>2
<1>3. e \in Nat /\ Cardinality(above) \in Nat /\ Cardinality(level) \in Nat
  BY <1>2, FS_CardinalityType
<1>a. PICK a : a = [id \in above |-> first + Smaller(above, id)]
  OBVIOUS
<1>b. PICK b : b = [id \in level |-> s + e + Smaller(level, id)]
  OBVIOUS
<1>n. PICK na, nl : na = Cardinality(above) /\ nl = Cardinality(level)
  OBVIOUS
<1>i. /\ s \in Nat /\ k \in Nat \ {0} /\ e \in Nat /\ na \in Nat /\ nl \in Nat
      /\ first \in Nat /\ m \in Nat
  BY <1>1, <1>3, <1>n
<1>4. /\ \A x \in above : a[x] \in Nat /\ first <= a[x] /\ a[x] < first + na
      /\ \A x, y \in above : a[x] = a[y] => x = y
  <2>1. /\ \A x \in above : Smaller(above, x) \in 0 .. na - 1
        /\ \A x, y \in above : Smaller(above, x) = Smaller(above, y) => x = y
    BY <1>2, <1>n, RanksAreDense
  <2>2. \A x \in above : a[x] = first + Smaller(above, x)
    BY <1>a
  <2> QED BY ONLY <1>i, <2>1, <2>2
<1>5. /\ \A x \in level : b[x] \in Nat /\ s + e <= b[x] /\ b[x] < s + e + nl
      /\ \A x, y \in level : b[x] = b[y] => x = y
      /\ \A p \in Nat : s + e <= p /\ p < s + e + nl => \E x \in level : b[x] = p
  <2>1. /\ \A x \in level : Smaller(level, x) \in 0 .. nl - 1
        /\ \A x, y \in level : Smaller(level, x) = Smaller(level, y) => x = y
        /\ \A q \in 0 .. nl - 1 : \E x \in level : Smaller(level, x) = q
    BY <1>2, <1>n, RanksAreDense
  <2>2. \A x \in level : b[x] = s + e + Smaller(level, x)
    BY <1>b
  <2>3. ASSUME NEW p \in Nat, s + e <= p, p < s + e + nl PROVE \E x \in level : b[x] = p
    <3>1. p - (s + e) \in 0 .. nl - 1
      BY ONLY <1>i, <2>3, p \in Nat
    <3>2. PICK x \in level : Smaller(level, x) = p - (s + e)
      BY <2>1, <3>1
    <3>3. b[x] = s + e + (p - (s + e))
      BY <2>2, <3>2
    <3>4. b[x] = p
      BY ONLY <1>i, <3>3, p \in Nat
    <3> QED BY <3>4
  <2>4. \A x \in level : b[x] \in Nat /\ s + e <= b[x] /\ b[x] < s + e + nl
    BY ONLY <1>i, <2>1, <2>2
  <2>5. \A x, y \in level : b[x] = b[y] => x = y
    BY ONLY <1>i, <2>1, <2>2
  <2> QED BY <2>3, <2>4, <2>5
<1>6. new = out \cup {<<a[id], id>> : id \in above}
                \cup {<<b[id], id>> : id \in {i \in level : b[i] < s + k}}
  <2>1. \A id \in above : first + Smaller(above, id) = a[id]
    BY ONLY <1>a
  <2>2. \A id \in level : s + e + Smaller(level, id) = b[id]
    BY ONLY <1>b
  <2>3. \A id \in level : Smaller(level, id) \in Nat
    <3>1. \A id \in level : Smaller(level, id) \in 0 .. Cardinality(level) - 1
      BY <1>2, RanksAreDense
    <3> QED BY ONLY <1>3, <3>1
  <2>4. \A id \in level : e + Smaller(level, id) < k <=> b[id] < s + k
    <3> TAKE id \in level
    <3> PICK r : r = Smaller(level, id)
      OBVIOUS
    <3>1. b[id] = s + e + r /\ r \in Nat /\ Smaller(level, id) = r
      BY <2>2, <2>3
    <3> QED BY ONLY <1>i, <3>1
  <2> QED BY <1>o, <2>1, <2>2, <2>4 DEF WithBatch
<1>7. /\ \A x \in out : x = <<x[1], x[2]>> /\ x[1] \in Nat /\ x[2] \in done /\ x[2] \in B \cup T
      /\ \A id \in done \cap B : \E x \in out : x[2] = id
      /\ \A x, y \in out : x[1] = y[1] \/ x[2] = y[2] => x = y
      /\ \A x \in out : x[2] \in B => x[1] < m /\ \A v \in DOMAIN spans : x[1] \notin spans[v]
      /\ \A v \in DOMAIN spans : \A p \in spans[v] : p \in Nat /\ p < m
      /\ \A u, v \in DOMAIN spans : u # v => spans[u] \cap spans[v] = {}
      /\ {x[1] : x \in {y \in out : y[2] \in T}} = PlacesFrom(s, Lesser(e, k))
  BY DEF IsOutput
<1>8. \A x \in out : x[2] \in T => s <= x[1] /\ x[1] < s + Lesser(e, k)
  <2>1. \A p \in PlacesFrom(s, Lesser(e, k)) : s <= p /\ p < s + Lesser(e, k)
    BY ONLY <1>i DEF PlacesFrom, Lesser
  <2> QED BY <1>7, <2>1
<1>9. m <= s /\ spans[w] = PlacesFrom(first, na)
  BY <1>1, <1>n
<1>10. \A id \in above : a[id] \in spans[w] /\ a[id] < m /\ a[id] < s
  <2>1. \A id \in above : a[id] \in PlacesFrom(first, na)
    BY ONLY <1>i, <1>4 DEF PlacesFrom
  <2>2. \A p \in spans[w] : p \in Nat /\ p < m
    BY <1>7
  <2>3. \A p \in spans[w] : p < s
    BY ONLY <1>i, <1>9, <2>2
  <2> QED BY <1>9, <2>1, <2>2, <2>3
<1>11. above = batch \cap B /\ level = batch \cap T /\ B \cap T = {} /\ batch \cap done = {}
  BY <1>1
<1>12. \A x \in new :
         \/ x \in out
         \/ \E id \in above : x = <<a[id], id>>
         \/ \E id \in level : b[id] < s + k /\ x = <<b[id], id>>
  BY <1>6
<1>13. \A x \in new : x = <<x[1], x[2]>> /\ x[1] \in Nat /\ x[2] \in done \cup batch /\ x[2] \in B \cup T
  <2> TAKE x \in new
  <2>1. CASE x \in out
    BY <1>7, <2>1
  <2>2. ASSUME NEW id \in above, x = <<a[id], id>>
        PROVE  x = <<x[1], x[2]>> /\ x[1] \in Nat /\ x[2] \in done \cup batch /\ x[2] \in B \cup T
    BY <1>4, <1>11, <2>2
  <2>3. ASSUME NEW id \in level, x = <<b[id], id>>
        PROVE  x = <<x[1], x[2]>> /\ x[1] \in Nat /\ x[2] \in done \cup batch /\ x[2] \in B \cup T
    BY <1>5, <1>11, <2>3
  <2> QED BY <1>12, <2>1, <2>2, <2>3
<1>14. \A id \in (done \cup batch) \cap B : \E x \in new : x[2] = id
  <2> TAKE id \in (done \cup batch) \cap B
  <2>1. CASE id \in done
    BY <1>6, <1>7, <2>1
  <2>2. CASE id \in batch
    <3>1. id \in above
      BY <1>11, <2>2
    <3>2. <<a[id], id>> \in new
      BY <1>6, <3>1
    <3>3. <<a[id], id>>[2] = id
      OBVIOUS
    <3> QED BY <3>2, <3>3
  <2> QED BY <2>1, <2>2
<1>15. ASSUME NEW x \in out, NEW id \in above
       PROVE  x[1] # a[id] /\ x[2] # id
  <2>1. x[2] # id
    BY <1>7, <1>11
  <2>2. x[2] \in B => x[1] # a[id]
    BY <1>7, <1>10
  <2>3. x[2] \in T => x[1] # a[id]
    <3>1. x[2] \in T => s <= x[1] /\ x[1] \in Nat /\ a[id] \in Nat /\ a[id] < s
      BY <1>4, <1>7, <1>8, <1>10
    <3> QED BY ONLY <1>i, <3>1
  <2> QED BY <1>7, <2>1, <2>2, <2>3
<1>16. ASSUME NEW x \in out, NEW id \in level
       PROVE  x[1] # b[id] /\ x[2] # id
  <2>1. x[2] # id
    BY <1>7, <1>11
  <2>2. b[id] \in Nat /\ s + e <= b[id] /\ x[1] \in Nat
    BY <1>5, <1>7
  <2>3. x[2] \in B => x[1] < m
    BY <1>7
  <2>4. x[2] \in T => x[1] < s + Lesser(e, k)
    BY <1>8
  <2>5. Lesser(e, k) <= e /\ Lesser(e, k) \in Nat
    BY ONLY <1>i DEF Lesser
  <2>6. x[2] \in B \/ x[2] \in T
    BY <1>7
  <2>7. x[1] < s + e
    BY ONLY <1>i, <1>9, <2>2, <2>3, <2>4, <2>5, <2>6
  <2>8. x[1] # b[id]
    BY ONLY <1>i, <2>2, <2>7
  <2> QED BY <2>1, <2>8
<1>17. ASSUME NEW i \in above, NEW j \in level
       PROVE  a[i] # b[j] /\ i # j
  <2>1. i # j
    BY <1>11
  <2>2. a[i] \in Nat /\ b[j] \in Nat /\ a[i] < s /\ s + e <= b[j]
    BY <1>4, <1>5, <1>10
  <2>3. a[i] # b[j]
    BY ONLY <1>i, <2>2
  <2> QED BY <2>1, <2>3
<1>18. \A x, y \in new : x[1] = y[1] \/ x[2] = y[2] => x = y
  <2> TAKE x \in new, y \in new
  <2>1. ASSUME NEW id \in above, y = <<a[id], id>>, x[1] = y[1] \/ x[2] = y[2] PROVE x = y
    <3>1. x \notin out
      BY <1>15, <2>1
    <3>2. ASSUME NEW i \in above, x = <<a[i], i>> PROVE x = y
      BY <1>4, <2>1, <3>2
    <3>3. ASSUME NEW j \in level, x = <<b[j], j>> PROVE FALSE
      BY <1>17, <2>1, <3>3
    <3> QED BY <1>12, <3>1, <3>2, <3>3
  <2>2. ASSUME NEW id \in level, y = <<b[id], id>>, x[1] = y[1] \/ x[2] = y[2] PROVE x = y
    <3>1. x \notin out
      BY <1>16, <2>2
    <3>2. ASSUME NEW i \in above, x = <<a[i], i>> PROVE FALSE
      BY <1>17, <2>2, <3>2
    <3>3. ASSUME NEW j \in level, x = <<b[j], j>> PROVE x = y
      BY <1>5, <2>2, <3>3
    <3> QED BY <1>12, <3>1, <3>2, <3>3
  <2>3. ASSUME y \in out, x[1] = y[1] \/ x[2] = y[2] PROVE x = y
    <3>1. CASE x \in out
      BY <1>7, <2>3, <3>1
    <3>2. ASSUME NEW i \in above, x = <<a[i], i>> PROVE FALSE
      BY <1>15, <2>3, <3>2
    <3>3. ASSUME NEW j \in level, x = <<b[j], j>> PROVE FALSE
      BY <1>16, <2>3, <3>3
    <3> QED BY <1>12, <3>1, <3>2, <3>3
  <2> QED BY <1>12, <2>1, <2>2, <2>3
<1>19. \A x \in new : x[2] \in B => x[1] < m /\ \A v \in DOMAIN left : x[1] \notin left[v]
  <2> TAKE x \in new
  <2> HAVE x[2] \in B
  <2>1. CASE x \in out
    BY <1>7, <1>l, <2>1
  <2>2. ASSUME NEW id \in above, x = <<a[id], id>>
        PROVE  x[1] < m /\ \A v \in DOMAIN left : x[1] \notin left[v]
    <3>1. x[1] = a[id]
      BY <2>2
    <3> QED BY <1>7, <1>10, <1>l, <3>1
  <2>3. ASSUME NEW id \in level, x = <<b[id], id>> PROVE FALSE
    BY <1>11, <2>3
  <2> QED BY <1>12, <2>1, <2>2, <2>3
<1>20. /\ \A v \in DOMAIN left : \A p \in left[v] : p \in Nat /\ p < m
       /\ \A u, v \in DOMAIN left : u # v => left[u] \cap left[v] = {}
  BY <1>7, <1>l
<1>21. Cardinality((done \cup batch) \cap T) = e + nl
  <2>1. (done \cup batch) \cap T = (done \cap T) \cup level /\ (done \cap T) \cap level = {}
    BY <1>11
  <2>2. Cardinality((done \cap T) \cap level) = 0
    BY <2>1, FS_EmptySet
  <2>3. Cardinality((done \cap T) \cup level) = e + nl - 0
    BY <1>2, <1>n, <2>2, FS_Union
  <2>4. e + nl - 0 = e + nl
    BY ONLY <1>i
  <2> QED BY <2>1, <2>3, <2>4
<1>22. {x[1] : x \in {y \in new : y[2] \in T}} = PlacesFrom(s, Lesser(e + nl, k))
  <2>1. ASSUME NEW x \in new, x[2] \in T PROVE x[1] \in PlacesFrom(s, Lesser(e + nl, k))
    <3>1. CASE x \in out
      <4>1. s <= x[1] /\ x[1] < s + Lesser(e, k) /\ x[1] \in Nat
        BY <1>7, <1>8, <2>1, <3>1
      <4> QED BY ONLY <1>i, <4>1 DEF PlacesFrom, Lesser
    <3>2. ASSUME NEW id \in above, x = <<a[id], id>> PROVE FALSE
      BY <1>11, <2>1, <3>2
    <3>3. ASSUME NEW id \in level, b[id] < s + k, x = <<b[id], id>>
          PROVE  x[1] \in PlacesFrom(s, Lesser(e + nl, k))
      <4>1. x[1] = b[id] /\ b[id] \in Nat /\ s + e <= b[id] /\ b[id] < s + e + nl
        BY <1>5, <3>3
      <4> QED BY ONLY <1>i, <3>3, <4>1 DEF PlacesFrom, Lesser
    <3> QED BY <1>12, <3>1, <3>2, <3>3
  <2>2. ASSUME NEW p \in PlacesFrom(s, Lesser(e + nl, k))
        PROVE  \E x \in new : x[2] \in T /\ x[1] = p
    <3>1. p \in Nat /\ s <= p /\ p < s + e + nl /\ p < s + k
      BY ONLY <1>i, <2>2 DEF PlacesFrom, Lesser
    <3>2. CASE p < s + e
      <4>1. p \in PlacesFrom(s, Lesser(e, k))
        BY ONLY <1>i, <3>1, <3>2 DEF PlacesFrom, Lesser
      <4>2. p \in {x[1] : x \in {y \in out : y[2] \in T}}
        BY ONLY <1>7, <4>1
      <4>3. PICK x \in out : x[2] \in T /\ x[1] = p
        BY ONLY <4>2
      <4> QED BY <1>6, <4>3
    <3>3. CASE ~(p < s + e)
      <4>1. s + e <= p
        BY ONLY <1>i, <3>1, <3>3
      <4>2. PICK id \in level : b[id] = p
        BY <1>5, <3>1, <4>1
      <4>3. <<b[id], id>> \in new
        BY <1>6, <3>1, <4>2
      <4>4. <<b[id], id>>[1] = p /\ <<b[id], id>>[2] \in T
        BY <1>11, <4>2
      <4> QED BY <4>3, <4>4
    <3> QED BY <3>2, <3>3
  <2> QED BY ONLY <2>1, <2>2
<1>23. {x[1] : x \in {y \in new : y[2] \in T}} = PlacesFrom(s, Lesser(Cardinality((done \cup batch) \cap T), k))
  BY <1>21, <1>22
<1> QED BY ONLY <1>o, <1>13, <1>14, <1>18, <1>19, <1>20, <1>23 DEF IsOutput

LEMMA OneToOne ==
  ASSUME NEW S, NEW T, IsFiniteSet(T), NEW f \in [S -> T],
         \A x, y \in S : f[x] = f[y] => x = y,
         \A t \in T : \E x \in S : f[x] = t
  PROVE  IsFiniteSet(S) /\ Cardinality(S) = Cardinality(T)
<1>1. f \in Injection(S, T)
  BY DEF Injection, IsInjective
<1>2. f \in Surjection(S, T)
  BY DEF Surjection, Range
<1> QED BY <1>1, <1>2, FS_Injection

\* As many different places as there are, each below their number: all.
LEMMA PlacesAreAll ==
  ASSUME NEW B, IsFiniteSet(B), NEW s, s = Cardinality(B), NEW out,
         \A id \in B : \E x \in out : x[2] = id,
         \A x, y \in out : x[1] = y[1] \/ x[2] = y[2] => x = y,
         \A x \in out : x[2] \in B => x[1] \in 0 .. s - 1,
         NEW p \in 0 .. s - 1
  PROVE  \E x \in out : x[1] = p
<1>0. PICK h : h = [id \in B |-> (CHOOSE x \in out : x[2] = id)[1]]
  OBVIOUS
<1>1. \A id \in B : \E x \in out : x[2] = id /\ h[id] = x[1]
  <2> TAKE id \in B
  <2>0. PICK y : y = CHOOSE x \in out : x[2] = id
    OBVIOUS
  <2>1. y \in out /\ y[2] = id
    BY <2>0
  <2> QED BY <1>0, <2>0, <2>1
<1>2. h \in [B -> 0 .. s - 1]
  BY <1>0, <1>1
<1>3. \A i, j \in B : h[i] = h[j] => i = j
  BY <1>1
<1>4. s \in Nat
  BY FS_CardinalityType
<1>5. h \in Injection(B, 0 .. s - 1)
  BY <1>2, <1>3 DEF Injection, IsInjective
<1>6. h \in Surjection(B, 0 .. s - 1)
  BY <1>4, <1>5, IntervalSize, FS_Injection
<1>7. \E id \in B : h[id] = p
  BY <1>6 DEF Surjection, Range
<1> QED BY <1>1, <1>7

\* When all are done and every reserved place is one of B's, the output has
\* one pair per place, of all of B and of some of T.
IsSelection(B, T, n, out) ==
  /\ {x[1] : x \in out} = 0 .. n - 1 /\ IsFiniteSet(out) /\ Cardinality(out) = n
  /\ Cardinality({x[2] : x \in out}) = n
  /\ \A x, y \in out : x[2] = y[2] => x = y
  /\ \A x \in out : x = <<x[1], x[2]>>
  /\ B \subseteq {x[2] : x \in out} /\ {x[2] : x \in out} \subseteq B \cup T

LEMMA OutputIsSelection ==
  ASSUME NEW B, NEW T, NEW s, NEW k, ToPlace(B, T, s, k), k <= Cardinality(T),
         NEW out, NEW done, B \cup T \subseteq done, NEW spans,
         IsOutput(B, T, s, k, out, done, s, spans)
  PROVE  IsSelection(B, T, s + k, out)
<1>1. /\ s \in Nat /\ k \in Nat \ {0} /\ k <= Cardinality(T) /\ Cardinality(T) \in Nat
      /\ IsFiniteSet(B) /\ IsFiniteSet(T) /\ s = Cardinality(B)
  BY FS_CardinalityType DEF ToPlace
<1> PICK n : n = s + k
  OBVIOUS
<1>n. n = s + k /\ n \in Nat
  BY <1>1
<1>2. /\ \A x \in out : x = <<x[1], x[2]>> /\ x[1] \in Nat /\ x[2] \in B \cup T
      /\ \A id \in B : \E x \in out : x[2] = id
      /\ \A x, y \in out : x[1] = y[1] \/ x[2] = y[2] => x = y
      /\ \A x \in out : x[2] \in B => x[1] < s
      /\ {x[1] : x \in {y \in out : y[2] \in T}} = PlacesFrom(s, Lesser(Cardinality(done \cap T), k))
  <2>1. done \cap B = B
    OBVIOUS
  <2> QED BY <2>1 DEF IsOutput
<1>4. {x[1] : x \in {y \in out : y[2] \in T}} = s .. n - 1
  <2>1. done \cap T = T
    OBVIOUS
  <2>2. Lesser(Cardinality(T), k) = k
    BY ONLY <1>1 DEF Lesser
  <2>3. PlacesFrom(s, k) = s .. n - 1
    BY ONLY <1>1, <1>n DEF PlacesFrom
  <2> QED BY <1>2, <2>1, <2>2, <2>3
<1>5. \A x \in out : x[2] \in B => x[1] \in 0 .. s - 1
  BY ONLY <1>1, <1>2
<1>6. \A x \in out : x[1] \in 0 .. n - 1
  <2>1. ASSUME NEW x \in out, x[2] \in T PROVE x[1] \in s .. n - 1
    BY ONLY <1>4, <2>1, x \in out
  <2>2. \A x \in out : x[2] \in B \/ x[2] \in T
    BY <1>2
  <2> QED BY ONLY <1>1, <1>n, <1>5, <2>1, <2>2
<1>7. \A p \in 0 .. n - 1 : \E x \in out : x[1] = p
  <2> TAKE p \in 0 .. n - 1
  <2>1. CASE p \in 0 .. s - 1
    <3>1. \A x, y \in out : x[1] = y[1] \/ x[2] = y[2] => x = y
      BY <1>2
    <3>2. IsFiniteSet(B) /\ s = Cardinality(B) /\ \A id \in B : \E x \in out : x[2] = id
      BY <1>1, <1>2
    <3> QED BY ONLY <1>5, <2>1, <3>1, <3>2, PlacesAreAll
  <2>2. CASE p \in s .. n - 1
    BY ONLY <1>4, <2>2
  <2>3. p \in 0 .. s - 1 \/ p \in s .. n - 1
    BY ONLY <1>1, <1>n, p \in 0 .. n - 1
  <2> QED BY <2>1, <2>2, <2>3
<1>8. {x[1] : x \in out} = 0 .. n - 1
  BY ONLY <1>6, <1>7
<1>9. IsFiniteSet(out) /\ Cardinality(out) = n
  <2>0. PICK f : f = [x \in out |-> x[1]]
    OBVIOUS
  <2>1. /\ f \in [out -> 0 .. n - 1] /\ \A x, y \in out : f[x] = f[y] => x = y
        /\ \A p \in 0 .. n - 1 : \E x \in out : f[x] = p
    BY ONLY <1>2, <1>6, <1>7, <2>0
  <2>2. IsFiniteSet(0 .. n - 1) /\ Cardinality(0 .. n - 1) = n
    BY <1>n, IntervalSize
  <2> QED BY ONLY <2>1, <2>2, OneToOne
<1>10. PICK chosen : chosen = {x[2] : x \in out}
  OBVIOUS
<1>11. chosen \subseteq B \cup T /\ B \subseteq chosen
  BY ONLY <1>2, <1>10
<1>12. Cardinality(chosen) = n
  <2>0. PICK f : f = [x \in out |-> x[2]]
    OBVIOUS
  <2>1. /\ f \in [out -> chosen] /\ \A x, y \in out : f[x] = f[y] => x = y
        /\ \A i \in chosen : \E x \in out : f[x] = i
    BY ONLY <1>2, <1>10, <2>0
  <2>2. IsFiniteSet(chosen)
    <3>1. IsFiniteSet(B \cup T)
      BY <1>1, FS_Union
    <3> QED BY <1>11, <3>1, FS_Subset
  <2>3. Cardinality(out) = Cardinality(chosen)
    BY ONLY <2>1, <2>2, OneToOne
  <2> QED BY <1>9, <2>3
<1> QED BY ONLY <1>2, <1>8, <1>9, <1>10, <1>11, <1>12, <1>n DEF IsSelection

-----------------------------------------------------------------------------
(***************************************************************************)
(* The argument behind every ring of shared-memory stages of the kernels.   *)
(*                                                                         *)
(* A producer fills the stages of a ring in turn: its n-th filling goes to  *)
(* stage n % size, for which it waits until what the stage held before is   *)
(* released.  Every consumer of P waits for the fillings in order and       *)
(* releases them in order.  Both wait on barriers, by parity.               *)
(*                                                                         *)
(*   issued      the fillings the producer has issued                       *)
(*   waited[p]   the fillings consumer p has waited for                     *)
(*   released[p] the fillings consumer p has released                       *)
(*   full[s]     completed phases of the full barrier of stage s            *)
(*   empty[s]    the empty barrier of stage s, at which all of P arrive     *)
(*   pending     the stages into which a copy is still under way            *)
(***************************************************************************)

RingStage(size) == 0 .. size - 1

\* The number of the f-th filling of stage s.
FillNumber(f, s, size) == f * size + s

\* Consumer p, which has released `count` fillings, and the empty barrier b of
\* stage s agree: p's arrivals are those of the completed phases, and of the
\* phase in progress exactly when the barrier has recorded it.
InRing(b, p, count, s, size) ==
  /\ p \in b.arrived <=> count > FillNumber(b.done, s, size)
  /\ count <= FillNumber(b.done + 1, s, size)
  /\ count > FillNumber(b.done - 1, s, size) \/ b.done = 0

\* The stage has been filled `fills` times when `issued` fillings are issued.
FillsAgree(fills, issued, s, size) ==
  /\ issued <= FillNumber(fills, s, size)
  /\ issued > FillNumber(fills - 1, s, size) \/ fills = 0

Fills(full, pending, s) == full[s] + (IF s \in pending THEN 1 ELSE 0)

RingType(size, P, issued, waited, released, full, empty, pending) ==
  /\ issued \in Nat /\ waited \in [P -> Nat] /\ released \in [P -> Nat]
  /\ full \in [RingStage(size) -> Nat]
  /\ empty \in [RingStage(size) -> BarrierOver(P)]
  /\ pending \subseteq RingStage(size)

\* The discipline of the ring: the barriers count what the roles have done,
\* nobody releases what it has not waited for, what was waited for is there,
\* and the producer is at most one ring ahead of the slowest release.
RingInv(size, P, issued, waited, released, full, empty, pending) ==
  /\ \A s \in RingStage(size) :
       /\ FillsAgree(Fills(full, pending, s), issued, s, size)
       /\ empty[s].arrived # P
       /\ \A p \in P : InRing(empty[s], p, released[p], s, size)
  /\ \A p \in P :
       /\ released[p] <= waited[p] /\ issued <= released[p] + size
       /\ \A n \in 0 .. waited[p] - 1 : full[n % size] > n \div size

-----------------------------------------------------------------------------
(* Arithmetic of a ring of two or three stages.                             *)

\* A filling is the filling of its stage with the number of its use.
LEMMA StageAndUse ==
  ASSUME NEW size \in {2, 3}, NEW n \in Nat
  PROVE  /\ n % size \in RingStage(size) /\ n \div size \in Nat
         /\ n = FillNumber(n \div size, n % size, size)
<1>1. CASE size = 2
  BY <1>1 DEF RingStage, FillNumber
<1>2. CASE size = 3
  BY <1>2 DEF RingStage, FillNumber
<1> QED BY <1>1, <1>2

\* The filling that used the stage before.
LEMMA UseBefore ==
  ASSUME NEW size \in {2, 3}, NEW n \in Nat, n >= size
  PROVE  /\ n - size \in Nat
         /\ (n - size) % size = n % size /\ (n - size) \div size = (n \div size) - 1
<1>1. CASE size = 2
  BY <1>1
<1>2. CASE size = 3
  BY <1>2
<1> QED BY <1>1, <1>2

\* The fillings of a stage are numbered in steps of the size of the ring.
LEMMA FillSteps ==
  ASSUME NEW size \in {2, 3}, NEW s \in RingStage(size), NEW f \in Int, NEW g \in Int
  PROVE  /\ FillNumber(f, s, size) \in Int
         /\ f < g <=> FillNumber(f, s, size) < FillNumber(g, s, size)
         /\ f < g <=> FillNumber(f, s, size) + size <= FillNumber(g, s, size)
         /\ FillNumber(f + 1, s, size) = FillNumber(f, s, size) + size
         /\ FillNumber(f - 1, s, size) = FillNumber(f, s, size) - size
<1>1. CASE size = 2
  BY <1>1 DEF RingStage, FillNumber
<1>2. CASE size = 3
  BY <1>2 DEF RingStage, FillNumber
<1> QED BY <1>1, <1>2

\* Two stages never hold the same filling.
LEMMA FillsDistinct ==
  ASSUME NEW size \in {2, 3}, NEW s \in RingStage(size), NEW d \in RingStage(size), d # s,
         NEW f \in Int, NEW g \in Int
  PROVE  FillNumber(f, d, size) # FillNumber(g, s, size)
<1>1. CASE size = 2
  BY <1>1 DEF RingStage, FillNumber
<1>2. CASE size = 3
  BY <1>2 DEF RingStage, FillNumber
<1> QED BY <1>1, <1>2

\* The wait for what a filling's stage holds, and the wait for its release:
\* a parity names the phase that is meant when the barrier is at most one off.
LEMMA ParityIsExact ==
  ASSUME NEW completed \in Nat, NEW use \in Nat
  PROVE  /\ completed \in {use, use + 1}
              => (ParityPasses(completed, ParityOf(use)) <=> completed > use)
         /\ completed \in {use - 1, use}
              => (ParityPasses(completed, Flip(ParityOf(use))) <=> completed >= use)
BY DEF ParityPasses, ParityOf, Flip

-----------------------------------------------------------------------------
(* What the discipline says where a role waits or reads.                    *)

\* Nothing is waited for that was not issued.
LEMMA WaitedIssued ==
  ASSUME NEW size \in {2, 3}, NEW P, P # {},
         NEW issued, NEW waited, NEW released, NEW full, NEW empty, NEW pending,
         RingType(size, P, issued, waited, released, full, empty, pending),
         RingInv(size, P, issued, waited, released, full, empty, pending),
         NEW p \in P
  PROVE  released[p] <= waited[p] /\ waited[p] <= issued /\ issued <= released[p] + size
<1>1. waited[p] \in Nat /\ released[p] \in Nat /\ issued \in Nat
  BY DEF RingType
<1>2. CASE waited[p] > 0
  <2> DEFINE n == waited[p] - 1
             s == n % size
             u == n \div size
             f == Fills(full, pending, s)
  <2>0. n \in Nat
    BY <1>1, <1>2
  <2>1. n \in Nat /\ s \in RingStage(size) /\ u \in Nat /\ n = FillNumber(u, s, size)
    <3> HIDE DEF n
    <3> QED BY <2>0, StageAndUse
  <2>2. full[s] \in Nat /\ full[s] > u
    BY <1>1, <1>2, <2>1 DEF RingType, RingInv
  <2>3. f \in Nat /\ f - 1 >= u /\ f # 0
    BY <2>1, <2>2 DEF Fills
  <2>4. issued > FillNumber(f - 1, s, size)
    BY <2>1, <2>3 DEF RingInv, FillsAgree
  <2>5. FillNumber(f - 1, s, size) >= n /\ FillNumber(f - 1, s, size) \in Int
    <3> HIDE DEF f, s, u, n
    <3>1. u < f - 1 \/ u = f - 1
      BY <2>1, <2>3
    <3> QED BY <3>1, <2>1, <2>3, FillSteps
  <2> QED BY <1>1, <2>1, <2>4, <2>5 DEF RingInv
<1>3. CASE waited[p] = 0
  BY <1>1, <1>3 DEF RingInv
<1> QED BY <1>1, <1>2, <1>3

\* The producer's wait before filling n = issued (and before the filling after
\* it, when there is none) is exact, and passing it keeps the producer within
\* one ring of every release.
LEMMA ProducerWait ==
  ASSUME NEW size \in {2, 3}, NEW P, P # {},
         NEW issued, NEW waited, NEW released, NEW full, NEW empty, NEW pending,
         RingType(size, P, issued, waited, released, full, empty, pending),
         RingInv(size, P, issued, waited, released, full, empty, pending),
         NEW n, n = issued \/ n = issued + 1
  PROVE  /\ empty[n % size].done \in {(n \div size) - 1, n \div size}
         /\ empty[n % size].done >= n \div size
              => \A p \in P : n + 1 <= released[p] + size
<1> DEFINE s == n % size
           u == n \div size
           b == empty[s]
<1>1. issued \in Nat /\ n \in Nat
  BY DEF RingType
<1>2. s \in RingStage(size) /\ u \in Nat /\ n = FillNumber(u, s, size)
  BY <1>1, StageAndUse
<1>3. b.done \in Nat /\ b.arrived \subseteq P
  BY <1>2 DEF RingType, BarrierOver
<1>4. ASSUME NEW p \in P
      PROVE  /\ released[p] \in Nat /\ released[p] <= issued /\ issued <= released[p] + size
             /\ p \in b.arrived <=> released[p] > FillNumber(b.done, s, size)
             /\ released[p] <= FillNumber(b.done + 1, s, size)
             /\ released[p] > FillNumber(b.done - 1, s, size) \/ b.done = 0
  <2>1. released[p] <= waited[p] /\ waited[p] <= issued /\ issued <= released[p] + size
    BY WaitedIssued
  <2>2. released[p] \in Nat /\ waited[p] \in Nat
    BY DEF RingType
  <2>3. InRing(b, p, released[p], s, size)
    BY <1>2 DEF RingInv
  <2> HIDE DEF b
  <2> QED BY <1>1, <2>1, <2>2, <2>3 DEF InRing
<1>5. PICK p \in P : p \notin b.arrived
  <2>1. b.arrived # P
    BY <1>2 DEF RingInv
  <2> HIDE DEF b
  <2> QED BY <1>3, <2>1
<1> HIDE DEF s, u, b
<1>6. b.done <= u
  <2> SUFFICES ASSUME u < b.done PROVE FALSE
    BY <1>2, <1>3
  <2>1. released[p] > FillNumber(b.done - 1, s, size)
    BY <1>2, <1>3, <1>4
  <2>2. FillNumber(b.done - 1, s, size) >= n /\ FillNumber(b.done - 1, s, size) \in Int
    <3>1. u < b.done - 1 \/ u = b.done - 1
      BY <1>2, <1>3
    <3> QED BY <3>1, <1>2, <1>3, FillSteps
  <2> QED BY <1>1, <1>4, <2>1, <2>2
<1>7. b.done >= u - 1
  <2> SUFFICES ASSUME b.done < u - 1 PROVE FALSE
    BY <1>2, <1>3
  <2>1. released[p] <= FillNumber(b.done, s, size)
    BY <1>2, <1>3, <1>4, <1>5, FillSteps
  <2>2. FillNumber(b.done, s, size) + size <= FillNumber(u - 1, s, size)
        /\ FillNumber(u - 1, s, size) = n - size
        /\ FillNumber(b.done, s, size) \in Int
    <3>1. b.done \in Int /\ u \in Int /\ u - 1 \in Int
      BY <1>2, <1>3
    <3> QED BY <3>1, <1>2, FillSteps
  <2>3. issued <= n /\ n <= issued + 1
    BY <1>1
  <2> QED BY <1>1, <1>4, <2>1, <2>2, <2>3
<1>8. ASSUME b.done >= u, NEW q \in P PROVE n + 1 <= released[q] + size
  <2>1. b.done = u
    BY <1>2, <1>3, <1>6, <1>8
  <2>2. FillNumber(u - 1, s, size) = n - size
    BY <1>2, FillSteps
  <2>3. CASE u = 0
    BY <1>2, <1>4, <2>3 DEF FillNumber, RingStage
  <2>4. CASE u # 0
    BY <1>1, <1>2, <1>4, <2>1, <2>2, <2>4
  <2> QED BY <2>3, <2>4
<1> QED BY <1>2, <1>3, <1>6, <1>7, <1>8 DEF s, u, b

\* A consumer's wait for its next filling is exact, when it holds less than a
\* whole ring.
LEMMA ConsumerWait ==
  ASSUME NEW size \in {2, 3}, NEW P, P # {},
         NEW issued, NEW waited, NEW released, NEW full, NEW empty, NEW pending,
         RingType(size, P, issued, waited, released, full, empty, pending),
         RingInv(size, P, issued, waited, released, full, empty, pending),
         NEW p \in P, NEW n, n = waited[p]
  PROVE  full[n % size] \in {n \div size, (n \div size) + 1}
<1> DEFINE s == n % size
           u == n \div size
           f == Fills(full, pending, s)
<1>1. n \in Nat /\ issued \in Nat /\ released[p] \in Nat
      /\ released[p] <= n /\ n <= issued /\ issued <= released[p] + size
  BY WaitedIssued DEF RingType
<1>2. s \in RingStage(size) /\ u \in Nat /\ n = FillNumber(u, s, size)
  BY <1>1, StageAndUse
<1>3. full[s] \in Nat /\ f \in Nat /\ full[s] <= f
  BY <1>2 DEF RingType, Fills
<1>4. issued > FillNumber(f - 1, s, size) \/ f = 0
  BY <1>2 DEF RingInv, FillsAgree
<1>5. full[s] >= u
  <2>1. CASE u = 0
    BY <1>3, <2>1
  <2>2. CASE u # 0
    <3>1. n >= size
      BY <1>2, <2>2, StageAndUse DEF FillNumber, RingStage
    <3>2. /\ n - size \in 0 .. waited[p] - 1
          /\ (n - size) % size = s /\ (n - size) \div size = u - 1
      BY <1>1, <3>1, UseBefore
    <3>3. full[s] > u - 1
      BY <3>2 DEF RingInv
    <3> QED BY <1>2, <1>3, <3>3
  <2> QED BY <2>1, <2>2
<1> HIDE DEF s, u, f
<1>6. full[s] <= u + 1
  <2> SUFFICES ASSUME u + 1 < f PROVE FALSE
    BY <1>2, <1>3
  <2>1. FillNumber(f - 1, s, size) >= n + size /\ FillNumber(f - 1, s, size) \in Int
    <3>1. u + 1 < f - 1 \/ u + 1 = f - 1
      BY <1>2, <1>3
    <3>2. FillNumber(u + 1, s, size) = n + size
      BY <1>2, FillSteps
    <3> QED BY <3>1, <3>2, <1>2, <1>3, FillSteps
  <2> QED BY <1>1, <1>2, <1>3, <1>4, <2>1
<1> QED BY <1>2, <1>3, <1>5, <1>6 DEF s, u

\* A filling that a consumer has waited for and not released is one of the
\* last `size` issued, and no copy is under way into its stage.
LEMMA HeldStable ==
  ASSUME NEW size \in {2, 3}, NEW P, P # {},
         NEW issued, NEW waited, NEW released, NEW full, NEW empty, NEW pending,
         RingType(size, P, issued, waited, released, full, empty, pending),
         RingInv(size, P, issued, waited, released, full, empty, pending),
         NEW p \in P, NEW n \in Nat, released[p] <= n, n < waited[p]
  PROVE  issued - size <= n /\ n < issued /\ n % size \notin pending
<1> DEFINE s == n % size
           u == n \div size
           f == Fills(full, pending, s)
<1>1. issued \in Nat /\ released[p] \in Nat /\ waited[p] \in Nat
      /\ waited[p] <= issued /\ issued <= released[p] + size
  BY WaitedIssued DEF RingType
<1>2. s \in RingStage(size) /\ u \in Nat /\ n = FillNumber(u, s, size)
  BY StageAndUse
<1>3. full[s] \in Nat /\ f \in Nat /\ full[s] > u
  <2>1. n \in 0 .. waited[p] - 1
    BY <1>1
  <2> QED BY <1>2, <2>1 DEF RingType, RingInv, Fills
<1>4. issued > FillNumber(f - 1, s, size) \/ f = 0
  BY <1>2 DEF RingInv, FillsAgree
<1>5. ASSUME s \in pending PROVE FALSE
  <2>1. f = full[s] + 1
    BY <1>5 DEF Fills
  <2> HIDE DEF s, u, f
  <2>2. FillNumber(f - 1, s, size) >= n + size /\ FillNumber(f - 1, s, size) \in Int
    <3>1. u + 1 < f - 1 \/ u + 1 = f - 1
      BY <1>2, <1>3, <2>1
    <3>2. FillNumber(u + 1, s, size) = n + size
      BY <1>2, FillSteps
    <3> QED BY <3>1, <3>2, <1>2, <1>3, FillSteps
  <2> QED BY <1>1, <1>2, <1>3, <1>4, <2>1, <2>2
<1> QED BY <1>1, <1>5

-----------------------------------------------------------------------------
(* The steps of the roles keep the discipline.                              *)

\* A ring after the barriers are initialised.
LEMMA RingStart ==
  ASSUME NEW size \in {2, 3}, NEW P, P # {},
         NEW waited, NEW released, NEW full, NEW empty,
         waited = [p \in P |-> 0], released = [p \in P |-> 0],
         full = [s \in RingStage(size) |-> 0],
         empty = [s \in RingStage(size) |-> NewBarrier]
  PROVE  /\ RingType(size, P, 0, waited, released, full, empty, {})
         /\ RingInv(size, P, 0, waited, released, full, empty, {})
<1>1. RingType(size, P, 0, waited, released, full, empty, {})
  BY DEF RingType, BarrierOver, NewBarrier
<1>2. ASSUME NEW s \in RingStage(size)
      PROVE  /\ FillsAgree(Fills(full, {}, s), 0, s, size)
             /\ empty[s].arrived # P
             /\ \A p \in P : InRing(empty[s], p, released[p], s, size)
  <2>1. full[s] = 0 /\ empty[s] = NewBarrier
    OBVIOUS
  <2>2. 0 <= FillNumber(0, s, size) /\ 0 <= FillNumber(0 + 1, s, size)
    BY DEF FillNumber, RingStage
  <2>3. FillsAgree(Fills(full, {}, s), 0, s, size)
    BY <2>1, <2>2 DEF FillsAgree, Fills
  <2>4. \A p \in P : InRing(NewBarrier, p, 0, s, size)
    BY <2>2 DEF InRing, NewBarrier, FillNumber, RingStage
  <2> QED BY <2>1, <2>3, <2>4 DEF NewBarrier
<1> QED BY <1>1, <1>2 DEF RingInv

\* The producer, past its wait, issues the next filling.
LEMMA FillStep ==
  ASSUME NEW size \in {2, 3}, NEW P, P # {},
         NEW issued, NEW waited, NEW released, NEW full, NEW empty, NEW pending,
         RingType(size, P, issued, waited, released, full, empty, pending),
         RingInv(size, P, issued, waited, released, full, empty, pending),
         \A p \in P : issued + 1 <= released[p] + size
  PROVE  /\ issued % size \notin pending
         /\ RingType(size, P, issued + 1, waited, released, full, empty,
                     pending \cup {issued % size})
         /\ RingInv(size, P, issued + 1, waited, released, full, empty,
                    pending \cup {issued % size})
<1> DEFINE s == issued % size
           u == issued \div size
           more == pending \cup {s}
<1>1. issued \in Nat
  BY DEF RingType
<1>2. s \in RingStage(size) /\ u \in Nat /\ issued = FillNumber(u, s, size)
  BY <1>1, StageAndUse
<1> HIDE DEF s, u
<1>3. full[s] \in Nat
  BY <1>2 DEF RingType
<1>4. Fills(full, pending, s) = u
  <2> DEFINE f == Fills(full, pending, s)
  <2>1. f \in Nat
    BY <1>3 DEF Fills
  <2>2. issued <= FillNumber(f, s, size)
        /\ (issued > FillNumber(f - 1, s, size) \/ f = 0)
    BY <1>2 DEF RingInv, FillsAgree
  <2> HIDE DEF f
  <2>3. ~(f < u)
    BY <1>1, <1>2, <2>1, <2>2, FillSteps
  <2>4. ~(u < f)
    <3> SUFFICES ASSUME u < f PROVE FALSE
      OBVIOUS
    <3>1. u < f - 1 \/ u = f - 1
      BY <1>2, <2>1
    <3>2. FillNumber(f - 1, s, size) >= issued /\ FillNumber(f - 1, s, size) \in Int
      BY <3>1, <1>2, <2>1, FillSteps
    <3> QED BY <3>2, <1>1, <1>2, <2>1, <2>2
  <2>5. f = u
    BY <1>2, <2>1, <2>3, <2>4
  <2> QED BY <2>5 DEF f
<1>5. s \notin pending
  <2> SUFFICES ASSUME s \in pending PROVE FALSE
    OBVIOUS
  <2>1. full[s] = u - 1 /\ u >= 1
    BY <1>2, <1>3, <1>4 DEF Fills
  <2>2. issued >= size
    BY <1>2, <2>1, FillSteps, StageAndUse DEF FillNumber, RingStage
  <2> DEFINE n == issued - size
  <2>3. n \in Nat /\ n % size = s /\ n \div size = u - 1
    BY <1>1, <2>2, UseBefore DEF s, u
  <2>4. PICK p \in P : TRUE
    OBVIOUS
  <2>5. issued + 1 <= released[p] + size /\ released[p] <= waited[p]
        /\ released[p] \in Nat /\ waited[p] \in Nat
    BY DEF RingType, RingInv
  <2>6. n \in 0 .. waited[p] - 1
    BY <1>1, <2>3, <2>5
  <2> HIDE DEF n
  <2>7. full[n % size] > n \div size
    BY <2>6 DEF RingInv
  <2> QED BY <1>2, <2>1, <2>3, <2>7
<1>6. RingType(size, P, issued + 1, waited, released, full, empty, more)
  BY <1>1, <1>2 DEF RingType
<1>7. ASSUME NEW d \in RingStage(size)
      PROVE  FillsAgree(Fills(full, more, d), issued + 1, d, size)
  <2>1. CASE d = s
    <3>1. Fills(full, more, s) = u + 1
      BY <1>3, <1>4, <1>5, <1>2 DEF Fills
    <3>2. issued + 1 <= FillNumber(u + 1, s, size) /\ issued + 1 > FillNumber(u, s, size)
      BY <1>1, <1>2, FillSteps
    <3>3. u + 1 - 1 = u
      BY <1>2
    <3> QED BY <2>1, <3>1, <3>2, <3>3, <1>2 DEF FillsAgree
  <2>2. CASE d # s
    <3> DEFINE f == Fills(full, pending, d)
    <3>1. Fills(full, more, d) = f
      BY <2>2 DEF Fills
    <3>2. f \in Nat
      BY DEF Fills, RingType
    <3>3. issued <= FillNumber(f, d, size)
          /\ (issued > FillNumber(f - 1, d, size) \/ f = 0)
      BY DEF RingInv, FillsAgree
    <3> HIDE DEF f
    <3>4. issued # FillNumber(f, d, size)
      BY <1>2, <2>2, <3>2, FillsDistinct
    <3>5. FillNumber(f, d, size) \in Int /\ FillNumber(f - 1, d, size) \in Int
      BY <3>2, FillSteps
    <3>6. issued + 1 <= FillNumber(f, d, size)
          /\ (issued + 1 > FillNumber(f - 1, d, size) \/ f = 0)
      BY <1>1, <3>3, <3>4, <3>5
    <3> QED BY <3>1, <3>6 DEF FillsAgree
  <2> QED BY <2>1, <2>2
<1>8. RingInv(size, P, issued + 1, waited, released, full, empty, more)
  BY <1>7 DEF RingInv
<1> QED BY <1>5, <1>6, <1>8 DEF s

\* A copy completes: the stage's full barrier completes a phase.
LEMMA CopyStep ==
  ASSUME NEW size \in {2, 3}, NEW P, P # {},
         NEW issued, NEW waited, NEW released, NEW full, NEW empty, NEW pending,
         RingType(size, P, issued, waited, released, full, empty, pending),
         RingInv(size, P, issued, waited, released, full, empty, pending),
         NEW s \in pending, NEW newFull, newFull = [full EXCEPT ![s] = @ + 1]
  PROVE  /\ RingType(size, P, issued, waited, released, newFull, empty, pending \ {s})
         /\ RingInv(size, P, issued, waited, released, newFull, empty, pending \ {s})
<1>1. s \in RingStage(size) /\ full[s] \in Nat
  BY DEF RingType
<1>2. RingType(size, P, issued, waited, released, newFull, empty, pending \ {s})
  BY <1>1 DEF RingType
<1>3. ASSUME NEW d \in RingStage(size)
      PROVE  Fills(newFull, pending \ {s}, d) = Fills(full, pending, d)
  BY <1>1 DEF Fills, RingType
<1>4. ASSUME NEW p \in P, NEW n \in 0 .. waited[p] - 1
      PROVE  newFull[n % size] > n \div size
  <2>1. n \in Nat
    BY <1>4 DEF RingType
  <2>2. n % size \in RingStage(size) /\ n \div size \in Nat
    BY <2>1, StageAndUse
  <2>3. full[n % size] > n \div size
    BY DEF RingInv
  <2>4. newFull[n % size] >= full[n % size] /\ newFull[n % size] \in Nat /\ full[n % size] \in Nat
    BY <1>1, <2>2 DEF RingType
  <2> QED BY <2>2, <2>3, <2>4
<1> QED BY <1>2, <1>3, <1>4 DEF RingInv

\* A consumer passes its wait for its next filling.
LEMMA WaitStep ==
  ASSUME NEW size \in {2, 3}, NEW P, P # {},
         NEW issued, NEW waited, NEW released, NEW full, NEW empty, NEW pending,
         RingType(size, P, issued, waited, released, full, empty, pending),
         RingInv(size, P, issued, waited, released, full, empty, pending),
         NEW p \in P, NEW n, n = waited[p], full[n % size] > n \div size,
         NEW newWaited, newWaited = [waited EXCEPT ![p] = n + 1]
  PROVE  /\ RingType(size, P, issued, newWaited, released, full, empty, pending)
         /\ RingInv(size, P, issued, newWaited, released, full, empty, pending)
<1>1. n \in Nat /\ released[p] \in Nat /\ waited \in [P -> Nat]
  BY DEF RingType
<1>2. RingType(size, P, issued, newWaited, released, full, empty, pending)
  BY <1>1 DEF RingType
<1>3. ASSUME NEW q \in P
      PROVE  /\ released[q] <= newWaited[q]
             /\ \A m \in 0 .. newWaited[q] - 1 : full[m % size] > m \div size
  <2>1. CASE q # p
    BY <1>1, <2>1 DEF RingInv
  <2>2. CASE q = p
    <3>1. newWaited[q] = n + 1 /\ released[p] <= n
      BY <1>1, <2>2 DEF RingInv
    <3>2. \A m \in 0 .. n : m = n \/ m \in 0 .. waited[p] - 1
      BY <1>1
    <3>3. \A m \in 0 .. n : full[m % size] > m \div size
      BY <3>2 DEF RingInv
    <3> QED BY <1>1, <2>2, <3>1, <3>3
  <2> QED BY <2>1, <2>2
<1> QED BY <1>2, <1>3 DEF RingInv

\* A consumer releases the filling it has held longest.
LEMMA ReleaseStep ==
  ASSUME NEW size \in {2, 3}, NEW P, P # {},
         NEW issued, NEW waited, NEW released, NEW full, NEW empty, NEW pending,
         RingType(size, P, issued, waited, released, full, empty, pending),
         RingInv(size, P, issued, waited, released, full, empty, pending),
         NEW p \in P, NEW n, n = released[p], n < waited[p],
         NEW newEmpty, newEmpty = [empty EXCEPT ![n % size] = Arrive(@, p, P)],
         NEW newReleased, newReleased = [released EXCEPT ![p] = n + 1]
  PROVE  /\ RingType(size, P, issued, waited, newReleased, full, newEmpty, pending)
         /\ RingInv(size, P, issued, waited, newReleased, full, newEmpty, pending)
<1> DEFINE s == n % size
           u == n \div size
           b == empty[s]
           a == Arrive(b, p, P)
<1>1. n \in Nat /\ issued \in Nat /\ waited[p] \in Nat
  BY DEF RingType
<1>2. s \in RingStage(size) /\ u \in Nat /\ n = FillNumber(u, s, size)
  BY <1>1, StageAndUse
<1>3. b \in BarrierOver(P) /\ b.done \in Nat /\ b.arrived \subseteq P
  BY <1>2 DEF RingType, BarrierOver
<1>4. ASSUME NEW q \in P
      PROVE  /\ released[q] \in Nat /\ newReleased[q] = (IF q = p THEN n + 1 ELSE released[q])
             /\ n < released[q] + size
             /\ q \in b.arrived <=> released[q] > FillNumber(b.done, s, size)
             /\ released[q] <= FillNumber(b.done + 1, s, size)
             /\ released[q] > FillNumber(b.done - 1, s, size) \/ b.done = 0
  <2>1. released[q] \in Nat /\ newReleased[q] = (IF q = p THEN n + 1 ELSE released[q])
    BY DEF RingType
  <2>2. waited[p] <= issued /\ issued <= released[q] + size
    <3>1. waited[p] <= issued
      BY WaitedIssued
    <3> QED BY <3>1, WaitedIssued
  <2>3. InRing(b, q, released[q], s, size)
    BY <1>2 DEF RingInv
  <2> HIDE DEF b
  <2> QED BY <1>1, <2>1, <2>2, <2>3 DEF InRing
<1>5. PICK slow \in P : slow \notin b.arrived
  <2>1. b.arrived # P
    BY <1>2 DEF RingInv
  <2> HIDE DEF b
  <2> QED BY <1>3, <2>1
<1>6. a \in BarrierOver(P) /\ a.arrived # P
      /\ \/ /\ a.done = b.done + 1 /\ a.arrived = {}
            /\ \A q \in P : q # p => q \in b.arrived
         \/ a.done = b.done /\ a.arrived = b.arrived \cup {p}
  <2> HIDE DEF b
  <2> QED BY <1>3 DEF Arrive, BarrierOver, a
<1> HIDE DEF s, u, b, a
<1>7. b.done = u
  <2>1. ~(b.done < u)
    <3> SUFFICES ASSUME b.done < u PROVE FALSE
      OBVIOUS
    <3>1. FillNumber(b.done, s, size) + size <= n /\ FillNumber(b.done, s, size) \in Int
      BY <1>2, <1>3, FillSteps
    <3>2. released[slow] <= FillNumber(b.done, s, size)
      BY <1>4, <1>5, <3>1
    <3> QED BY <1>1, <1>4, <3>1, <3>2
  <2>2. ~(u < b.done)
    <3> SUFFICES ASSUME u < b.done PROVE FALSE
      OBVIOUS
    <3>1. n > FillNumber(b.done - 1, s, size)
      <4>1. released[p] > FillNumber(b.done - 1, s, size) \/ b.done = 0
        BY <1>4
      <4> QED BY <4>1, <1>2, <1>3
    <3>2. u < b.done - 1 \/ u = b.done - 1
      BY <1>2, <1>3
    <3>3. FillNumber(b.done - 1, s, size) >= n /\ FillNumber(b.done - 1, s, size) \in Int
      BY <3>2, <1>2, <1>3, FillSteps
    <3> QED BY <1>1, <3>1, <3>3
  <2> QED BY <1>2, <1>3, <2>1, <2>2
<1>8. ASSUME NEW q \in P PROVE InRing(a, q, newReleased[q], s, size)
  <2> DEFINE r == newReleased[q]
             prev == FillNumber(u - 1, s, size)
             next == FillNumber(u + 1, s, size)
  <2>1. /\ prev = n - size /\ next = n + size /\ FillNumber(u, s, size) = n
        /\ FillNumber(u + 1 + 1, s, size) = n + size + size
        /\ u + 1 - 1 = u
    <3>1. next = n + size /\ prev = n - size
      BY <1>2, FillSteps
    <3>2. u + 1 \in Int
      BY <1>2
    <3>3. FillNumber(u + 1 + 1, s, size) = next + size
      BY <1>2, <3>2, FillSteps
    <3> QED BY <3>1, <3>2, <3>3, <1>2
  <2>2. r \in Nat /\ r <= n + size /\ (r > n - size \/ u = 0)
        /\ (q # p => (q \in b.arrived <=> r > n))
        /\ (q = p => r = n + 1)
    BY <1>1, <1>2, <1>4, <1>7, <2>1
  <2> HIDE DEF r, prev, next
  <2>3. CASE a.done = b.done + 1 /\ a.arrived = {} /\ (\A v \in P : v # p => v \in b.arrived)
    <3>1. r > n
      BY <1>1, <2>2, <2>3
    <3> QED BY <1>1, <1>2, <1>7, <2>1, <2>2, <2>3, <3>1 DEF InRing, r, prev, next
  <2>4. CASE a.done = b.done /\ a.arrived = b.arrived \cup {p}
    BY <1>1, <1>2, <1>7, <2>1, <2>2, <2>4 DEF InRing, r, prev, next
  <2> QED BY <1>6, <2>3, <2>4
<1>9. ASSUME NEW d \in RingStage(size), d # s, NEW q \in P
      PROVE  InRing(empty[d], q, newReleased[q], d, size)
  <2>1. InRing(empty[d], q, released[q], d, size)
    BY DEF RingInv
  <2>2. CASE q # p
    BY <1>4, <2>1, <2>2
  <2>3. CASE q = p
    <3> DEFINE e == empty[d]
    <3>1. e.done \in Nat
      BY DEF RingType, BarrierOver
    <3> HIDE DEF e
    <3>2. ASSUME NEW f \in Int PROVE n # FillNumber(f, d, size) /\ FillNumber(f, d, size) \in Int
      BY <1>2, <1>9, FillsDistinct, FillSteps
    <3>3. InRing(e, p, n, d, size)
      BY <2>1, <2>3 DEF e
    <3>4. e.done + 1 \in Int /\ e.done - 1 \in Int /\ e.done \in Int
      BY <3>1
    <3>5. InRing(e, p, n + 1, d, size)
      BY <1>1, <3>1, <3>2, <3>3, <3>4 DEF InRing
    <3> QED BY <1>4, <2>3, <3>5 DEF e
  <2> QED BY <2>2, <2>3
<1>10. newReleased \in [P -> Nat] /\ newEmpty \in [RingStage(size) -> BarrierOver(P)]
       /\ newEmpty[s] = a /\ \A d \in RingStage(size) : d # s => newEmpty[d] = empty[d]
  BY <1>1, <1>2, <1>6 DEF RingType, a, b, s
<1>11. RingType(size, P, issued, waited, newReleased, full, newEmpty, pending)
  BY <1>10 DEF RingType
<1>12. ASSUME NEW q \in P
       PROVE  newReleased[q] <= waited[q] /\ issued <= newReleased[q] + size
  <2>1. released[q] <= waited[q] /\ issued <= released[q] + size /\ waited[q] \in Nat
    BY DEF RingInv, RingType
  <2> QED BY <1>1, <1>4, <2>1
<1>13. ASSUME NEW d \in RingStage(size)
       PROVE  /\ newEmpty[d].arrived # P
              /\ \A q \in P : InRing(newEmpty[d], q, newReleased[q], d, size)
  <2>1. CASE d = s
    BY <1>6, <1>8, <1>10, <2>1
  <2>2. CASE d # s
    <3>1. newEmpty[d] = empty[d]
      BY <1>10, <2>2
    <3>2. empty[d].arrived # P
      BY DEF RingInv
    <3> QED BY <1>9, <2>2, <3>1, <3>2
  <2> QED BY <2>1, <2>2
<1> QED BY <1>11, <1>12, <1>13 DEF RingInv
=============================================================================
