------------------------------ MODULE SumTheorems ------------------------------
(***************************************************************************)
(* Facts about SumFunctionOnSet, the sum over a finite set in which the    *)
(* ledgers of the schedulers are stated, and about Min and Max.  The sum   *)
(* is a fold, hence a recursive function over the subsets of the set; what *)
(* it computes is proved by induction on the number of elements.           *)
(***************************************************************************)
EXTENDS Integers, Functions, FiniteSetsExt, FiniteSetTheorems, WellFoundedInduction, TLAPS

\* g sums f over every set in Q, element by element.
IsSumOn(g, f, Q) ==
  g = [s \in Q |-> IF s = {} THEN 0
                   ELSE LET x == CHOOSE y \in s : TRUE IN f[x] + g[s \ {x}]]

\* Induction: n is in T when all smaller numbers are.
LEMMA SetInduction ==
  ASSUME NEW T, \A n \in Nat : (\A m \in 0 .. (n - 1) : m \in T) => n \in T
  PROVE  Nat \subseteq T
<1> SUFFICES ASSUME Nat \ T # {} PROVE FALSE
  OBVIOUS
<1> DEFINE R == OpToRel(<, Nat)
           C == Nat \ T
<1>1. IsWellFoundedOn(R, Nat)
  BY NatLessThanWellFounded
<1>2. \A x, y \in Nat : x < y => <<x, y>> \in R
  BY DEF OpToRel
<1>3. C \subseteq Nat /\ C # {}
  OBVIOUS
<1> HIDE DEF R
<1>4. PICK n \in C : \A m \in C : ~(<<m, n>> \in R)
  <2> HIDE DEF C
  <2> QED
    BY <1>1, <1>3, WFMin
<1>5. \A m \in 0 .. (n - 1) : m \in T
  <2> TAKE m \in 0 .. (n - 1)
  <2>1. m \in Nat /\ n \in Nat /\ m < n
    OBVIOUS
  <2> QED
    BY <1>2, <1>4, <2>1
<1> QED
  BY <1>4, <1>5

\* The elements of a recursive sum.
LEMMA SumOnValue ==
  ASSUME NEW f, NEW Q, NEW g, IsSumOn(g, f, Q), NEW s \in Q
  PROVE  /\ s = {} => g[s] = 0
         /\ s # {} => \E x \in s : x = (CHOOSE y \in s : TRUE) /\ g[s] = f[x] + g[s \ {x}]
<1>1. g[s] = IF s = {} THEN 0 ELSE f[CHOOSE y \in s : TRUE] + g[s \ {CHOOSE y \in s : TRUE}]
  BY Zenon DEF IsSumOn
<1>2. s # {} => (CHOOSE y \in s : TRUE) \in s
  OBVIOUS
<1> DEFINE c == CHOOSE y \in s : TRUE
<1> HIDE DEF c
<1>3. CASE s = {}
  BY <1>1, <1>3
<1>4. CASE s # {}
  <2>1. g[s] = f[c] + g[s \ {c}]
    BY <1>1, <1>4 DEF c
  <2>2. c \in s /\ c = (CHOOSE y \in s : TRUE)
    BY <1>2, <1>4 DEF c
  <2> QED
    BY <1>4, <2>1, <2>2, Zenon
<1> QED
  BY <1>3, <1>4

\* The recursive sum exists on the sets of at most n elements.
LEMMA SumExists ==
  ASSUME NEW f, NEW S, IsFiniteSet(S)
  PROVE  \E g : IsSumOn(g, f, SUBSET S)
<1> DEFINE Upto(n) == {s \in SUBSET S : Cardinality(s) <= n}
           T == {n \in Nat : \E g : IsSumOn(g, f, Upto(n))}
<1>1. \A s \in SUBSET S : IsFiniteSet(s) /\ Cardinality(s) \in Nat /\ Cardinality(s) <= Cardinality(S)
  BY FS_Subset, FS_CardinalityType
<1>2. ASSUME NEW n \in Nat, \A m \in 0 .. (n - 1) : m \in T
      PROVE  n \in T
  <2>1. CASE n = 0
    <3> DEFINE g == [s \in Upto(n) |-> 0]
    <3>1. \A s \in Upto(n) : s = {}
      BY <1>1, <2>1, FS_EmptySet
    <3>2. IsSumOn(g, f, Upto(n))
      <4> HIDE DEF Upto
      <4> QED
        BY <3>1 DEF IsSumOn
    <3> QED
      BY <3>2
  <2>2. CASE n # 0
    <3>1. PICK h : IsSumOn(h, f, Upto(n - 1))
      BY <1>2, <2>2
    <3> DEFINE E(s) == IF s = {} THEN 0 ELSE f[CHOOSE y \in s : TRUE] + h[s \ {CHOOSE y \in s : TRUE}]
               g == [s \in Upto(n) |-> E(s)]
    <3>2. \A s \in Upto(n - 1) : s \in Upto(n) /\ h[s] = g[s]
      <4> TAKE s \in Upto(n - 1)
      <4>1. s \in Upto(n)
        BY <1>1
      <4>2. h[s] = IF s = {} THEN 0 ELSE f[CHOOSE y \in s : TRUE] + h[s \ {CHOOSE y \in s : TRUE}]
        BY <3>1, Zenon DEF IsSumOn
      <4> HIDE DEF Upto
      <4> QED
        BY <4>1, <4>2
    <3>3. \A s \in Upto(n) : s # {} => s \ {CHOOSE y \in s : TRUE} \in Upto(n - 1)
      <4> SUFFICES ASSUME NEW s \in Upto(n), s # {} PROVE s \ {CHOOSE y \in s : TRUE} \in Upto(n - 1)
        OBVIOUS
      <4> DEFINE c == CHOOSE y \in s : TRUE
      <4>1. c \in s
        OBVIOUS
      <4> HIDE DEF c
      <4>2. Cardinality(s \ {c}) = Cardinality(s) - 1
        BY <1>1, <4>1, FS_RemoveElement
      <4>3. s \ {c} \in Upto(n - 1)
        BY <1>1, <4>2
      <4> QED
        BY <4>3 DEF c
    <3>4. IsSumOn(g, f, Upto(n))
      <4>1. \A s \in Upto(n) : s # {} => h[s \ {CHOOSE y \in s : TRUE}] = g[s \ {CHOOSE y \in s : TRUE}]
        <5> HIDE DEF Upto, g
        <5> QED
          BY <3>2, <3>3, Zenon
      <4>2. g = [s \in Upto(n) |-> IF s = {} THEN 0
                   ELSE f[CHOOSE y \in s : TRUE] + g[s \ {CHOOSE y \in s : TRUE}]]
        <5> HIDE DEF Upto
        <5>1. g = [s \in Upto(n) |-> g[s]]
          <6> HIDE DEF E
          <6> QED
            OBVIOUS
        <5>2. \A s \in Upto(n) :
                g[s] = IF s = {} THEN 0 ELSE f[CHOOSE y \in s : TRUE] + h[s \ {CHOOSE y \in s : TRUE}]
          BY Zenon
        <5> HIDE DEF g
        <5>3. \A s \in Upto(n) :
                g[s] = IF s = {} THEN 0 ELSE f[CHOOSE y \in s : TRUE] + g[s \ {CHOOSE y \in s : TRUE}]
          <6> SUFFICES ASSUME NEW s \in Upto(n)
                       PROVE  g[s] = IF s = {} THEN 0 ELSE f[CHOOSE y \in s : TRUE] + g[s \ {CHOOSE y \in s : TRUE}]
            BY Zenon
          <6> DEFINE c == CHOOSE y \in s : TRUE
          <6>1. g[s] = IF s = {} THEN 0 ELSE f[c] + h[s \ {c}]
            BY <5>2, Zenon
          <6>2. s # {} => h[s \ {c}] = g[s \ {c}]
            BY <4>1, Zenon
          <6>3. g[s] = IF s = {} THEN 0 ELSE f[c] + g[s \ {c}]
            <7> HIDE DEF c
            <7> QED
              BY <6>1, <6>2
          <6> QED
            BY <6>3, Zenon
        <5> QED
          BY <5>1, <5>3, Zenon
      <4> HIDE DEF g, Upto
      <4> QED
        BY <4>2, Zenon DEF IsSumOn
    <3> HIDE DEF g
    <3> QED
      BY <3>4
  <2> QED
    BY <2>1, <2>2
<1>3. Nat \subseteq T
  <2> HIDE DEF T
  <2> QED
    BY <1>2, SetInduction
<1>4. Upto(Cardinality(S)) = SUBSET S
  BY <1>1
<1>5. Cardinality(S) \in Nat
  BY FS_CardinalityType
<1>6. \E g : IsSumOn(g, f, Upto(Cardinality(S)))
  BY <1>3, <1>5
<1> QED
  BY <1>4, <1>6

\* Two recursive sums of functions that agree on A agree on the subsets of A.
LEMMA SumUnique ==
  ASSUME NEW A, IsFiniteSet(A), NEW f, NEW f2, \A x \in A : f[x] = f2[x],
         NEW Q, NEW Q2, SUBSET A \subseteq Q, SUBSET A \subseteq Q2,
         NEW g, NEW g2, IsSumOn(g, f, Q), IsSumOn(g2, f2, Q2)
  PROVE  g[A] = g2[A]
<1> DEFINE T == {n \in Nat : \A s \in SUBSET A : Cardinality(s) = n => g[s] = g2[s]}
<1>1. \A s \in SUBSET A : IsFiniteSet(s) /\ Cardinality(s) \in Nat
  BY FS_Subset, FS_CardinalityType
<1>2. ASSUME NEW n \in Nat, \A m \in 0 .. (n - 1) : m \in T
      PROVE  n \in T
  <2> SUFFICES ASSUME NEW s \in SUBSET A, Cardinality(s) = n PROVE g[s] = g2[s]
    OBVIOUS
  <2>1. CASE s = {}
    BY <2>1, SumOnValue
  <2>2. CASE s # {}
    <3>1. PICK x \in s : x = (CHOOSE y \in s : TRUE) /\ g[s] = f[x] + g[s \ {x}]
      <4> s \in Q
        OBVIOUS
      <4> HIDE DEF T
      <4> QED
        BY <2>2, SumOnValue
    <3>2. PICK x2 \in s : x2 = (CHOOSE y \in s : TRUE) /\ g2[s] = f2[x2] + g2[s \ {x2}]
      <4> s \in Q2
        OBVIOUS
      <4> HIDE DEF T
      <4> QED
        BY <2>2, SumOnValue
    <3>3. Cardinality(s \ {x}) = n - 1 /\ n - 1 \in 0 .. (n - 1)
      <4>1. Cardinality(s \ {x}) = Cardinality(s) - 1
        BY <1>1, FS_RemoveElement
      <4>2. Cardinality(s \ {x}) \in Nat
        BY <1>1
      <4> QED
        BY <4>1, <4>2
    <3>4. g[s \ {x}] = g2[s \ {x}]
      BY <1>2, <3>3
    <3>5. x = x2 /\ f[x] = f2[x]
      BY <3>1, <3>2
    <3> QED
      BY <3>1, <3>2, <3>4, <3>5
  <2> QED
    BY <2>1, <2>2
<1>3. Nat \subseteq T
  <2> HIDE DEF T
  <2> QED
    BY <1>2, SetInduction
<1> QED
  BY <1>1, <1>3

\* SumFunctionOnSet is a recursive sum.
LEMMA SumUnfold ==
  ASSUME NEW f, NEW S, IsFiniteSet(S)
  PROVE  \E g : IsSumOn(g, f, SUBSET S) /\ SumFunctionOnSet(f, S) = g[S]
<1> DEFINE h == CHOOSE h : IsSumOn(h, f, SUBSET S)
<1>1. IsSumOn(h, f, SUBSET S)
  BY SumExists, Zenon
<1>2. SumFunctionOnSet(f, S) = h[S]
  BY Zenon DEF SumFunctionOnSet, FoldFunctionOnSet, MapThenFoldSet, IsSumOn
<1> QED
  BY <1>1, <1>2, Zenon

\* Functions that agree on a set have the same sum over it.
LEMMA SumSame ==
  ASSUME NEW S, IsFiniteSet(S), NEW f, NEW g, \A x \in S : f[x] = g[x]
  PROVE  SumFunctionOnSet(f, S) = SumFunctionOnSet(g, S)
<1>1. PICK h : IsSumOn(h, f, SUBSET S) /\ SumFunctionOnSet(f, S) = h[S]
  BY SumUnfold
<1>2. PICK k : IsSumOn(k, g, SUBSET S) /\ SumFunctionOnSet(g, S) = k[S]
  BY SumUnfold
<1>3. h[S] = k[S]
  BY <1>1, <1>2, SumUnique
<1> QED
  BY <1>1, <1>2, <1>3

LEMMA SumEmpty ==
  ASSUME NEW f
  PROVE  SumFunctionOnSet(f, {}) = 0
<1>1. PICK h : IsSumOn(h, f, SUBSET {}) /\ SumFunctionOnSet(f, {}) = h[{}]
  BY SumUnfold, FS_EmptySet
<1>2. h[{}] = 0
  BY <1>1, SumOnValue
<1> QED
  BY <1>1, <1>2

\* The sum takes some element first.
LEMMA SumStep ==
  ASSUME NEW f, NEW S, IsFiniteSet(S), S # {}
  PROVE  \E x \in S : SumFunctionOnSet(f, S) = f[x] + SumFunctionOnSet(f, S \ {x})
<1>1. PICK h : IsSumOn(h, f, SUBSET S) /\ SumFunctionOnSet(f, S) = h[S]
  BY SumUnfold
<1>2. PICK x \in S : h[S] = f[x] + h[S \ {x}]
  BY <1>1, SumOnValue
<1>3. IsFiniteSet(S \ {x})
  BY FS_Subset
<1>4. PICK k : IsSumOn(k, f, SUBSET (S \ {x})) /\ SumFunctionOnSet(f, S \ {x}) = k[S \ {x}]
  BY <1>3, SumUnfold
<1>5. h[S \ {x}] = k[S \ {x}]
  <2> DEFINE A == S \ {x}
  <2>1. SUBSET A \subseteq SUBSET S /\ SUBSET A \subseteq SUBSET A /\ \A y \in A : f[y] = f[y]
    OBVIOUS
  <2> HIDE DEF A
  <2>2. IsFiniteSet(A) /\ IsSumOn(h, f, SUBSET S) /\ IsSumOn(k, f, SUBSET A)
    BY <1>1, <1>3, <1>4 DEF A
  <2>3. h[A] = k[A]
    BY <2>1, <2>2, SumUnique
  <2> QED
    BY <2>3 DEF A
<1> QED
  BY <1>1, <1>2, <1>4, <1>5

\* The sum stays in a set that is closed under addition.
LEMMA SumClosed ==
  ASSUME NEW N, 0 \in N, \A a, b \in N : a + b \in N, NEW S, IsFiniteSet(S), NEW f, \A x \in S : f[x] \in N
  PROVE  SumFunctionOnSet(f, S) \in N
<1> DEFINE T == {n \in Nat : \A s \in SUBSET S : Cardinality(s) = n => SumFunctionOnSet(f, s) \in N}
<1>1. \A s \in SUBSET S : IsFiniteSet(s) /\ Cardinality(s) \in Nat
  BY FS_Subset, FS_CardinalityType
<1>2. ASSUME NEW n \in Nat, \A m \in 0 .. (n - 1) : m \in T
      PROVE  n \in T
  <2> SUFFICES ASSUME NEW s \in SUBSET S, Cardinality(s) = n PROVE SumFunctionOnSet(f, s) \in N
    OBVIOUS
  <2>1. CASE s = {}
    BY <2>1, SumEmpty
  <2>2. CASE s # {}
    <3>1. PICK x \in s : SumFunctionOnSet(f, s) = f[x] + SumFunctionOnSet(f, s \ {x})
      BY <1>1, <2>2, SumStep
    <3>2. Cardinality(s \ {x}) = Cardinality(s) - 1
      BY <1>1, FS_RemoveElement
    <3>3. Cardinality(s \ {x}) \in Nat /\ s \ {x} \in SUBSET S
      BY <1>1
    <3>4. n - 1 \in 0 .. (n - 1) /\ Cardinality(s \ {x}) = n - 1
      BY <3>2, <3>3
    <3>5. SumFunctionOnSet(f, s \ {x}) \in N /\ f[x] \in N
      BY <1>2, <3>3, <3>4
    <3> QED
      BY <3>1, <3>5
  <2> QED
    BY <2>1, <2>2
<1>3. Nat \subseteq T
  <2> HIDE DEF T
  <2> QED
    BY <1>2, SetInduction
<1> QED
  BY <1>1, <1>3

\* The sum of integers is an integer, that of natural numbers a natural number.
LEMMA SumType ==
  ASSUME NEW N \in {Nat, Int}, NEW S, IsFiniteSet(S), NEW f, \A x \in S : f[x] \in N
  PROVE  SumFunctionOnSet(f, S) \in N
<1>1. 0 \in N /\ \A a, b \in N : a + b \in N
  OBVIOUS
<1> QED
  BY <1>1, SumClosed

LEMMA SumZero ==
  ASSUME NEW S, IsFiniteSet(S), NEW f, \A x \in S : f[x] = 0
  PROVE  SumFunctionOnSet(f, S) = 0
<1>1. 0 \in {0} /\ \A a, b \in {0} : a + b \in {0}
  OBVIOUS
<1>2. SumFunctionOnSet(f, S) \in {0}
  BY <1>1, SumClosed
<1> QED
  BY <1>2

\* The order of the elements does not matter.
LEMMA SumRemove ==
  ASSUME NEW S, IsFiniteSet(S), NEW f, \A y \in S : f[y] \in Int, NEW x \in S
  PROVE  SumFunctionOnSet(f, S) = SumFunctionOnSet(f, S \ {x}) + f[x]
<1> DEFINE Sum(s) == SumFunctionOnSet(f, s)
           T == {n \in Nat : \A s \in SUBSET S : Cardinality(s) = n =>
                               \A z \in s : Sum(s) = Sum(s \ {z}) + f[z]}
<1>1. \A s \in SUBSET S : IsFiniteSet(s) /\ Cardinality(s) \in Nat /\ Sum(s) \in Int
  BY FS_Subset, FS_CardinalityType, SumType
<1>2. \A s \in SUBSET S : s # {} => \E y \in s : Sum(s) = f[y] + Sum(s \ {y})
  BY <1>1, SumStep
<1>3. \A s \in SUBSET S : \A y \in s : Cardinality(s \ {y}) = Cardinality(s) - 1
  BY <1>1, FS_RemoveElement
<1> HIDE DEF Sum
<1>4. ASSUME NEW n \in Nat, \A m \in 0 .. (n - 1) : m \in T
      PROVE  n \in T
  <2> SUFFICES ASSUME NEW s \in SUBSET S, Cardinality(s) = n, NEW z \in s PROVE Sum(s) = Sum(s \ {z}) + f[z]
    OBVIOUS
  <2>1. PICK y \in s : Sum(s) = f[y] + Sum(s \ {y})
    BY <1>2
  <2>2. f[y] \in Int /\ f[z] \in Int /\ Sum(s \ {y}) \in Int /\ Sum(s \ {z}) \in Int
    BY <1>1
  <2>3. CASE y = z
    BY <2>1, <2>2, <2>3
  <2>4. CASE y # z
    <3>1. /\ s \ {y} \in SUBSET S /\ z \in s \ {y} /\ s \ {z} \in SUBSET S /\ y \in s \ {z}
          /\ (s \ {y}) \ {z} \in SUBSET S /\ (s \ {z}) \ {y} = (s \ {y}) \ {z}
      BY <2>4
    <3>2. /\ Cardinality(s \ {y}) = n - 1 /\ Cardinality(s \ {z}) = n - 1
          /\ n - 1 \in 0 .. (n - 1)
      <4>1. Cardinality(s \ {y}) = Cardinality(s) - 1 /\ Cardinality(s \ {z}) = Cardinality(s) - 1
        BY <1>3
      <4>2. Cardinality(s \ {y}) \in Nat
        BY <1>1, <3>1
      <4> QED
        BY <4>1, <4>2
    <3>3. Sum(s \ {y}) = Sum((s \ {y}) \ {z}) + f[z]
      BY <1>4, <3>1, <3>2
    <3>4. Sum(s \ {z}) = Sum((s \ {z}) \ {y}) + f[y]
      BY <1>4, <3>1, <3>2
    <3>5. Sum((s \ {y}) \ {z}) \in Int
      BY <1>1, <3>1
    <3>6. Sum(s \ {z}) = Sum((s \ {y}) \ {z}) + f[y]
      BY <3>1, <3>4
    <3> HIDE DEF T
    <3> QED
      BY <2>1, <2>2, <3>3, <3>5, <3>6
  <2> QED
    BY <2>3, <2>4
<1>5. Nat \subseteq T
  <2> HIDE DEF T
  <2> QED
    BY <1>4, SetInduction
<1>6. Sum(S) = Sum(S \ {x}) + f[x]
  <2>1. Cardinality(S) \in T /\ S \in SUBSET S
    BY <1>1, <1>5
  <2> QED
    BY <2>1
<1> QED
  BY <1>6 DEF Sum

\* A new element adds its value.
LEMMA SumAdd ==
  ASSUME NEW S, IsFiniteSet(S), NEW x, x \notin S, NEW f, \A y \in S \cup {x} : f[y] \in Int
  PROVE  SumFunctionOnSet(f, S \cup {x}) = SumFunctionOnSet(f, S) + f[x]
<1> DEFINE U == S \cup {x}
<1>1. IsFiniteSet(U)
  BY FS_AddElement
<1>2. U \ {x} = S /\ x \in U /\ \A y \in U : f[y] \in Int
  OBVIOUS
<1> HIDE DEF U
<1>3. SumFunctionOnSet(f, U) = SumFunctionOnSet(f, U \ {x}) + f[x]
  BY <1>1, <1>2, SumRemove
<1> QED
  BY <1>2, <1>3 DEF U

\* A change of one value changes the sum by the difference.
LEMMA SumUpdate ==
  ASSUME NEW S, IsFiniteSet(S), NEW x \in S, NEW f, NEW g, \A y \in S : f[y] \in Int /\ g[y] \in Int,
         \A y \in S \ {x} : g[y] = f[y]
  PROVE  SumFunctionOnSet(g, S) = SumFunctionOnSet(f, S) + (g[x] - f[x])
<1>1. SumFunctionOnSet(f, S) = SumFunctionOnSet(f, S \ {x}) + f[x]
  BY SumRemove
<1>2. SumFunctionOnSet(g, S) = SumFunctionOnSet(g, S \ {x}) + g[x]
  BY SumRemove
<1>3. IsFiniteSet(S \ {x})
  BY FS_Subset
<1>4. SumFunctionOnSet(f, S \ {x}) = SumFunctionOnSet(g, S \ {x})
  BY <1>3, SumSame
<1>5. SumFunctionOnSet(f, S \ {x}) \in Int
  BY <1>3, SumType
<1> QED
  BY <1>1, <1>2, <1>4, <1>5

\* No term of a sum of natural numbers exceeds it.
LEMMA SumBound ==
  ASSUME NEW S, IsFiniteSet(S), NEW f, \A y \in S : f[y] \in Nat, NEW x \in S
  PROVE  f[x] <= SumFunctionOnSet(f, S)
<1>1. SumFunctionOnSet(f, S) = SumFunctionOnSet(f, S \ {x}) + f[x]
  BY SumRemove
<1>2. IsFiniteSet(S \ {x})
  BY FS_Subset
<1>3. SumFunctionOnSet(f, S \ {x}) \in Nat
  BY <1>2, SumType
<1> QED
  BY <1>1, <1>3
-----------------------------------------------------------------------------
(* Least and greatest elements.                                            *)

\* A nonempty set of natural numbers has a least element.
LEMMA NatMin ==
  ASSUME NEW T \in SUBSET Nat, T # {}
  PROVE  Min(T) \in T /\ \A y \in T : Min(T) <= y
<1> SUFFICES \E x \in T : \A y \in T : x <= y
  BY DEF Min
<1> SUFFICES ASSUME \A x \in T : \E y \in T : ~(x <= y) PROVE FALSE
  OBVIOUS
<1>1. \A n \in Nat : (\A m \in 0 .. (n - 1) : m \in Nat \ T) => n \in Nat \ T
  <2> SUFFICES ASSUME NEW n \in Nat, \A m \in 0 .. (n - 1) : m \in Nat \ T, n \in T PROVE FALSE
    OBVIOUS
  <2>1. PICK y \in T : ~(n <= y)
    OBVIOUS
  <2> QED
    BY <2>1
<1>2. Nat \subseteq Nat \ T
  <2> DEFINE C == Nat \ T
  <2>1. \A n \in Nat : (\A m \in 0 .. (n - 1) : m \in C) => n \in C
    BY <1>1
  <2> HIDE DEF C
  <2>2. Nat \subseteq C
    BY <2>1, SetInduction
  <2> QED
    BY <2>2 DEF C
<1> QED
  BY <1>2

\* A nonempty finite set of natural numbers has a greatest element: none exceeds the sum
\* of all.
LEMMA NatMax ==
  ASSUME NEW T \in SUBSET Nat, T # {}, IsFiniteSet(T)
  PROVE  Max(T) \in T /\ \A y \in T : y <= Max(T)
<1> DEFINE id == [x \in T |-> x]
           n == SumFunctionOnSet(id, T)
           R == {n - x : x \in T}
<1>1. \A x \in T : id[x] = x /\ id[x] \in Nat
  OBVIOUS
<1> HIDE DEF id
<1>2. n \in Nat
  BY <1>1, SumType
<1>3. \A x \in T : x <= n
  <2> TAKE x \in T
  <2>1. id[x] <= SumFunctionOnSet(id, T)
    BY <1>1, SumBound
  <2> QED
    BY <1>1, <2>1
<1> HIDE DEF n
<1>4. R \in SUBSET Nat /\ R # {}
  <2>1. \A x \in T : n - x \in Nat
    BY <1>2, <1>3
  <2>2. PICK x \in T : TRUE
    OBVIOUS
  <2>3. n - x \in R
    OBVIOUS
  <2> QED
    BY <2>1, <2>3
<1>5. Min(R) \in R /\ \A y \in R : Min(R) <= y
  <2> HIDE DEF R
  <2> QED
    BY <1>4, NatMin
<1>6. PICK x \in T : Min(R) = n - x
  BY <1>5
<1>7. \A y \in T : y <= x
  <2> TAKE y \in T
  <2>1. n - y \in R /\ n - x <= n - y
    BY <1>5, <1>6
  <2> QED
    BY <1>2, <2>1
<1>8. \A y \in T : x >= y
  BY <1>7
<1>9. Max(T) \in T /\ \A y \in T : Max(T) >= y
  BY <1>8 DEF Max
<1> QED
  BY <1>9
=============================================================================
