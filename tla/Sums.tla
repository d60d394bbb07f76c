-------------------------------- MODULE Sums --------------------------------
(***************************************************************************)
(* Laws of sums over finite sets.  SumFunctionOnSet is defined by          *)
(* recursion over the subsets of the index set, and takes its elements in  *)
(* an order of its own choice; the laws say that the order is irrelevant.  *)
(* Induction is by the smallest counterexample.                            *)
(***************************************************************************)
EXTENDS Integers, FiniteSets, Functions, FiniteSetTheorems, WellFoundedInduction,
        NaturalsInduction, TLAPS

\* Every set of natural numbers that is not empty has a least one.
LEMMA LeastNumber ==
  ASSUME NEW T, T \subseteq Nat, T # {}
  PROVE  \E x \in T : \A y \in T : x <= y
<1> DEFINE R == OpToRel(<, Nat)
<1>1. IsWellFoundedOn(R, Nat)
  BY NatLessThanWellFounded
<1>2. \E x \in T : \A y \in T : ~(<<y, x>> \in R)
  <2> HIDE DEF R
  <2> QED BY <1>1, WFMin
<1>3. \A x, y \in Nat : <<y, x>> \in R <=> y < x
  BY DEF OpToRel
<1>4. \E x \in T : \A y \in T : ~(y < x)
  <2> HIDE DEF R
  <2> QED BY <1>2, <1>3, Zenon
<1> HIDE DEF R
<1> QED BY <1>4

\* Among finite sets that are counterexamples there is one all of whose proper
\* subsets are none.
LEMMA SmallestSet ==
  ASSUME NEW S, IsFiniteSet(S), NEW B, B \subseteq SUBSET S, B # {}
  PROVE  \E T \in B : IsFiniteSet(T) /\ \A U \in SUBSET T : U # T => U \notin B
<1> DEFINE sizes == {Cardinality(T) : T \in B}
<1>1. \A T \in B : IsFiniteSet(T) /\ Cardinality(T) \in Nat
  BY FS_Subset, FS_CardinalityType
<1>2. sizes \subseteq Nat /\ sizes # {}
  BY <1>1
<1>3. PICK n \in sizes : \A m \in sizes : n <= m
  <2> HIDE DEF sizes
  <2> QED BY <1>2, LeastNumber
<1>4. PICK T \in B : Cardinality(T) = n
  BY <1>3
<1>5. ASSUME NEW U \in SUBSET T, U # T, U \in B
      PROVE  FALSE
  <2>1. Cardinality(U) < Cardinality(T)
    BY <1>1, <1>5, FS_Subset
  <2>2. n <= Cardinality(U)
    BY <1>3, <1>5
  <2> QED BY <1>1, <1>4, <1>5, <2>1, <2>2
<1> QED BY <1>1, <1>5

-----------------------------------------------------------------------------
\* The recursion that SumFunctionOnSet hides.
Pick(s) == CHOOSE x \in s : TRUE
Recursion(it, f, S) ==
  it = [s \in SUBSET S |-> IF s = {} THEN 0 ELSE f[Pick(s)] + it[s \ {Pick(s)}]]
TheSums(f, S) == CHOOSE it : Recursion(it, f, S)

LEMMA SumIsRecursion ==
  ASSUME NEW f, NEW S
  PROVE  SumFunctionOnSet(f, S) = TheSums(f, S)[S]
BY DEF SumFunctionOnSet, FoldFunctionOnSet, MapThenFoldSet, Recursion, Pick, TheSums

LEMMA PickIsIn ==
  ASSUME NEW s, s # {}
  PROVE  Pick(s) \in s
BY DEF Pick

\* What the recursion gives for a set depends on the values in it only.
LEMMA RecursionUnique ==
  ASSUME NEW S1, IsFiniteSet(S1), NEW S2, NEW f, NEW g, NEW it, NEW jt,
         Recursion(it, f, S1), Recursion(jt, g, S2),
         NEW T, T \subseteq S1, T \subseteq S2, \A x \in T : f[x] = g[x]
  PROVE  it[T] = jt[T]
<1> DEFINE B == {U \in SUBSET T : it[U] # jt[U]}
<1>1. IsFiniteSet(T) /\ B \subseteq SUBSET T
  BY FS_Subset
<1>2. ASSUME NEW U \in B, \A V \in SUBSET U : V # U => V \notin B
      PROVE  FALSE
  <2>1. U # {}
    BY <1>2 DEF Recursion
  <2> DEFINE p == Pick(U)
  <2>2. p \in U
    BY <2>1, PickIsIn
  <2>3. it[U \ {p}] = jt[U \ {p}]
    BY <1>2, <2>2
  <2>4. it[U] = f[p] + it[U \ {p}] /\ jt[U] = g[p] + jt[U \ {p}]
    BY <2>1 DEF Recursion
  <2> QED BY <1>2, <2>2, <2>3, <2>4
<1>3. B = {}
  <2> HIDE DEF B
  <2> QED BY <1>1, <1>2, SmallestSet
<1> QED BY <1>3

LEMMA RecursionExists ==
  ASSUME NEW S, IsFiniteSet(S), NEW f
  PROVE  Recursion(TheSums(f, S), f, S)
<1> DEFINE B == {T \in SUBSET S : ~ \E it : Recursion(it, f, T)}
<1>1. ASSUME NEW T \in B, IsFiniteSet(T), \A U \in SUBSET T : U # T => U \notin B
      PROVE  FALSE
  <2> DEFINE h == [s \in SUBSET T |-> TheSums(f, s)[s]]
             p == Pick(T)
             it == [s \in SUBSET T |->
                      IF s = {} THEN 0 ELSE f[Pick(s)] + h[s \ {Pick(s)}]]
  <2>1. ASSUME NEW s \in SUBSET T, s # T
        PROVE  Recursion(TheSums(f, s), f, s)
    <3>1. \E jt : Recursion(jt, f, s)
      BY <1>1, <2>1
    <3> QED BY <3>1 DEF TheSums
  <2>2. ASSUME NEW s \in SUBSET T, s # T
        PROVE  it[s] = h[s]
    <3>1. CASE s = {}
      BY <2>1, <2>2, <3>1 DEF Recursion
    <3>2. CASE s # {}
      <4> DEFINE q == Pick(s)
                 r == s \ {q}
      <4>1. q \in s /\ r \in SUBSET T /\ r # T
        BY <2>2, <3>2, PickIsIn
      <4>2. Recursion(TheSums(f, s), f, s) /\ Recursion(TheSums(f, r), f, r)
        BY <2>1, <2>2, <4>1
      <4>3. IsFiniteSet(s) /\ r \subseteq s
        BY <1>1, FS_Subset
      <4>4. TheSums(f, s)[r] = TheSums(f, r)[r]
        <5> HIDE DEF q, r
        <5> QED BY <4>2, <4>3, RecursionUnique
      <4>5. TheSums(f, s)[s] = f[q] + TheSums(f, s)[r]
        BY <3>2, <4>2 DEF Recursion
      <4>6. it[s] = f[q] + h[r] /\ h[r] = TheSums(f, r)[r] /\ h[s] = TheSums(f, s)[s]
        BY <3>2, <4>1
      <4> QED BY <4>4, <4>5, <4>6
    <3> QED BY <3>1, <3>2
  <2>3. ASSUME NEW s \in SUBSET T, s # {}
        PROVE  it[s] = f[Pick(s)] + it[s \ {Pick(s)}]
    <3>1. Pick(s) \in s
      BY <2>3, PickIsIn
    <3>2. it[s \ {Pick(s)}] = h[s \ {Pick(s)}]
      <4> HIDE DEF it, h
      <4> QED BY <2>2, <3>1
    <3> QED BY <2>3, <3>2
  <2>4. it[{}] = 0 /\ it = [s \in SUBSET T |-> it[s]]
    OBVIOUS
  <2>5. Recursion(it, f, T)
    <3> HIDE DEF it
    <3> QED BY <2>3, <2>4 DEF Recursion
  <2> QED BY <1>1, <2>5
<1>2. B = {}
  <2>1. B \subseteq SUBSET S
    OBVIOUS
  <2> HIDE DEF B
  <2> QED BY <1>1, <2>1, SmallestSet
<1>3. \E it : Recursion(it, f, S)
  BY <1>2
<1> QED BY <1>3 DEF TheSums

-----------------------------------------------------------------------------
\* The laws.
LEMMA SumEmpty ==
  ASSUME NEW f
  PROVE  SumFunctionOnSet(f, {}) = 0
<1>1. Recursion(TheSums(f, {}), f, {})
  BY RecursionExists, FS_EmptySet
<1> QED BY <1>1, SumIsRecursion DEF Recursion

LEMMA SumSame ==
  ASSUME NEW S, IsFiniteSet(S), NEW f, NEW g, \A x \in S : f[x] = g[x]
  PROVE  SumFunctionOnSet(f, S) = SumFunctionOnSet(g, S)
<1>1. Recursion(TheSums(f, S), f, S) /\ Recursion(TheSums(g, S), g, S)
  BY RecursionExists
<1> QED BY <1>1, SumIsRecursion, RecursionUnique

\* The element that the recursion takes first.
LEMMA SumPick ==
  ASSUME NEW S, IsFiniteSet(S), NEW f, S # {}
  PROVE  SumFunctionOnSet(f, S) = f[Pick(S)] + SumFunctionOnSet(f, S \ {Pick(S)})
<1> DEFINE p == Pick(S)
           R == S \ {p}
<1>1. p \in S
  BY PickIsIn
<1>2. IsFiniteSet(R) /\ R \subseteq S
  BY FS_Subset
<1>3. Recursion(TheSums(f, S), f, S) /\ Recursion(TheSums(f, R), f, R)
  <2> HIDE DEF R
  <2> QED BY <1>2, RecursionExists
<1>4. TheSums(f, S)[S] = f[p] + TheSums(f, S)[R]
  BY <1>3 DEF Recursion
<1>5. TheSums(f, S)[R] = TheSums(f, R)[R]
  <2> HIDE DEF R
  <2> QED BY <1>2, <1>3, RecursionUnique
<1> HIDE DEF p, R
<1>6. SumFunctionOnSet(f, S) = f[p] + SumFunctionOnSet(f, R)
  BY <1>4, <1>5, SumIsRecursion
<1> QED BY <1>6 DEF p, R

LEMMA SumInt ==
  ASSUME NEW S, IsFiniteSet(S), NEW f, \A x \in S : f[x] \in Int
  PROVE  SumFunctionOnSet(f, S) \in Int
<1> DEFINE B == {T \in SUBSET S : SumFunctionOnSet(f, T) \notin Int}
<1>1. ASSUME NEW T \in B, IsFiniteSet(T), \A U \in SUBSET T : U # T => U \notin B
      PROVE  FALSE
  <2>1. T # {}
    BY SumEmpty
  <2>2. Pick(T) \in T
    BY <2>1, PickIsIn
  <2>3. SumFunctionOnSet(f, T \ {Pick(T)}) \in Int
    BY <1>1, <2>2
  <2>4. SumFunctionOnSet(f, T) = f[Pick(T)] + SumFunctionOnSet(f, T \ {Pick(T)})
    BY <1>1, <2>1, SumPick
  <2> QED BY <1>1, <2>2, <2>3, <2>4
<1>2. B = {}
  <2>1. B \subseteq SUBSET S
    OBVIOUS
  <2> HIDE DEF B
  <2> QED BY <1>1, <2>1, SmallestSet
<1> QED BY <1>2

LEMMA SumNat ==
  ASSUME NEW S, IsFiniteSet(S), NEW f, \A x \in S : f[x] \in Nat
  PROVE  SumFunctionOnSet(f, S) \in Nat
<1> DEFINE B == {T \in SUBSET S : SumFunctionOnSet(f, T) \notin Nat}
<1>1. ASSUME NEW T \in B, IsFiniteSet(T), \A U \in SUBSET T : U # T => U \notin B
      PROVE  FALSE
  <2>1. T # {}
    BY SumEmpty
  <2>2. Pick(T) \in T
    BY <2>1, PickIsIn
  <2>3. SumFunctionOnSet(f, T \ {Pick(T)}) \in Nat
    BY <1>1, <2>2
  <2>4. SumFunctionOnSet(f, T) = f[Pick(T)] + SumFunctionOnSet(f, T \ {Pick(T)})
    BY <1>1, <2>1, SumPick
  <2> QED BY <1>1, <2>2, <2>3, <2>4
<1>2. B = {}
  <2>1. B \subseteq SUBSET S
    OBVIOUS
  <2> HIDE DEF B
  <2> QED BY <1>1, <2>1, SmallestSet
<1> QED BY <1>2

\* Any element may be taken out.
LEMMA SumTake ==
  ASSUME NEW S, IsFiniteSet(S), NEW f, \A x \in S : f[x] \in Int, NEW y \in S
  PROVE  SumFunctionOnSet(f, S) = f[y] + SumFunctionOnSet(f, S \ {y})
<1> DEFINE sum(T) == SumFunctionOnSet(f, T)
           B == {T \in SUBSET S : \E x \in T : sum(T) # f[x] + sum(T \ {x})}
<1>1. ASSUME NEW T \in B, IsFiniteSet(T), \A U \in SUBSET T : U # T => U \notin B
      PROVE  FALSE
  <2> DEFINE p == Pick(T)
  <2>1. PICK x \in T : sum(T) # f[x] + sum(T \ {x})
    BY <1>1
  <2>2. T \subseteq S /\ p \in T
    BY <2>1, PickIsIn
  <2>3. sum(T) = f[p] + sum(T \ {p})
    BY <1>1, <2>1, SumPick
  <2>4. p # x
    BY <2>1, <2>3
  <2>5. sum(T \ {p}) = f[x] + sum((T \ {p}) \ {x})
    <3>1. T \ {p} \notin B
      BY <1>1, <2>2
    <3> QED BY <2>1, <2>2, <2>4, <3>1
  <2>6. sum(T \ {x}) = f[p] + sum((T \ {x}) \ {p})
    <3>1. T \ {x} \notin B
      BY <1>1, <2>1
    <3> QED BY <2>1, <2>2, <2>4, <3>1
  <2> DEFINE rest == (T \ {x}) \ {p}
  <2>7. (T \ {p}) \ {x} = rest
    OBVIOUS
  <2>8. f[x] \in Int /\ f[p] \in Int /\ sum(rest) \in Int
    <3>1. IsFiniteSet(rest) /\ \A z \in rest : f[z] \in Int
      BY <1>1, <2>2, FS_Subset
    <3> HIDE DEF rest
    <3> QED BY <2>1, <2>2, <3>1, SumInt
  <2>9. sum(T \ {p}) = f[x] + sum(rest) /\ sum(T \ {x}) = f[p] + sum(rest)
    BY <2>5, <2>6, <2>7
  <2> HIDE DEF rest, sum, p
  <2> QED BY <2>1, <2>3, <2>8, <2>9
<1>2. B = {}
  <2>1. B \subseteq SUBSET S
    OBVIOUS
  <2> HIDE DEF B
  <2> QED BY <1>1, <2>1, SmallestSet
<1> QED BY <1>2

\* When the value of one element changes, the sum changes by as much.
LEMMA SumChange ==
  ASSUME NEW S, IsFiniteSet(S), NEW y \in S, NEW f, NEW g,
         \A x \in S : f[x] \in Int, g[y] \in Int, \A x \in S \ {y} : g[x] = f[x]
  PROVE  SumFunctionOnSet(g, S) = SumFunctionOnSet(f, S) - f[y] + g[y]
<1> DEFINE R == S \ {y}
<1>1. IsFiniteSet(R) /\ \A x \in R : f[x] \in Int
  BY FS_Subset
<1>2. \A x \in S : g[x] \in Int
  OBVIOUS
<1>3. /\ SumFunctionOnSet(f, S) = f[y] + SumFunctionOnSet(f, R)
      /\ SumFunctionOnSet(g, S) = g[y] + SumFunctionOnSet(g, R)
  BY <1>2, SumTake
<1>4. f[y] \in Int
  OBVIOUS
<1> HIDE DEF R
<1>5. SumFunctionOnSet(f, R) \in Int
  BY <1>1, SumInt
<1>6. SumFunctionOnSet(g, R) = SumFunctionOnSet(f, R)
  BY <1>1, SumSame DEF R
<1> QED BY <1>3, <1>4, <1>5, <1>6

\* No value exceeds the sum of numbers.
LEMMA SumBounds ==
  ASSUME NEW S, IsFiniteSet(S), NEW f, \A x \in S : f[x] \in Nat, NEW y \in S
  PROVE  f[y] <= SumFunctionOnSet(f, S)
<1> DEFINE R == S \ {y}
<1>1. IsFiniteSet(R) /\ \A x \in R : f[x] \in Nat
  BY FS_Subset
<1>2. SumFunctionOnSet(f, S) = f[y] + SumFunctionOnSet(f, R)
  BY SumTake
<1> HIDE DEF R
<1>3. SumFunctionOnSet(f, R) \in Nat
  BY <1>1, SumNat
<1> QED BY <1>2, <1>3

\* A sum of nothing but zeros.
LEMMA SumZero ==
  ASSUME NEW S, IsFiniteSet(S), NEW f, \A x \in S : f[x] = 0
  PROVE  SumFunctionOnSet(f, S) = 0
<1> DEFINE B == {T \in SUBSET S : SumFunctionOnSet(f, T) # 0}
<1>1. ASSUME NEW T \in B, IsFiniteSet(T), \A U \in SUBSET T : U # T => U \notin B
      PROVE  FALSE
  <2>1. T # {}
    BY SumEmpty
  <2>2. Pick(T) \in T
    BY <2>1, PickIsIn
  <2>3. SumFunctionOnSet(f, T \ {Pick(T)}) = 0
    BY <1>1, <2>2
  <2>4. SumFunctionOnSet(f, T) = f[Pick(T)] + SumFunctionOnSet(f, T \ {Pick(T)})
    BY <1>1, <2>1, SumPick
  <2> QED BY <1>1, <2>2, <2>3, <2>4
<1>2. B = {}
  <2>1. B \subseteq SUBSET S
    OBVIOUS
  <2> HIDE DEF B
  <2> QED BY <1>1, <2>1, SmallestSet
<1> QED BY <1>2

\* A sum of numbers is zero only if they all are.
LEMMA SumPositive ==
  ASSUME NEW S, IsFiniteSet(S), NEW f, \A x \in S : f[x] \in Nat,
         SumFunctionOnSet(f, S) > 0
  PROVE  \E x \in S : f[x] > 0
<1> SUFFICES ASSUME \A x \in S : ~(f[x] > 0) PROVE FALSE
  OBVIOUS
<1>1. \A x \in S : f[x] = 0
  OBVIOUS
<1>2. SumFunctionOnSet(f, S) = 0
  BY <1>1, SumZero
<1> QED BY <1>2

\* Larger values give a larger sum.
LEMMA SumSubset ==
  ASSUME NEW S, IsFiniteSet(S), NEW f, \A x \in S : f[x] \in Nat, NEW T, T \subseteq S
  PROVE  SumFunctionOnSet(f, T) <= SumFunctionOnSet(f, S)
<1> DEFINE sum(U) == SumFunctionOnSet(f, U)
           B == {U \in SUBSET S : T \subseteq U /\ ~(sum(T) <= sum(U))}
<1>1. \A U \in SUBSET S : IsFiniteSet(U) /\ sum(U) \in Nat
  BY FS_Subset, SumNat
<1>2. ASSUME NEW U \in B, \A V \in SUBSET U : V # U => V \notin B
      PROVE  FALSE
  <2>1. U # T
    BY <1>1, <1>2
  <2>2. PICK y \in U : y \notin T
    BY <1>2, <2>1
  <2>3. U \ {y} \in SUBSET S /\ T \subseteq U \ {y} /\ U \ {y} # U
    BY <1>2, <2>2
  <2>4. sum(T) <= sum(U \ {y})
    BY <1>2, <2>3
  <2>5. sum(U) = f[y] + sum(U \ {y})
    <3>1. \A x \in U : f[x] \in Int
      BY <1>2
    <3>2. IsFiniteSet(U)
      BY <1>1, <1>2
    <3> QED BY <2>2, <3>1, <3>2, SumTake
  <2>6. f[y] \in Nat /\ sum(U \ {y}) \in Nat /\ sum(T) \in Nat
    BY <1>1, <1>2, <2>2, <2>3
  <2>7. sum(T) <= sum(U)
    <3> HIDE DEF sum
    <3> QED BY <2>4, <2>5, <2>6
  <2> QED BY <1>2, <2>7
<1>3. B = {}
  <2> SUFFICES ASSUME B # {} PROVE FALSE
    OBVIOUS
  <2>1. B \subseteq SUBSET S
    OBVIOUS
  <2> HIDE DEF B
  <2> QED BY <1>2, <2>1, SmallestSet
<1> QED BY <1>3

LEMMA SumMonotone ==
  ASSUME NEW S, IsFiniteSet(S), NEW f, NEW g,
         \A x \in S : f[x] \in Int /\ g[x] \in Int /\ f[x] <= g[x]
  PROVE  SumFunctionOnSet(f, S) <= SumFunctionOnSet(g, S)
<1> DEFINE sum(h, T) == SumFunctionOnSet(h, T)
           B == {T \in SUBSET S : ~(sum(f, T) <= sum(g, T))}
<1>1. ASSUME NEW T \in B, IsFiniteSet(T), \A U \in SUBSET T : U # T => U \notin B
      PROVE  FALSE
  <2> DEFINE p == Pick(T)
             R == T \ {p}
  <2>1. T # {}
    BY SumEmpty
  <2>2. p \in T /\ T \subseteq S
    BY <2>1, PickIsIn
  <2>3. sum(f, R) <= sum(g, R)
    BY <1>1, <2>2
  <2>4. sum(f, T) = f[p] + sum(f, R) /\ sum(g, T) = g[p] + sum(g, R)
    BY <1>1, <2>1, SumPick
  <2>5. sum(f, R) \in Int /\ sum(g, R) \in Int
    <3>1. IsFiniteSet(R) /\ \A x \in R : f[x] \in Int /\ g[x] \in Int
      BY <1>1, <2>2, FS_Subset
    <3> HIDE DEF R
    <3> QED BY <3>1, SumInt
  <2>6. f[p] \in Int /\ g[p] \in Int /\ f[p] <= g[p]
    BY <2>2
  <2>7. ~(sum(f, T) <= sum(g, T))
    BY <1>1
  <2> HIDE DEF R, p, sum
  <2> QED BY <2>3, <2>4, <2>5, <2>6, <2>7
<1>2. B = {}
  <2>1. B \subseteq SUBSET S
    OBVIOUS
  <2> HIDE DEF B
  <2> QED BY <1>1, <2>1, SmallestSet
<1> QED BY <1>2

-----------------------------------------------------------------------------
\* Sequences: the first so many, and folding.
\* The order in which a sequence is folded, last element first.
Latest(s) == CHOOSE x \in s : \A y \in s : x >= y

\* The sets of indices up to n, folded one by one.
Folding(it, g, base, n) ==
  /\ DOMAIN it = SUBSET (1 .. n)
  /\ \A s \in SUBSET (1 .. n) :
       it[s] = IF s = {} THEN base ELSE g[<<Latest(s), it[s \ {Latest(s)}]>>]

\* The last of a set of indices is its largest.
LEMMA LatestIs ==
  ASSUME NEW n \in Nat, NEW S \in SUBSET (1 .. n), NEW k \in S, \A x \in S : k >= x
  PROVE  Latest(S) = k
<1>1. \E x \in S : \A y \in S : x >= y
  OBVIOUS
<1>2. Latest(S) \in S /\ \A y \in S : Latest(S) >= y
  BY <1>1 DEF Latest
<1>3. \A x \in S : x \in Int
  OBVIOUS
<1>4. Latest(S) >= k /\ k >= Latest(S) /\ Latest(S) \in Int /\ k \in Int
  BY <1>2, <1>3
<1> QED BY <1>4

\* A set of indices that is not empty has a last one.
LEMMA LatestIn ==
  ASSUME NEW n \in Nat, NEW S \in SUBSET (1 .. n), S # {}
  PROVE  Latest(S) \in S
<1> DEFINE R == {n - x : x \in S}
<1>1. R \subseteq Nat /\ R # {}
  <2>1. \A x \in S : n - x \in Nat
    OBVIOUS
  <2> QED BY <2>1
<1>2. PICK r \in R : \A y \in R : r <= y
  <2> HIDE DEF R
  <2> QED BY <1>1, LeastNumber
<1>3. PICK x \in S : r = n - x
  BY <1>2
<1>4. ASSUME NEW y \in S PROVE x >= y
  <2>1. n - x <= n - y
    BY <1>2, <1>3
  <2>2. x \in Int /\ y \in Int
    OBVIOUS
  <2> QED BY <2>1, <2>2
<1> QED BY <1>4 DEF Latest

\* The recursion has a solution: sequences can be folded.
LEMMA FoldExists ==
  ASSUME NEW n \in Nat, NEW V, NEW base \in V, NEW g \in [(1 .. n) \X V -> V]
  PROVE  \E it \in [SUBSET (1 .. n) -> V] : Folding(it, g, base, n)
<1> DEFINE Exists(k) == \E it \in [SUBSET (1 .. k) -> V] : Folding(it, g, base, k)
           B == {k \in 0 .. n : ~Exists(k)}
<1>1. B = {}
  <2> SUFFICES ASSUME B # {} PROVE FALSE
    OBVIOUS
  <2>1. B \subseteq Nat
    OBVIOUS
  <2>2. PICK k \in B : \A j \in B : k <= j
    <3> HIDE DEF B
    <3> QED BY <2>1, LeastNumber
  <2>3. k \in 0 .. n /\ ~Exists(k)
    BY <2>2
  <2>4. k # 0
    <3>1. 1 .. 0 = {}
      OBVIOUS
    <3> DEFINE it == [s \in SUBSET (1 .. 0) |-> base]
    <3>2. Folding(it, g, base, 0) /\ it \in [SUBSET (1 .. 0) -> V]
      BY <3>1 DEF Folding
    <3> HIDE DEF it
    <3> QED BY <2>3, <3>2
  <2>5. k - 1 \in 0 .. n /\ k - 1 \notin B
    <3>1. k \in Int /\ n \in Int /\ k - 1 \in 0 .. n /\ ~(k <= k - 1)
      BY <2>3, <2>4
    <3> HIDE DEF B
    <3> QED BY <2>2, <3>1
  <2>6. PICK jt \in [SUBSET (1 .. k - 1) -> V] : Folding(jt, g, base, k - 1)
    BY <2>5, <2>3
  <2> DEFINE it == [s \in SUBSET (1 .. k) |->
                      IF k \in s THEN g[<<k, jt[s \ {k}]>>] ELSE jt[s]]
  <2>7. ASSUME NEW s \in SUBSET (1 .. k)
        PROVE  /\ s \ {k} \in SUBSET (1 .. k - 1)
               /\ k \notin s => s \in SUBSET (1 .. k - 1)
    BY <2>3
  <2>8. it \in [SUBSET (1 .. k) -> V]
    <3> SUFFICES ASSUME NEW s \in SUBSET (1 .. k)
                 PROVE  (IF k \in s THEN g[<<k, jt[s \ {k}]>>] ELSE jt[s]) \in V
      OBVIOUS
    <3>1. k \in 1 .. n
      BY <2>3, <2>4
    <3>2. jt[s \ {k}] \in V /\ (k \notin s => jt[s] \in V)
      BY <2>7
    <3> QED BY <3>1, <3>2
  <2>9. ASSUME NEW s \in SUBSET (1 .. k)
        PROVE  it[s] = IF s = {} THEN base ELSE g[<<Latest(s), it[s \ {Latest(s)}]>>]
    <3>1. CASE k \in s
      <4>1. Latest(s) = k
        <5>1. \A x \in s : k >= x
          BY <2>3
        <5>2. k \in Nat
          BY <2>3
        <5> QED BY <3>1, <5>1, <5>2, LatestIs
      <4>2. it[s \ {k}] = jt[s \ {k}]
        <5>1. s \ {k} \in SUBSET (1 .. k)
          OBVIOUS
        <5> QED BY <5>1
      <4> QED BY <3>1, <4>1, <4>2
    <3>2. CASE k \notin s /\ s # {}
      <4>1. it[s] = jt[s] /\ s \in SUBSET (1 .. k - 1) /\ k - 1 \in Nat
        BY <2>3, <2>4, <2>7, <3>2
      <4>2. jt[s] = g[<<Latest(s), jt[s \ {Latest(s)}]>>]
        BY <2>6, <3>2, <4>1 DEF Folding
      <4>3. it[s \ {Latest(s)}] = jt[s \ {Latest(s)}]
        <5>1. s \ {Latest(s)} \in SUBSET (1 .. k)
          OBVIOUS
        <5> QED BY <3>2, <5>1
      <4> QED BY <3>2, <4>1, <4>2, <4>3
    <3>3. CASE s = {}
      <4>1. it[s] = jt[s] /\ s \in SUBSET (1 .. k - 1)
        BY <3>3
      <4> QED BY <2>6, <3>3, <4>1 DEF Folding
    <3> QED BY <3>1, <3>2, <3>3
  <2>10. Folding(it, g, base, k)
    <3>1. DOMAIN it = SUBSET (1 .. k)
      OBVIOUS
    <3> HIDE DEF it
    <3> QED BY <2>9, <3>1 DEF Folding
  <2> HIDE DEF it
  <2> QED BY <2>3, <2>8, <2>10
<1>2. ~(n \in B)
  <2> HIDE DEF B
  <2> QED BY <1>1
<1>3. n \in 0 .. n
  OBVIOUS
<1>4. Exists(n)
  <2> HIDE DEF Exists
  <2> QED BY <1>2, <1>3
<1> QED BY <1>4

\* Induction over the numbers up to n, for a set of numbers.
LEMMA CountUp ==
  ASSUME NEW n \in Nat, NEW T, 0 \in T, \A k \in 0 .. n : k \in T /\ k < n => k + 1 \in T
  PROVE  n \in T
<1> SUFFICES ASSUME n \notin T PROVE FALSE
  OBVIOUS
<1> DEFINE R == {k \in 0 .. n : k \notin T}
<1>1. R \subseteq Nat /\ R # {}
  OBVIOUS
<1>2. PICK k \in R : \A j \in R : k <= j
  <2> HIDE DEF R
  <2> QED BY <1>1, LeastNumber
<1>3. k \in 0 .. n /\ k \notin T /\ k # 0
  OBVIOUS
<1>4. k - 1 \in 0 .. n /\ ~(k <= k - 1) /\ k - 1 < n /\ (k - 1) + 1 = k
  BY <1>3
<1>5. k - 1 \in T
  BY <1>2, <1>4
<1> QED BY <1>3, <1>4, <1>5

\* The sum up to k + 1.
LEMMA SumUp ==
  ASSUME NEW k \in Nat, NEW f, \A i \in 1 .. k + 1 : f[i] \in Int
  PROVE  /\ SumFunctionOnSet(f, 1 .. k + 1) = f[k + 1] + SumFunctionOnSet(f, 1 .. k)
         /\ SumFunctionOnSet(f, 1 .. k) \in Int /\ SumFunctionOnSet(f, 1 .. k + 1) \in Int
<1>1. IsFiniteSet(1 .. k + 1) /\ IsFiniteSet(1 .. k)
  BY FS_Interval
<1>2. k + 1 \in 1 .. k + 1 /\ (1 .. k + 1) \ {k + 1} = 1 .. k /\ 1 .. k \subseteq 1 .. k + 1
  OBVIOUS
<1>3. SumFunctionOnSet(f, 1 .. k + 1) = f[k + 1] + SumFunctionOnSet(f, (1 .. k + 1) \ {k + 1})
  BY <1>1, <1>2, SumTake
<1>4. SumFunctionOnSet(f, 1 .. k) \in Int
  BY <1>1, <1>2, SumInt
<1>5. SumFunctionOnSet(f, 1 .. k + 1) \in Int
  BY <1>1, SumInt
<1> QED BY <1>2, <1>3, <1>4, <1>5

\* The sum up to nothing.
LEMMA SumNone == ASSUME NEW f PROVE SumFunctionOnSet(f, 1 .. 0) = 0
<1>1. 1 .. 0 = {}
  OBVIOUS
<1> QED BY <1>1, SumEmpty

\* The last index is taken first.
LEMMA SegmentUp ==
  ASSUME NEW n \in Nat, NEW k \in 0 .. n, k < n
  PROVE  /\ 1 .. k + 1 \in SUBSET (1 .. n) /\ 1 .. k + 1 # {} /\ Latest(1 .. k + 1) = k + 1
         /\ (1 .. k + 1) \ {k + 1} = 1 .. k
<1>1. k + 1 \in Nat /\ k + 1 \in 1 .. k + 1 /\ \A x \in 1 .. k + 1 : k + 1 >= x
  OBVIOUS
<1>2. 1 .. k + 1 \in SUBSET (1 .. k + 1)
  OBVIOUS
<1>3. Latest(1 .. k + 1) = k + 1
  BY <1>1, <1>2, LatestIs
<1>4. 1 .. k + 1 \in SUBSET (1 .. n) /\ (1 .. k + 1) \ {k + 1} = 1 .. k
  OBVIOUS
<1>5. 1 .. k + 1 # {}
  BY <1>1
<1> QED BY <1>3, <1>4, <1>5

\* The sum of the first n.
Upto(f, n) == SumFunctionOnSet(f, 1 .. n)

\* The same, one by one.
LEMMA UptoUp ==
  ASSUME NEW k \in Nat, NEW f, \A i \in 1 .. k + 1 : f[i] \in Int
  PROVE  /\ Upto(f, k + 1) = f[k + 1] + Upto(f, k) /\ f[k + 1] \in Int
         /\ Upto(f, k) \in Int /\ Upto(f, k + 1) \in Int
<1>1. k + 1 \in 1 .. k + 1
  OBVIOUS
<1> QED BY <1>1, SumUp DEF Upto

\* A sum of numbers is one.
LEMMA UptoInt ==
  ASSUME NEW k \in Nat, NEW f, \A i \in 1 .. k : f[i] \in Int
  PROVE  Upto(f, k) \in Int
<1>1. IsFiniteSet(1 .. k)
  BY FS_Interval
<1> QED BY <1>1, SumInt DEF Upto

\* The sum behind n is that of a function of its own.
LEMMA UptoShift ==
  ASSUME NEW n \in Nat, NEW m \in Nat, NEW f, NEW g,
         \A i \in 1 .. n + m : f[i] \in Int, \A i \in 1 .. m : g[i] = f[n + i]
  PROVE  Upto(f, n + m) = Upto(f, n) + Upto(g, m)
<1> DEFINE T == {k \in 0 .. m : Upto(f, n + k) = Upto(f, n) + Upto(g, k)}
<1>1. Upto(f, n) \in Int
  BY UptoInt
<1>2. 0 \in T
  <2>1. Upto(g, 0) = 0
    BY SumNone DEF Upto
  <2> QED BY <1>1, <2>1
<1>3. ASSUME NEW k \in 0 .. m, k \in T, k < m PROVE k + 1 \in T
  <2>1. k \in Nat /\ k + 1 \in 1 .. m /\ n + k \in Nat /\ (n + k) + 1 = n + (k + 1)
    BY <1>3
  <2>2. \A i \in 1 .. (n + k) + 1 : f[i] \in Int
    BY <1>3
  <2>3. \A i \in 1 .. k + 1 : g[i] \in Int
    <3> SUFFICES ASSUME NEW i \in 1 .. k + 1 PROVE g[i] \in Int
      OBVIOUS
    <3>1. i \in 1 .. m /\ n + i \in 1 .. n + m
      BY <1>3
    <3> QED BY <3>1
  <2>4. /\ Upto(f, (n + k) + 1) = f[(n + k) + 1] + Upto(f, n + k) /\ Upto(f, n + k) \in Int
        /\ f[(n + k) + 1] \in Int
    BY <2>1, <2>2, UptoUp
  <2>5. Upto(g, k + 1) = g[k + 1] + Upto(g, k) /\ Upto(g, k) \in Int
    BY <2>1, <2>3, UptoUp
  <2>6. g[k + 1] = f[(n + k) + 1]
    BY <2>1
  <2>7. Upto(f, n + k) = Upto(f, n) + Upto(g, k)
    BY <1>3
  <2>8. Upto(f, (n + k) + 1) = Upto(f, n) + Upto(g, k + 1)
    BY <1>1, <2>4, <2>5, <2>6, <2>7
  <2>9. k + 1 \in 0 .. m
    BY <2>1
  <2> QED BY <2>1, <2>8, <2>9
<1>4. m \in T
  <2> HIDE DEF T
  <2> QED BY <1>2, <1>3, CountUp
<1> QED BY <1>4

\* Nothing but zeros behind n.
LEMMA UptoZeros ==
  ASSUME NEW n \in Nat, NEW m \in Nat, NEW f,
         \A i \in 1 .. n : f[i] \in Int, \A i \in n + 1 .. n + m : f[i] = 0
  PROVE  Upto(f, n + m) = Upto(f, n)
<1> DEFINE g == [i \in 1 .. m |-> 0]
<1>1. \A i \in 1 .. m : g[i] = f[n + i]
  <2> SUFFICES ASSUME NEW i \in 1 .. m PROVE g[i] = f[n + i]
    OBVIOUS
  <2>1. n + i \in n + 1 .. n + m
    OBVIOUS
  <2> QED BY <2>1
<1>2. \A i \in 1 .. n + m : f[i] \in Int
  <2> SUFFICES ASSUME NEW i \in 1 .. n + m PROVE f[i] \in Int
    OBVIOUS
  <2>1. i \in 1 .. n \/ i \in n + 1 .. n + m
    OBVIOUS
  <2> QED BY <2>1
<1>3. \A i \in 1 .. m : g[i] = 0
  OBVIOUS
<1> HIDE DEF g
<1>4. Upto(f, n + m) = Upto(f, n) + Upto(g, m)
  BY <1>1, <1>2, UptoShift, SMTT(60)
<1>5. IsFiniteSet(1 .. m)
  BY FS_Interval
<1>6. Upto(g, m) = 0
  BY <1>3, <1>5, SumZero DEF Upto
<1>7. Upto(f, n) \in Int
  BY UptoInt
<1> QED BY <1>4, <1>6, <1>7
=============================================================================
