---------------------------- MODULE CommonLemmas -----------------------------
(***************************************************************************)
(* Facts about numbers and sums that the proofs of several components rest *)
(* on: least and greatest elements, induction, remainders, and the sum of  *)
(* the values of a function, which the library computes with a fold.       *)
(***************************************************************************)
EXTENDS Integers, FiniteSetsExt, FiniteSetTheorems, WellFoundedInduction, TLAPS

\* A set of numbers has a least element, and Min is it.
LEMMA LeastExists ==
  ASSUME NEW S \in SUBSET Nat, S # {}
  PROVE  /\ Min(S) \in S
         /\ \A y \in S : Min(S) <= y
<1>1. \E x \in S : \A y \in S : ~ (<<y, x>> \in OpToRel(<, Nat))
  BY WFMin, NatLessThanWellFounded, Zenon
<1>2. \E x \in S : \A y \in S : x <= y
  <2>1. PICK x \in S : \A y \in S : ~ (<<y, x>> \in OpToRel(<, Nat))
    BY <1>1
  <2>2. \A y \in S : ~ (y < x)
    BY <2>1 DEF OpToRel
  <2> QED
    BY <2>2
<1> QED
  BY <1>2 DEF Min

\* Max is the greatest element of a set that has a bound.
LEMMA GreatestExists ==
  ASSUME NEW n \in Nat, NEW S \in SUBSET (1 .. n), S # {}
  PROVE  Max(S) \in S
<1> DEFINE T == {n - x : x \in S}
<1>1. T \in SUBSET Nat /\ T # {}
  <2>1. \A x \in S : n - x \in Nat
    OBVIOUS
  <2>2. PICK x \in S : TRUE
    OBVIOUS
  <2>3. n - x \in T
    BY <2>2
  <2> QED
    BY <2>1, <2>3
<1>2. Min(T) \in T /\ \A y \in T : Min(T) <= y
  BY <1>1, LeastExists
<1>3. PICK m \in S : Min(T) = n - m
  BY <1>2
<1>4. \A y \in S : m >= y
  <2> SUFFICES ASSUME NEW y \in S PROVE m >= y
    OBVIOUS
  <2>1. n - y \in T
    OBVIOUS
  <2>2. n - m <= n - y
    BY <1>2, <1>3, <2>1
  <2> QED
    BY <2>2
<1>5. \E x \in S : \A y \in S : x >= y
  BY <1>4
<1> QED
  BY <1>5 DEF Max

\* Induction over the numbers, for a set of them.
LEMMA Induction ==
  ASSUME NEW S, 0 \in S, \A k \in Nat : k \in S => k + 1 \in S
  PROVE  Nat \subseteq S
<1> DEFINE Bad == {k \in Nat : k \notin S}
<1> SUFFICES ASSUME Bad # {} PROVE FALSE
  BY DEF Bad
<1>1. Min(Bad) \in Bad /\ \A y \in Bad : Min(Bad) <= y
  BY LeastExists
<1>2. PICK m : m \in Bad /\ \A y \in Bad : m <= y
  BY <1>1
<1>3. m \in Nat /\ m # 0 /\ m - 1 \in Nat
  BY <1>2
<1>4. m - 1 \in S
  BY <1>2, <1>3
<1>5. (m - 1) + 1 \in S
  BY <1>3, <1>4
<1> QED
  BY <1>2, <1>3, <1>5

\* The remainder of a number less than one round off.
LEMMA Wraps ==
  ASSUME NEW n \in Nat, n > 0, NEW a \in Int, - n <= a, a < 2 * n
  PROVE  a % n = IF a < 0 THEN a + n ELSE IF a < n THEN a ELSE a - n
  OBVIOUS
-----------------------------------------------------------------------------
(***************************************************************************)
(* SumFunctionOnSet.  It is a fold, a recursive function on the subsets of *)
(* the set, and so a CHOOSE: the lemmas first show that there is such a    *)
(* function and that it is determined where it matters.                    *)
(***************************************************************************)
Chosen(t) == CHOOSE x \in t : TRUE

\* g sums f over the subsets of S with at most n elements, as SumFunctionOnSet
\* does: one element after the other, in an order left open.
SumUpTo(g, f, S, n) ==
  /\ g = [t \in SUBSET S |-> g[t]]
  /\ \A t \in SUBSET S : Cardinality(t) <= n =>
       g[t] = IF t = {} THEN 0 ELSE f[Chosen(t)] + g[t \ {Chosen(t)}]

LEMMA ChosenIn ==
  ASSUME NEW t, t # {}
  PROVE  Chosen(t) \in t
  BY Zenon DEF Chosen

LEMMA ChosenSplit ==
  ASSUME NEW S, IsFiniteSet(S), NEW t \in SUBSET S
  PROVE  /\ IsFiniteSet(t) /\ Cardinality(t) \in Nat
         /\ Cardinality(t) = 0 <=> t = {}
         /\ t # {} => /\ t \ {Chosen(t)} \in SUBSET S
                      /\ Cardinality(t \ {Chosen(t)}) = Cardinality(t) - 1
<1>1. IsFiniteSet(t) /\ Cardinality(t) \in Nat
  BY FS_Subset, FS_CardinalityType
<1>2. Cardinality(t) = 0 <=> t = {}
  BY <1>1, FS_EmptySet
<1>3. ASSUME t # {}
      PROVE  Cardinality(t \ {Chosen(t)}) = Cardinality(t) - 1
  BY <1>1, <1>3, ChosenIn, FS_RemoveElement
<1> QED
  BY <1>1, <1>2, <1>3

LEMMA NoElement ==
  ASSUME NEW S, IsFiniteSet(S), NEW t \in SUBSET S, Cardinality(t) <= 0
  PROVE  t = {}
<1>1. IsFiniteSet(t) /\ Cardinality(t) \in Nat
  BY FS_Subset, FS_CardinalityType
<1>2. Cardinality(t) = 0
  BY <1>1
<1> QED
  BY <1>1, <1>2, FS_EmptySet

LEMMA SumExists ==
  ASSUME NEW f, NEW S, IsFiniteSet(S), NEW n \in Nat
  PROVE  \E g : SumUpTo(g, f, S, n)
<1> DEFINE N == {m \in Nat : \E g : SumUpTo(g, f, S, m)}
<1>1. 0 \in N
  <2> DEFINE z == [t \in SUBSET S |-> 0]
  <2>1. z = [t \in SUBSET S |-> z[t]]
    OBVIOUS
  <2>2. \A t \in SUBSET S : Cardinality(t) <= 0 => t = {} /\ z[t] = 0
    <3>1. \A t \in SUBSET S : z[t] = 0
      OBVIOUS
    <3>2. ASSUME NEW t \in SUBSET S, Cardinality(t) <= 0
          PROVE  t = {}
      BY <3>2, NoElement
    <3> QED
      BY <3>1, <3>2
  <2> HIDE DEF z
  <2>3. SumUpTo(z, f, S, 0)
    BY <2>1, <2>2, Zenon DEF SumUpTo
  <2> QED
    BY <2>3
<1>2. ASSUME NEW m \in Nat, m \in N
      PROVE  m + 1 \in N
  <2>1. PICK g : SumUpTo(g, f, S, m)
    BY <1>2
  <2> DEFINE h == [t \in SUBSET S |-> IF t = {} \/ Cardinality(t) <= m THEN g[t]
                                      ELSE f[Chosen(t)] + g[t \ {Chosen(t)}]]
  <2>2. h = [t \in SUBSET S |-> h[t]]
    OBVIOUS
  <2>3. \A t \in SUBSET S : h[t] = IF t = {} \/ Cardinality(t) <= m THEN g[t]
                                    ELSE f[Chosen(t)] + g[t \ {Chosen(t)}]
    BY Zenon
  <2> HIDE DEF h
  <2>4. ASSUME NEW t \in SUBSET S, Cardinality(t) <= m + 1
        PROVE  h[t] = IF t = {} THEN 0 ELSE f[Chosen(t)] + h[t \ {Chosen(t)}]
    <3>1. CASE t = {}
      <4>1. Cardinality(t) = 0
        BY <3>1, ChosenSplit
      <4>2. h[t] = g[t] /\ Cardinality(t) <= m
        BY <2>3, <3>1, <4>1
      <4> QED
        BY <2>1, <3>1, <4>2, Zenon DEF SumUpTo
    <3>2. CASE t # {}
      <4>1. /\ t \ {Chosen(t)} \in SUBSET S
            /\ Cardinality(t \ {Chosen(t)}) = Cardinality(t) - 1
            /\ Cardinality(t) \in Nat
        BY <3>2, ChosenSplit
      <4>2. Cardinality(t \ {Chosen(t)}) <= m
        BY <2>4, <4>1
      <4>3. h[t \ {Chosen(t)}] = g[t \ {Chosen(t)}]
        BY <2>3, <4>1, <4>2, Zenon
      <4>4. h[t] = f[Chosen(t)] + g[t \ {Chosen(t)}]
        <5>1. CASE Cardinality(t) <= m
          BY <2>1, <2>3, <3>2, <5>1, Zenon DEF SumUpTo
        <5>2. CASE ~ (Cardinality(t) <= m)
          BY <2>3, <3>2, <5>2, Zenon
        <5> QED
          BY <5>1, <5>2
      <4> QED
        BY <3>2, <4>3, <4>4, Zenon
    <3> QED
      BY <3>1, <3>2
  <2>5. SumUpTo(h, f, S, m + 1)
    BY <2>2, <2>4, Zenon DEF SumUpTo
  <2> QED
    BY <2>5
<1> HIDE DEF N
<1>3. n \in N
  BY <1>1, <1>2, Induction
<1> QED
  BY <1>3 DEF N

\* What the library's fold computes is such a sum.
LEMMA SumIsOne ==
  ASSUME NEW f, NEW S, IsFiniteSet(S)
  PROVE  \E g : SumUpTo(g, f, S, Cardinality(S)) /\ SumFunctionOnSet(f, S) = g[S]
<1> DEFINE F(g) == [t \in SUBSET S |->
                      IF t = {} THEN 0 ELSE f[Chosen(t)] + g[t \ {Chosen(t)}]]
           c == CHOOSE g : g = F(g)
<1>1. SumFunctionOnSet(f, S) = (CHOOSE g : g = [t \in SUBSET S |->
                      IF t = {} THEN 0
                      ELSE f[CHOOSE x \in t : TRUE] + g[t \ {CHOOSE x \in t : TRUE}]])[S]
  BY Zenon DEF SumFunctionOnSet, FoldFunctionOnSet, MapThenFoldSet
<1>2. SumFunctionOnSet(f, S) = c[S]
  BY <1>1, Zenon DEF Chosen
<1>3. \A t \in SUBSET S : Cardinality(t) <= Cardinality(S)
  BY FS_Subset
<1>4. \E g : g = F(g)
  <2>1. PICK g : SumUpTo(g, f, S, Cardinality(S))
    BY SumExists, FS_CardinalityType
  <2>2. g = F(g)
    BY <1>3, <2>1, Zenon DEF SumUpTo
  <2> QED
    BY <2>2, Zenon
<1>5. c = F(c)
  <2> HIDE DEF F
  <2> QED
    BY <1>4
<1> HIDE DEF c
<1>6. SumUpTo(c, f, S, Cardinality(S))
  BY <1>5, Zenon DEF SumUpTo
<1> QED
  BY <1>2, <1>6

LEMMA SumUnique ==
  ASSUME NEW S, IsFiniteSet(S), NEW f, NEW g, SumUpTo(g, f, S, Cardinality(S)),
         NEW T, IsFiniteSet(T), NEW d, NEW h, SumUpTo(h, d, T, Cardinality(T)),
         T \subseteq S, \A x \in T : d[x] = f[x]
  PROVE  h[T] = g[T]
<1> DEFINE N == {m \in Nat : \A t \in SUBSET T : Cardinality(t) <= m => h[t] = g[t]}
<1>1. ASSUME NEW t \in SUBSET T
      PROVE  /\ Cardinality(t) <= Cardinality(T) /\ Cardinality(t) <= Cardinality(S)
             /\ h[t] = IF t = {} THEN 0 ELSE d[Chosen(t)] + h[t \ {Chosen(t)}]
             /\ g[t] = IF t = {} THEN 0 ELSE f[Chosen(t)] + g[t \ {Chosen(t)}]
             /\ t # {} => d[Chosen(t)] = f[Chosen(t)]
  <2>1. Cardinality(t) <= Cardinality(T) /\ Cardinality(t) <= Cardinality(S)
    BY FS_Subset
  <2>2. t \in SUBSET S
    OBVIOUS
  <2>3. t # {} => d[Chosen(t)] = f[Chosen(t)]
    BY ChosenIn
  <2>4. h[t] = IF t = {} THEN 0 ELSE d[Chosen(t)] + h[t \ {Chosen(t)}]
    BY <2>1, Zenon DEF SumUpTo
  <2>5. g[t] = IF t = {} THEN 0 ELSE f[Chosen(t)] + g[t \ {Chosen(t)}]
    BY <2>1, <2>2, Zenon DEF SumUpTo
  <2> QED
    BY <2>1, <2>3, <2>4, <2>5
<1>2. 0 \in N
  <2> SUFFICES ASSUME NEW t \in SUBSET T, Cardinality(t) <= 0 PROVE h[t] = g[t]
    OBVIOUS
  <2>1. t = {}
    BY NoElement
  <2> QED
    BY <1>1, <2>1, Zenon
<1>3. ASSUME NEW m \in Nat, m \in N
      PROVE  m + 1 \in N
  <2> SUFFICES ASSUME NEW t \in SUBSET T, Cardinality(t) <= m + 1 PROVE h[t] = g[t]
    OBVIOUS
  <2>1. CASE t = {}
    BY <1>1, <2>1, Zenon
  <2>2. CASE t # {}
    <3>1. /\ t \ {Chosen(t)} \in SUBSET T
          /\ Cardinality(t \ {Chosen(t)}) = Cardinality(t) - 1
          /\ Cardinality(t) \in Nat
      BY <2>2, ChosenSplit
    <3>2. Cardinality(t \ {Chosen(t)}) <= m
      BY <3>1
    <3>3. h[t \ {Chosen(t)}] = g[t \ {Chosen(t)}]
      BY <1>3, <3>1, <3>2
    <3> QED
      BY <1>1, <2>2, <3>3, Zenon
  <2> QED
    BY <2>1, <2>2
<1> HIDE DEF N
<1>4. Cardinality(T) \in N
  BY <1>2, <1>3, Induction, FS_CardinalityType
<1> USE DEF N
<1>5. Cardinality(T) <= Cardinality(T)
  BY FS_CardinalityType
<1> QED
  BY <1>4, <1>5

\* Only the values on S count.
LEMMA SumAgree ==
  ASSUME NEW S, IsFiniteSet(S), NEW f, NEW d, \A x \in S : d[x] = f[x]
  PROVE  SumFunctionOnSet(d, S) = SumFunctionOnSet(f, S)
<1>1. PICK g : SumUpTo(g, f, S, Cardinality(S)) /\ SumFunctionOnSet(f, S) = g[S]
  BY SumIsOne
<1>2. PICK h : SumUpTo(h, d, S, Cardinality(S)) /\ SumFunctionOnSet(d, S) = h[S]
  BY SumIsOne
<1> QED
  BY <1>1, <1>2, SumUnique

LEMMA SumEmpty ==
  ASSUME NEW f
  PROVE  SumFunctionOnSet(f, {}) = 0
<1>1. IsFiniteSet({}) /\ Cardinality({}) = 0
  BY FS_EmptySet
<1>2. PICK g : SumUpTo(g, f, {}, Cardinality({})) /\ SumFunctionOnSet(f, {}) = g[{}]
  BY <1>1, SumIsOne
<1>3. {} \in SUBSET {} /\ Cardinality({}) <= Cardinality({})
  BY <1>1
<1>4. g[{}] = 0
  BY <1>2, <1>3, Zenon DEF SumUpTo
<1> QED
  BY <1>2, <1>4

LEMMA SumChosen ==
  ASSUME NEW S, IsFiniteSet(S), S # {}, NEW f
  PROVE  SumFunctionOnSet(f, S) = f[Chosen(S)] + SumFunctionOnSet(f, S \ {Chosen(S)})
<1> DEFINE T == S \ {Chosen(S)}
<1>1. IsFiniteSet(T) /\ T \subseteq S
  BY FS_RemoveElement
<1>2. PICK g : SumUpTo(g, f, S, Cardinality(S)) /\ SumFunctionOnSet(f, S) = g[S]
  BY SumIsOne
<1>3. PICK h : SumUpTo(h, f, T, Cardinality(T)) /\ SumFunctionOnSet(f, T) = h[T]
  BY <1>1, SumIsOne
<1>4. h[T] = g[T]
  BY <1>1, <1>2, <1>3, SumUnique
<1>5. g[S] = f[Chosen(S)] + g[S \ {Chosen(S)}]
  <2>1. S \in SUBSET S /\ Cardinality(S) <= Cardinality(S)
    BY FS_CardinalityType
  <2> QED
    BY <1>2, <2>1, Zenon DEF SumUpTo
<1> QED
  BY <1>2, <1>3, <1>4, <1>5, Zenon

\* A sum of integers is one, and any element can be taken out first.
LEMMA SumSplits ==
  ASSUME NEW S, IsFiniteSet(S), NEW f, \A x \in S : f[x] \in Int
  PROVE  /\ SumFunctionOnSet(f, S) \in Int
         /\ \A x \in S : SumFunctionOnSet(f, S) = f[x] + SumFunctionOnSet(f, S \ {x})
<1> DEFINE Good(t) == /\ SumFunctionOnSet(f, t) \in Int
                      /\ \A x \in t : SumFunctionOnSet(f, t)
                                        = f[x] + SumFunctionOnSet(f, t \ {x})
           N == {m \in Nat : \A t \in SUBSET S : Cardinality(t) <= m => Good(t)}
<1>1. 0 \in N
  <2> SUFFICES ASSUME NEW t \in SUBSET S, Cardinality(t) <= 0 PROVE Good(t)
    OBVIOUS
  <2>1. t = {}
    BY NoElement
  <2>2. SumFunctionOnSet(f, {}) = 0
    BY SumEmpty
  <2> QED
    BY <2>1, <2>2
<1>2. ASSUME NEW m \in Nat, m \in N
      PROVE  m + 1 \in N
  <2> SUFFICES ASSUME NEW t \in SUBSET S, Cardinality(t) <= m + 1 PROVE Good(t)
    OBVIOUS
  <2>0. IsFiniteSet(t)
    BY FS_Subset
  <2>1. CASE t = {}
    BY <2>1, SumEmpty
  <2>2. CASE t # {}
    <3> DEFINE a == Chosen(t)
               Total(u) == SumFunctionOnSet(f, u)
    <3>1. a \in t
      BY <2>2, ChosenIn
    <3>2. Total(t) = f[a] + Total(t \ {a})
      BY <2>0, <2>2, SumChosen
    <3>3. ASSUME NEW x \in t
          PROVE  /\ t \ {x} \in SUBSET S
                 /\ Good(t \ {x})
      <4>1. /\ t \ {x} \in SUBSET S
            /\ Cardinality(t \ {x}) = Cardinality(t) - 1
            /\ Cardinality(t) \in Nat
        BY <2>0, FS_RemoveElement, FS_CardinalityType
      <4>2. Cardinality(t \ {x}) <= m
        BY <4>1
      <4> QED
        BY <1>2, <4>1, <4>2
    <3>4. Total(t) \in Int /\ Total(t \ {a}) \in Int
      BY <3>1, <3>2, <3>3
    <3>5. ASSUME NEW x \in t, x # a
          PROVE  Total(t) = f[x] + Total(t \ {x})
      <4>1. Total(t \ {a}) = f[x] + Total((t \ {a}) \ {x})
        BY <3>1, <3>3, <3>5
      <4>2. Total(t \ {x}) = f[a] + Total((t \ {x}) \ {a})
        BY <3>1, <3>3, <3>5
      <4>3. (t \ {a}) \ {x} = (t \ {x}) \ {a}
        OBVIOUS
      <4>4. (t \ {a}) \ {x} \in SUBSET S /\ Good((t \ {a}) \ {x})
        <5>1. /\ IsFiniteSet(t \ {a})
              /\ Cardinality(t \ {a}) = Cardinality(t) - 1
              /\ Cardinality((t \ {a}) \ {x}) = Cardinality(t \ {a}) - 1
              /\ Cardinality(t) \in Nat
          BY <2>0, <3>1, <3>5, FS_RemoveElement, FS_CardinalityType
        <5>2. Cardinality((t \ {a}) \ {x}) <= m
          BY <5>1
        <5> QED
          BY <1>2, <5>2
      <4> HIDE DEF Total
      <4>5. f[a] \in Int /\ f[x] \in Int /\ Total((t \ {a}) \ {x}) \in Int
        BY <3>1, <4>4 DEF Total
      <4>6. Total((t \ {x}) \ {a}) = Total((t \ {a}) \ {x})
        BY <4>3, Zenon
      <4> DEFINE r == Total((t \ {a}) \ {x})
      <4>7. /\ Total(t) = f[a] + (f[x] + r)
            /\ Total(t \ {x}) = f[a] + r
            /\ r \in Int
        BY <3>2, <4>1, <4>2, <4>5, <4>6, Zenon
      <4> HIDE DEF r
      <4> QED
        BY <4>5, <4>7
    <3> QED
      BY <3>2, <3>4, <3>5
  <2> QED
    BY <2>1, <2>2
<1> HIDE DEF N
<1>3. Cardinality(S) \in N
  BY <1>1, <1>2, Induction, FS_CardinalityType
<1>4. Cardinality(S) <= Cardinality(S) /\ S \in SUBSET S
  BY FS_CardinalityType
<1>5. Good(S)
  BY <1>3, <1>4 DEF N
<1> QED
  BY <1>5

\* A value that changes changes the sum by as much.
LEMMA SumChanges ==
  ASSUME NEW S, IsFiniteSet(S), NEW f, NEW d, NEW x \in S,
         \A y \in S : f[y] \in Int /\ d[y] \in Int,
         \A y \in S \ {x} : d[y] = f[y]
  PROVE  SumFunctionOnSet(d, S) = SumFunctionOnSet(f, S) + d[x] - f[x]
<1>1. IsFiniteSet(S \ {x})
  BY FS_RemoveElement
<1>2. SumFunctionOnSet(d, S \ {x}) = SumFunctionOnSet(f, S \ {x})
  BY <1>1, SumAgree
<1>3. SumFunctionOnSet(f, S \ {x}) \in Int
  BY <1>1, SumSplits
<1>4. /\ SumFunctionOnSet(f, S) = f[x] + SumFunctionOnSet(f, S \ {x})
      /\ SumFunctionOnSet(d, S) = d[x] + SumFunctionOnSet(d, S \ {x})
  BY SumSplits
<1> DEFINE r == SumFunctionOnSet(f, S \ {x})
<1>5. /\ SumFunctionOnSet(f, S) = f[x] + r /\ SumFunctionOnSet(d, S) = d[x] + r
      /\ r \in Int
  BY <1>2, <1>3, <1>4
<1> HIDE DEF r
<1> QED
  BY <1>5

\* A further element adds its value.
LEMMA SumGrows ==
  ASSUME NEW S, IsFiniteSet(S), NEW x, x \notin S, NEW f,
         \A y \in S \cup {x} : f[y] \in Int
  PROVE  SumFunctionOnSet(f, S \cup {x}) = SumFunctionOnSet(f, S) + f[x]
<1>1. IsFiniteSet(S \cup {x}) /\ x \in S \cup {x} /\ (S \cup {x}) \ {x} = S
  BY FS_AddElement
<1>2. SumFunctionOnSet(f, S \cup {x}) = f[x] + SumFunctionOnSet(f, (S \cup {x}) \ {x})
  BY <1>1, SumSplits
<1>3. SumFunctionOnSet(f, (S \cup {x}) \ {x}) = SumFunctionOnSet(f, S)
  BY <1>1
<1>4. SumFunctionOnSet(f, S) \in Int
  BY SumSplits
<1> DEFINE r == SumFunctionOnSet(f, S)
<1>5. r \in Int /\ SumFunctionOnSet(f, S \cup {x}) = f[x] + r
  BY <1>2, <1>3, <1>4
<1> HIDE DEF r
<1> QED
  BY <1>5 DEF r

LEMMA OneMore ==
  ASSUME NEW a \in Int, NEW n \in Int
  PROVE  a * (n + 1) = a * n + a /\ a * n \in Int
  OBVIOUS

\* Bounds on the values bound the sum.
LEMMA SumBounded ==
  ASSUME NEW S, IsFiniteSet(S), NEW f, NEW a \in Int, NEW b \in Int,
         \A x \in S : f[x] \in Int /\ a <= f[x] /\ f[x] <= b
  PROVE  /\ a * Cardinality(S) <= SumFunctionOnSet(f, S)
         /\ SumFunctionOnSet(f, S) <= b * Cardinality(S)
<1> DEFINE Good(t) == /\ a * Cardinality(t) <= SumFunctionOnSet(f, t)
                      /\ SumFunctionOnSet(f, t) <= b * Cardinality(t)
           N == {m \in Nat : \A t \in SUBSET S : Cardinality(t) <= m => Good(t)}
<1>0. ASSUME NEW t \in SUBSET S, t = {}
      PROVE  Good(t)
  <2>1. SumFunctionOnSet(f, {}) = 0 /\ Cardinality({}) = 0
    BY SumEmpty, FS_EmptySet
  <2> QED
    BY <1>0, <2>1
<1>1. 0 \in N
  <2> SUFFICES ASSUME NEW t \in SUBSET S, Cardinality(t) <= 0 PROVE Good(t)
    OBVIOUS
  <2>1. t = {}
    BY NoElement
  <2> QED
    BY <1>0, <2>1
<1>2. ASSUME NEW m \in Nat, m \in N
      PROVE  m + 1 \in N
  <2> SUFFICES ASSUME NEW t \in SUBSET S, Cardinality(t) <= m + 1 PROVE Good(t)
    OBVIOUS
  <2>1. CASE t = {}
    BY <1>0, <2>1
  <2>2. CASE t # {}
    <3>1. PICK x \in t : TRUE
      BY <2>2
    <3> DEFINE u == t \ {x}
               n == Cardinality(u)
               r == SumFunctionOnSet(f, u)
    <3>2. IsFiniteSet(t) /\ Cardinality(t) \in Nat
      BY FS_Subset, FS_CardinalityType
    <3>3. /\ u \in SUBSET S /\ IsFiniteSet(u)
          /\ n = Cardinality(t) - 1 /\ n \in Nat
      BY <3>1, <3>2, FS_RemoveElement, FS_CardinalityType
    <3>4. n <= m
      BY <3>2, <3>3
    <3>5. Good(u)
      BY <1>2, <3>3, <3>4
    <3>6. r \in Int
      BY <3>3, SumSplits
    <3>7. SumFunctionOnSet(f, t) = f[x] + r
      BY <3>1, <3>2, SumSplits
    <3>8. Cardinality(t) = n + 1
      BY <3>2, <3>3
    <3>9. a * n <= r /\ r <= b * n
      BY <3>5
    <3>10. f[x] \in Int /\ a <= f[x] /\ f[x] <= b
      BY <3>1
    <3> HIDE DEF n, r
    <3>11. a * (n + 1) = a * n + a /\ b * (n + 1) = b * n + b /\ a * n \in Int /\ b * n \in Int
      <4>1. n \in Int
        BY <3>3
      <4> QED
        BY <4>1, OneMore
    <3> QED
      BY <3>6, <3>7, <3>8, <3>9, <3>10, <3>11
  <2> QED
    BY <2>1, <2>2
<1> HIDE DEF N
<1>3. Cardinality(S) \in N
  BY <1>1, <1>2, Induction, FS_CardinalityType
<1>4. Cardinality(S) <= Cardinality(S) /\ S \in SUBSET S
  BY FS_CardinalityType
<1>5. Good(S)
  BY <1>3, <1>4 DEF N
<1> QED
  BY <1>5
=============================================================================
