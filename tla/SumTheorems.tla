----------------------------- MODULE SumTheorems -----------------------------
(***************************************************************************)
(* Induction and sums for the proofs of this project.  The induction       *)
(* theorems of the library take the property as an operator; here it is a  *)
(* set (of numbers, of subsets), so that they can be cited.  On them rest  *)
(* the facts about MapThenSumSet: the recursive function behind it exists, *)
(* and the order in which it takes the elements does not matter.           *)
(***************************************************************************)
EXTENDS Integers, FiniteSets, FiniteSetsExt, FiniteSetTheorems, WellFoundedInduction, TLAPS

------------------------------------------------------------------------------
(* Induction.                                                                *)

\* A set of natural numbers has a least element.
LEMMA LeastNumber ==
  ASSUME NEW S \in SUBSET Nat, S # {}
  PROVE  \E m \in S : \A k \in S : m <= k
<1> DEFINE R == {p \in Nat \X Nat : p[1] < p[2]}
<1>1. IsWellFoundedOn(R, Nat)
  <2>1. OpToRel(<, Nat) = R
    BY DEF OpToRel
  <2> QED
    BY <2>1, NatLessThanWellFounded
<1> HIDE DEF R
<1>2. PICK m \in S : \A k \in S : ~ (<<k, m>> \in R)
  BY <1>1, WFMin
<1>3. \A k \in S : ~(k < m)
  BY <1>2 DEF R
<1> QED
  BY <1>3

\* A set with 0 and the successors of its members has every number.
LEMMA NumberInduction ==
  ASSUME NEW P \in SUBSET Nat, 0 \in P, \A n \in P : n + 1 \in P
  PROVE  P = Nat
<1> SUFFICES ASSUME Nat \ P # {} PROVE FALSE
  OBVIOUS
<1>1. PICK m \in Nat \ P : \A k \in Nat \ P : m <= k
  BY LeastNumber
<1>2. m # 0 /\ m - 1 \in Nat
  BY <1>1
<1>3. m - 1 \in P
  BY <1>1, <1>2
<1> QED
  BY <1>1, <1>3

\* A finite set with n + 1 elements, less any of them, has n.
LEMMA OneLess ==
  ASSUME NEW T, IsFiniteSet(T), NEW n \in Nat, Cardinality(T) = n + 1
  PROVE  T # {} /\ \A x \in T : IsFiniteSet(T \ {x}) /\ Cardinality(T \ {x}) = n
<1>1. T # {}
  <2>1. Cardinality({}) = 0
    BY FS_EmptySet
  <2> QED
    BY <2>1
<1>2. ASSUME NEW x \in T PROVE IsFiniteSet(T \ {x}) /\ Cardinality(T \ {x}) = n
  <2>1. IsFiniteSet(T \ {x}) /\ Cardinality(T \ {x}) = Cardinality(T) - 1
    BY FS_RemoveElement
  <2> QED
    BY <2>1
<1> QED
  BY <1>1, <1>2

\* A family of subsets with the empty one, and with every member that has one
\* element more, has the whole of a finite set.
LEMMA SubsetInduction ==
  ASSUME NEW S, IsFiniteSet(S), NEW P \in SUBSET (SUBSET S), {} \in P,
         \A T \in P : \A x \in S \ T : T \cup {x} \in P
  PROVE  S \in P
<1> DEFINE N == {n \in Nat : \A T \in SUBSET S : Cardinality(T) = n => T \in P}
<1>1. \A T \in SUBSET S : IsFiniteSet(T) /\ Cardinality(T) \in Nat
  BY FS_Subset, FS_CardinalityType
<1>2. 0 \in N
  BY <1>1, FS_EmptySet
<1>3. ASSUME NEW n \in N PROVE n + 1 \in N
  <2> SUFFICES ASSUME NEW T \in SUBSET S, Cardinality(T) = n + 1 PROVE T \in P
    OBVIOUS
  <2>0. n \in Nat
    OBVIOUS
  <2>1. T # {} /\ \A x \in T : Cardinality(T \ {x}) = n
    BY <1>1, <2>0, OneLess
  <2>2. PICK x \in T : TRUE
    BY <2>1
  <2>3. Cardinality(T \ {x}) = n
    BY <2>1
  <2>4. T \ {x} \in P
    BY <2>3
  <2>5. (T \ {x}) \cup {x} = T
    OBVIOUS
  <2> QED
    BY <2>4, <2>5
<1> HIDE DEF N
<1>4. N = Nat
  BY <1>2, <1>3, NumberInduction DEF N
<1> QED
  BY <1>1, <1>4 DEF N

\* A finite set of natural numbers has a greatest element.
LEMMA GreatestNumber ==
  ASSUME NEW S \in SUBSET Nat, IsFiniteSet(S), S # {}
  PROVE  \E m \in S : \A k \in S : k <= m
<1> DEFINE P == {T \in SUBSET S : T # {} => \E m \in T : \A k \in T : k <= m}
<1>1. {} \in P
  OBVIOUS
<1>2. ASSUME NEW T \in P, NEW x \in S \ T PROVE T \cup {x} \in P
  <2>1. CASE T = {}
    BY <2>1
  <2>2. CASE T # {}
    <3>1. PICK m \in T : \A k \in T : k <= m
      BY <2>2
    <3>2. CASE x <= m
      BY <3>1, <3>2
    <3>3. CASE m < x
      <4>1. \A k \in T \cup {x} : k <= x
        BY <3>1, <3>3
      <4> QED
        BY <4>1
    <3> QED
      BY <3>2, <3>3
  <2> QED
    BY <2>1, <2>2
<1> HIDE DEF P
<1>3. P \in SUBSET (SUBSET S)
  BY DEF P
<1>4. S \in P
  BY <1>1, <1>2, <1>3, SubsetInduction
<1> QED
  BY <1>4 DEF P

------------------------------------------------------------------------------
(* Sums.  SumOver(g, S) is MapThenSumSet for a function g; Unrolls says that *)
(* `iter` is the recursive function in its definition.                       *)

SumOver(g, S) == MapThenSumSet(LAMBDA x : g[x], S)

SomeOf(s) == CHOOSE x \in s : TRUE

Unrolled(g, iter, D) ==
  [s \in D |-> IF s = {} THEN 0 ELSE g[SomeOf(s)] + iter[s \ {SomeOf(s)}]]

Unrolls(g, iter, S) == iter = Unrolled(g, iter, SUBSET S)

\* The recursive function exists: it is built for subsets of at most n elements.
LEMMA RecursionExists ==
  ASSUME NEW S, IsFiniteSet(S), NEW g
  PROVE  \E iter : Unrolls(g, iter, S)
<1> DEFINE Small(n) == {s \in SUBSET S : Cardinality(s) <= n}
           P == {n \in Nat : \E iter : iter = Unrolled(g, iter, Small(n))}
<1>1. \A T \in SUBSET S : IsFiniteSet(T) /\ Cardinality(T) \in Nat
  BY FS_Subset, FS_CardinalityType
<1>2. ASSUME NEW n \in Nat, NEW s \in Small(n + 1), s # {}
      PROVE  s \ {SomeOf(s)} \in Small(n)
  <2>1. SomeOf(s) \in s
    BY <1>2 DEF SomeOf
  <2>2. Cardinality(s \ {SomeOf(s)}) = Cardinality(s) - 1
    BY <1>1, <2>1, FS_RemoveElement
  <2> QED
    BY <1>1, <2>2
<1>3. 0 \in P
  <2> DEFINE i == [s \in Small(0) |-> 0]
  <2>1. \A s \in Small(0) : s = {}
    BY <1>1, FS_EmptySet
  <2>2. i = Unrolled(g, i, Small(0))
    BY <2>1 DEF Unrolled
  <2> QED
    BY <2>2
<1>4. ASSUME NEW n \in P PROVE n + 1 \in P
  <2>1. PICK i : i = Unrolled(g, i, Small(n))
    OBVIOUS
  <2> DEFINE j == Unrolled(g, i, Small(n + 1))
  <2>2. Small(n) \subseteq Small(n + 1)
    BY <1>1
  <2>3. \A s \in Small(n) : j[s] = i[s]
    BY <2>1, <2>2 DEF Unrolled
  <2> HIDE DEF Small
  <2>4. \A s \in Small(n + 1) : s # {} => j[s \ {SomeOf(s)}] = i[s \ {SomeOf(s)}]
    BY <1>2, <2>3
  <2>5. j = Unrolled(g, j, Small(n + 1))
    BY <2>4 DEF Unrolled
  <2> QED
    BY <2>5
<1> HIDE DEF P
<1>5. P = Nat
  BY <1>3, <1>4, NumberInduction DEF P
<1>6. Cardinality(S) \in P
  BY <1>1, <1>5
<1>7. Small(Cardinality(S)) = SUBSET S
  BY FS_Subset, FS_CardinalityType
<1> HIDE DEF Small
<1> QED
  BY <1>6, <1>7 DEF P, Unrolls
\* Two such functions agree where both are defined.
LEMMA RecursionIsUnique ==
  ASSUME NEW S, IsFiniteSet(S), NEW g, NEW i, Unrolls(g, i, S),
         NEW T, NEW j, Unrolls(g, j, T)
  PROVE  \A s \in (SUBSET S) \cap (SUBSET T) : i[s] = j[s]
<1> DEFINE U == S \cap T
           N == {n \in Nat : \A s \in SUBSET U : Cardinality(s) = n => i[s] = j[s]}
<1>0. U \subseteq S /\ U \subseteq T /\ (SUBSET S) \cap (SUBSET T) = SUBSET U
  OBVIOUS
<1>1. \A s \in SUBSET U : IsFiniteSet(s) /\ Cardinality(s) \in Nat
  BY <1>0, FS_Subset, FS_CardinalityType
<1>2. ASSUME NEW s \in SUBSET U
      PROVE  /\ s = {} => i[s] = 0 /\ j[s] = 0
             /\ s # {} => /\ i[s] = g[SomeOf(s)] + i[s \ {SomeOf(s)}]
                          /\ j[s] = g[SomeOf(s)] + j[s \ {SomeOf(s)}]
  BY <1>0 DEF Unrolls, Unrolled
<1>3. 0 \in N
  <2>1. \A s \in SUBSET U : Cardinality(s) = 0 => s = {}
    BY <1>1, FS_EmptySet
  <2> QED
    BY <1>2, <2>1
<1>4. ASSUME NEW n \in N PROVE n + 1 \in N
  <2>0. n \in Nat
    OBVIOUS
  <2> SUFFICES ASSUME NEW s \in SUBSET U, Cardinality(s) = n + 1 PROVE i[s] = j[s]
    BY <2>0
  <2>1. s # {} /\ \A x \in s : Cardinality(s \ {x}) = n
    BY <1>1, <2>0, OneLess
  <2>2. SomeOf(s) \in s
    BY <2>1 DEF SomeOf
  <2>3. Cardinality(s \ {SomeOf(s)}) = n
    BY <2>1, <2>2
  <2>4. i[s \ {SomeOf(s)}] = j[s \ {SomeOf(s)}]
    BY <2>3
  <2> QED
    BY <1>2, <2>1, <2>4
<1> HIDE DEF N, U
<1>5. N = Nat
  BY <1>3, <1>4, NumberInduction DEF N
<1>6. \A s \in SUBSET U : i[s] = j[s]
  BY <1>1, <1>5 DEF N
<1> QED
  BY <1>0, <1>6

\* A sum is the value of any such function.
LEMMA SumIsUnrolled ==
  ASSUME NEW S, IsFiniteSet(S), NEW g, NEW i, Unrolls(g, i, S)
  PROVE  SumOver(g, S) = i[S]
<1> DEFINE c == CHOOSE iter : iter = [s \in SUBSET S |->
                  IF s = {} THEN 0 ELSE g[SomeOf(s)] + iter[s \ {SomeOf(s)}]]
<1>1. SumOver(g, S) = c[S]
  BY DEF SumOver, MapThenSumSet, MapThenFoldSet, SomeOf
<1>2. Unrolls(g, c, S)
  BY DEF Unrolls, Unrolled
<1> HIDE DEF c
<1>3. S \in (SUBSET S) \cap (SUBSET S)
  OBVIOUS
<1>4. c[S] = i[S]
  BY <1>2, <1>3, RecursionIsUnique
<1> QED
  BY <1>1, <1>4

LEMMA SumOfNone == ASSUME NEW g PROVE SumOver(g, {}) = 0
<1>1. PICK i : Unrolls(g, i, {})
  BY RecursionExists, FS_EmptySet
<1>2. i[{}] = 0
  BY <1>1 DEF Unrolls, Unrolled
<1> QED
  BY <1>1, <1>2, SumIsUnrolled, FS_EmptySet

\* One turn of the recursion: the element CHOOSE picks.
LEMMA SumOfSome ==
  ASSUME NEW S, IsFiniteSet(S), NEW g, S # {}
  PROVE  /\ SomeOf(S) \in S
         /\ SumOver(g, S) = g[SomeOf(S)] + SumOver(g, S \ {SomeOf(S)})
<1> DEFINE R == S \ {SomeOf(S)}
<1>0. SomeOf(S) \in S
  BY DEF SomeOf
<1>1. PICK i : Unrolls(g, i, S)
  BY RecursionExists
<1>2. IsFiniteSet(R)
  BY FS_RemoveElement
<1>3. PICK j : Unrolls(g, j, R)
  BY <1>2, RecursionExists
<1>4. R \in (SUBSET S) \cap (SUBSET R)
  OBVIOUS
<1>5. i[R] = j[R]
  BY <1>1, <1>3, <1>4, RecursionIsUnique
<1>6. SumOver(g, S) = i[S] /\ SumOver(g, R) = j[R]
  BY <1>1, <1>2, <1>3, SumIsUnrolled
<1>7. i[S] = g[SomeOf(S)] + i[R]
  BY <1>1 DEF Unrolls, Unrolled
<1> QED
  BY <1>0, <1>5, <1>6, <1>7

\* A sum of integers is an integer.
LEMMA SumType ==
  ASSUME NEW S, IsFiniteSet(S), NEW g, \A x \in S : g[x] \in Int
  PROVE  SumOver(g, S) \in Int
<1> DEFINE N == {n \in Nat : \A T \in SUBSET S : Cardinality(T) = n => SumOver(g, T) \in Int}
<1>1. \A T \in SUBSET S : IsFiniteSet(T) /\ Cardinality(T) \in Nat
  BY FS_Subset, FS_CardinalityType
<1>2. 0 \in N
  BY <1>1, FS_EmptySet, SumOfNone
<1>3. ASSUME NEW n \in N PROVE n + 1 \in N
  <2>0. n \in Nat
    OBVIOUS
  <2> SUFFICES ASSUME NEW T \in SUBSET S, Cardinality(T) = n + 1
               PROVE  SumOver(g, T) \in Int
    BY <2>0
  <2>1. T # {} /\ \A x \in T : Cardinality(T \ {x}) = n
    BY <1>1, <2>0, OneLess
  <2>2. SomeOf(T) \in T /\ SumOver(g, T) = g[SomeOf(T)] + SumOver(g, T \ {SomeOf(T)})
    BY <1>1, <2>1, SumOfSome
  <2>3. Cardinality(T \ {SomeOf(T)}) = n
    BY <2>1, <2>2
  <2>4. SumOver(g, T \ {SomeOf(T)}) \in Int
    BY <2>3
  <2> QED
    BY <2>2, <2>4
<1> HIDE DEF N
<1>4. N = Nat
  BY <1>2, <1>3, NumberInduction DEF N
<1> QED
  BY <1>1, <1>4 DEF N

\* Any element can be taken first.
LEMMA SumTakes ==
  ASSUME NEW S, IsFiniteSet(S), NEW g, \A x \in S : g[x] \in Int, NEW y \in S
  PROVE  SumOver(g, S) = g[y] + SumOver(g, S \ {y})
<1> DEFINE Takes(T) == \A x \in T : SumOver(g, T) = g[x] + SumOver(g, T \ {x})
           N == {n \in Nat : \A T \in SUBSET S : Cardinality(T) = n => Takes(T)}
<1>1. \A T \in SUBSET S : IsFiniteSet(T) /\ Cardinality(T) \in Nat
  BY FS_Subset, FS_CardinalityType
<1>2. 0 \in N
  BY <1>1, FS_EmptySet
<1>3. ASSUME NEW n \in N PROVE n + 1 \in N
  <2>0. n \in Nat
    OBVIOUS
  <2> SUFFICES ASSUME NEW T \in SUBSET S, Cardinality(T) = n + 1, NEW x \in T
               PROVE  SumOver(g, T) = g[x] + SumOver(g, T \ {x})
    BY <2>0
  <2> DEFINE z == SomeOf(T)
  <2>1. z \in T /\ SumOver(g, T) = g[z] + SumOver(g, T \ {z})
    BY <1>1, SumOfSome
  <2> HIDE DEF z
  <2>2. CASE x = z
    BY <2>1, <2>2
  <2>3. CASE x # z
    <3>1. Cardinality(T \ {z}) = n /\ Cardinality(T \ {x}) = n
      BY <1>1, <2>0, <2>1, OneLess
    <3>2. SumOver(g, T \ {z}) = g[x] + SumOver(g, (T \ {z}) \ {x})
      BY <2>3, <3>1
    <3>3. SumOver(g, T \ {x}) = g[z] + SumOver(g, (T \ {x}) \ {z})
      BY <2>1, <2>3, <3>1
    <3>4. (T \ {z}) \ {x} = (T \ {x}) \ {z}
      OBVIOUS
    <3>5. SumOver(g, (T \ {x}) \ {z}) \in Int
      <4>1. IsFiniteSet((T \ {x}) \ {z}) /\ \A u \in (T \ {x}) \ {z} : g[u] \in Int
        BY <1>1
      <4> QED
        BY <4>1, SumType
    <3>6. g[x] \in Int /\ g[z] \in Int
      BY <2>1
    <3> DEFINE rest == SumOver(g, (T \ {x}) \ {z})
               a == g[x]
               b == g[z]
    <3>7. SumOver(g, T) = b + (a + rest) /\ SumOver(g, T \ {x}) = b + rest
      BY <2>1, <3>2, <3>3, <3>4
    <3>8. a \in Int /\ b \in Int /\ rest \in Int
      BY <3>5, <3>6
    <3> HIDE DEF a, b, rest
    <3>9. SumOver(g, T) = a + SumOver(g, T \ {x})
      BY <3>7, <3>8
    <3> QED
      BY <3>9 DEF a
  <2> QED
    BY <2>2, <2>3
<1> HIDE DEF N
<1>4. N = Nat
  BY <1>2, <1>3, NumberInduction DEF N
<1> QED
  BY <1>1, <1>4 DEF N

\* Sums of natural numbers grow with the set.
LEMMA SumIsMonotone ==
  ASSUME NEW S, IsFiniteSet(S), NEW g, \A x \in S : g[x] \in Nat, NEW R \in SUBSET S
  PROVE  SumOver(g, S) \in Int /\ SumOver(g, R) \in Int /\ SumOver(g, R) <= SumOver(g, S)
<1> DEFINE P(Q) == {D \in SUBSET (S \ Q) : /\ SumOver(g, Q \cup D) \in Int
                                          /\ SumOver(g, Q) <= SumOver(g, Q \cup D)}
<1>1. ASSUME NEW Q \in SUBSET S PROVE S \ Q \in P(Q)
  <2>0. \A T \in SUBSET S : IsFiniteSet(T) /\ SumOver(g, T) \in Int
    <3> SUFFICES ASSUME NEW T \in SUBSET S PROVE IsFiniteSet(T) /\ SumOver(g, T) \in Int
      OBVIOUS
    <3>1. IsFiniteSet(T) /\ \A x \in T : g[x] \in Int
      BY FS_Subset
    <3> QED
      BY <3>1, SumType
  <2>1. {} \in P(Q)
    <3>1. Q \cup {} = Q /\ SumOver(g, Q) \in Int
      BY <2>0
    <3> QED
      BY <3>1
  <2>2. ASSUME NEW D \in P(Q), NEW x \in (S \ Q) \ D PROVE D \cup {x} \in P(Q)
    <3> DEFINE T == Q \cup (D \cup {x})
               U == Q \cup D
    <3>1. T \in SUBSET S /\ U \in SUBSET S /\ x \in T /\ T \ {x} = U
      OBVIOUS
    <3>2. SumOver(g, T) = g[x] + SumOver(g, U)
      <4>1. IsFiniteSet(T) /\ \A y \in T : g[y] \in Int
        BY <2>0, <3>1
      <4> QED
        BY <3>1, <4>1, SumTakes
    <3>3. g[x] \in Nat /\ SumOver(g, Q) \in Int /\ SumOver(g, U) \in Int
            /\ SumOver(g, Q) <= SumOver(g, U)
      BY <2>0, <3>1
    <3>4. SumOver(g, T) \in Int /\ SumOver(g, Q) <= SumOver(g, T)
      <4> DEFINE a == g[x]
                 b == SumOver(g, U)
                 c == SumOver(g, Q)
      <4>1. a \in Nat /\ b \in Int /\ c \in Int /\ c <= b /\ SumOver(g, T) = a + b
        BY <3>2, <3>3
      <4> HIDE DEF a, b, c
      <4>2. SumOver(g, T) \in Int /\ c <= SumOver(g, T)
        BY <4>1
      <4> QED
        BY <4>2 DEF c
    <3>5. D \cup {x} \in SUBSET (S \ Q)
      OBVIOUS
    <3> QED
      BY <3>4, <3>5
  <2>3. IsFiniteSet(S \ Q)
    BY FS_Subset
  <2>4. P(Q) \in SUBSET (SUBSET (S \ Q))
    OBVIOUS
  <2> DEFINE F == P(Q)
  <2>5. {} \in F /\ F \in SUBSET (SUBSET (S \ Q))
    BY <2>1, <2>4
  <2>6. \A D \in F : \A x \in (S \ Q) \ D : D \cup {x} \in F
    BY <2>2
  <2> HIDE DEF F
  <2>7. S \ Q \in F
    BY <2>3, <2>5, <2>6, SubsetInduction
  <2> QED
    BY <2>7 DEF F
<1>2. ASSUME NEW Q \in SUBSET S PROVE SumOver(g, Q) <= SumOver(g, S) /\ SumOver(g, S) \in Int
  <2>1. Q \cup (S \ Q) = S
    OBVIOUS
  <2> QED
    BY <1>1, <2>1
<1>3. SumOver(g, R) \in Int
  <2>1. IsFiniteSet(R) /\ \A x \in R : g[x] \in Int
    BY FS_Subset
  <2> QED
    BY <2>1, SumType
<1> QED
  BY <1>2, <1>3

\* They are natural numbers too: the empty sum is none.
LEMMA SumGrows ==
  ASSUME NEW S, IsFiniteSet(S), NEW g, \A x \in S : g[x] \in Nat, NEW R \in SUBSET S
  PROVE  SumOver(g, S) \in Nat /\ SumOver(g, R) \in Nat /\ SumOver(g, R) <= SumOver(g, S)
<1>1. SumOver(g, S) \in Int /\ SumOver(g, R) \in Int /\ SumOver(g, R) <= SumOver(g, S)
  BY SumIsMonotone
<1>2. SumOver(g, {}) <= SumOver(g, R)
  <2>1. IsFiniteSet(R) /\ (\A x \in R : g[x] \in Nat) /\ {} \in SUBSET R
    BY FS_Subset
  <2> QED
    BY <2>1, SumIsMonotone
<1>3. 0 <= SumOver(g, R)
  BY <1>2, SumOfNone
<1> QED
  BY <1>1, <1>3
==============================================================================
