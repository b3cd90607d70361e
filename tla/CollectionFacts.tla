---------------------------- MODULE CollectionFacts -----------------------------
(***************************************************************************)
(* Facts about finite sets and sequences that the library does not have:   *)
(* sums over sets, sorted enumerations, and lists of lists.                *)
(***************************************************************************)
EXTENDS InductionFacts, FiniteSets, FiniteSetTheorems, Sequences, SequenceTheorems, SequencesExt

(***************************************************************************)
(* Sums over finite sets (what the recursion of SumFunction computes, and  *)
(* that the order in which it takes the elements does not matter) and      *)
(* sorted enumerations of finite sets.                                     *)
(***************************************************************************)
\* The element the recursion takes first.
Pick(s) == CHOOSE x \in s : TRUE

\* One step of the recursion.
SumStep(f, g, s) == IF s = {} THEN 0 ELSE f[Pick(s)] + g[s \ {Pick(s)}]

\* g solves the recursion for the subsets of D.
Solves(g, f, D) == g = [s \in SUBSET D |-> SumStep(f, g, s)]

\* The sum of f over D.
Total(f, D) == (CHOOSE g : Solves(g, f, D))[D]

\* A set with an element in it is smaller without it.
LEMMA PickSmaller ==
  ASSUME NEW s, IsFiniteSet(s), s # {}
  PROVE  /\ Pick(s) \in s
         /\ IsFiniteSet(s \ {Pick(s)})
         /\ Cardinality(s) \in Nat /\ Cardinality(s) > 0
         /\ Cardinality(s \ {Pick(s)}) = Cardinality(s) - 1
<1>1. Pick(s) \in s
  BY Zenon DEF Pick
<1>2. Cardinality(s) \in Nat /\ Cardinality(s) # 0
  BY FS_CardinalityType, FS_EmptySet
<1> HIDE DEF Pick
<1> QED
  BY <1>1, <1>2, FS_RemoveElement

\* The recursion has a solution.
LEMMA SumSolution ==
  ASSUME NEW D, IsFiniteSet(D), NEW f
  PROVE  \E g : Solves(g, f, D)
<1> DEFINE IsFcn(g) == g = [s \in SUBSET D |-> g[s]]
           Good(g, n) == \A s \in SUBSET D : Cardinality(s) <= n => g[s] = SumStep(f, g, s)
           S == {n \in Nat : \E g : IsFcn(g) /\ Good(g, n)}
<1>0. \A s \in SUBSET D : IsFiniteSet(s) /\ Cardinality(s) \in Nat /\ Cardinality(s) <= Cardinality(D)
  BY FS_Subset, FS_CardinalityType
<1>1. 0 \in S
  <2> DEFINE g == [s \in SUBSET D |-> 0]
  <2>1. IsFcn(g)
    OBVIOUS
  <2>2. Good(g, 0)
    <3> SUFFICES ASSUME NEW s \in SUBSET D, Cardinality(s) <= 0 PROVE g[s] = SumStep(f, g, s)
      OBVIOUS
    <3>1. s = {}
      BY <1>0, FS_EmptySet
    <3> QED
      BY <3>1 DEF SumStep
  <2>3. 0 \in Nat
    OBVIOUS
  <2> HIDE DEF g, IsFcn, Good
  <2> QED
    BY <2>1, <2>2, <2>3, Zenon
<1>2. ASSUME NEW n \in Nat, n \in S
      PROVE  n + 1 \in S
  <2>1. PICK g : IsFcn(g) /\ Good(g, n)
    BY <1>2
  <2> DEFINE h == [s \in SUBSET D |-> IF Cardinality(s) = n + 1 THEN SumStep(f, g, s) ELSE g[s]]
  <2>2. IsFcn(h)
    OBVIOUS
  <2>3. ASSUME NEW s \in SUBSET D, Cardinality(s) <= n + 1
        PROVE  SumStep(f, h, s) = SumStep(f, g, s)
    <3>1. CASE s = {}
      BY <3>1 DEF SumStep
    <3>2. CASE s # {}
      <4>1. s \ {Pick(s)} \in SUBSET D /\ Cardinality(s \ {Pick(s)}) # n + 1
        BY <1>0, <2>3, <3>2, PickSmaller
      <4>2. h[s \ {Pick(s)}] = g[s \ {Pick(s)}]
        BY <4>1
      <4> QED
        BY <4>2 DEF SumStep
    <3> QED
      BY <3>1, <3>2
  <2>4. Good(h, n + 1)
    <3> SUFFICES ASSUME NEW s \in SUBSET D, Cardinality(s) <= n + 1
                 PROVE  h[s] = SumStep(f, h, s)
      OBVIOUS
    <3>1. CASE Cardinality(s) = n + 1
      <4>1. h[s] = SumStep(f, g, s)
        BY <3>1
      <4> QED
        BY <2>3, <4>1
    <3>2. CASE Cardinality(s) # n + 1
      <4>1. h[s] = g[s] /\ Cardinality(s) <= n
        BY <1>0, <3>2
      <4>2. g[s] = SumStep(f, g, s)
        BY <2>1, <4>1
      <4> QED
        BY <2>3, <4>1, <4>2
    <3> QED
      BY <3>1, <3>2
  <2>5. n + 1 \in Nat
    OBVIOUS
  <2> HIDE DEF h, IsFcn, Good
  <2> QED
    BY <2>2, <2>4, <2>5, Zenon
<1> HIDE DEF S
<1>3. Cardinality(D) \in S
  BY <1>1, <1>2, FS_CardinalityType, NatSetInduction
<1>4. PICK g : IsFcn(g) /\ Good(g, Cardinality(D))
  BY <1>3, Zenon DEF S
<1>5. \A s \in SUBSET D : g[s] = SumStep(f, g, s)
  BY <1>0, <1>4
<1>6. g = [s \in SUBSET D |-> SumStep(f, g, s)]
  BY <1>4, <1>5, Zenon
<1> QED
  BY <1>6, Zenon DEF Solves

\* f and e have the same values on T.
SameOn(f, e, T) == \A x \in T : f[x] = e[x]

\* Two solutions agree where the functions they add up agree.
LEMMA SolutionsAgree ==
  ASSUME NEW D, NEW E, NEW f, NEW e, NEW g, NEW h, Solves(g, f, D), Solves(h, e, E),
         NEW T, IsFiniteSet(T), T \in SUBSET D, T \in SUBSET E, SameOn(f, e, T)
  PROVE  g[T] = h[T]
<1> DEFINE S == {n \in Nat : \A U \in SUBSET T : Cardinality(U) = n => g[U] = h[U]}
<1>0. \A U \in SUBSET T : IsFiniteSet(U) /\ Cardinality(U) \in Nat
  BY FS_Subset, FS_CardinalityType
<1>1. ASSUME NEW U \in SUBSET T
      PROVE  g[U] = SumStep(f, g, U) /\ h[U] = SumStep(e, h, U)
  <2>1. U \in SUBSET D /\ U \in SUBSET E
    OBVIOUS
  <2>2. \A s \in SUBSET D : g[s] = SumStep(f, g, s)
    BY DEF Solves
  <2>3. \A s \in SUBSET E : h[s] = SumStep(e, h, s)
    BY DEF Solves
  <2> QED
    BY <2>1, <2>2, <2>3
<1>2. 0 \in S
  <2> SUFFICES ASSUME NEW U \in SUBSET T, Cardinality(U) = 0 PROVE g[U] = h[U]
    OBVIOUS
  <2>1. U = {}
    BY <1>0, FS_EmptySet
  <2> QED
    BY <1>1, <2>1 DEF SumStep
<1>3. ASSUME NEW n \in Nat, n \in S PROVE n + 1 \in S
  <2> SUFFICES ASSUME NEW U \in SUBSET T, Cardinality(U) = n + 1 PROVE g[U] = h[U]
    OBVIOUS
  <2>1. U # {}
    BY FS_EmptySet
  <2> DEFINE x == Pick(U)
  <2>2. x \in U /\ Cardinality(U \ {x}) = n /\ U \ {x} \in SUBSET T
    BY <1>0, <2>1, PickSmaller
  <2>3. g[U \ {x}] = h[U \ {x}]
    BY <1>3, <2>2
  <2>4. f[x] = e[x]
    BY <2>2 DEF SameOn
  <2>5. g[U] = f[x] + g[U \ {x}] /\ h[U] = e[x] + h[U \ {x}]
    BY <1>1, <2>1 DEF SumStep
  <2> QED
    BY <2>3, <2>4, <2>5
<1> HIDE DEF S
<1>4. Cardinality(T) \in S
  BY <1>0, <1>2, <1>3, NatSetInduction
<1> QED
  BY <1>4 DEF S

\* A solution for a larger set has the sums over its subsets.
LEMMA TotalOfSolution ==
  ASSUME NEW D, NEW f, NEW g, Solves(g, f, D), NEW T \in SUBSET D, IsFiniteSet(T)
  PROVE  Total(f, T) = g[T]
<1> DEFINE h == CHOOSE h : Solves(h, f, T)
<1>1. Solves(h, f, T)
  BY SumSolution
<1>2. Total(f, T) = h[T]
  BY DEF Total
<1> HIDE DEF h
<1>3. T \in SUBSET T /\ SameOn(f, f, T)
  BY DEF SameOn
<1>4. h[T] = g[T]
  BY <1>1, <1>3, SolutionsAgree
<1> QED
  BY <1>2, <1>4

\* The sum over nothing is 0, and the recursion for the others.
LEMMA TotalUnfold ==
  ASSUME NEW f, NEW T, IsFiniteSet(T)
  PROVE  Total(f, T) = IF T = {} THEN 0 ELSE f[Pick(T)] + Total(f, T \ {Pick(T)})
<1>1. PICK g : Solves(g, f, T)
  BY SumSolution
<1>2. \A s \in SUBSET T : g[s] = SumStep(f, g, s)
  BY <1>1 DEF Solves
<1>3. T \in SUBSET T
  OBVIOUS
<1>4. Total(f, T) = g[T]
  BY <1>1, <1>3, TotalOfSolution
<1>5. CASE T = {}
  BY <1>2, <1>3, <1>4, <1>5 DEF SumStep
<1>6. CASE T # {}
  <2>1. T \ {Pick(T)} \in SUBSET T /\ IsFiniteSet(T \ {Pick(T)})
    BY <1>6, PickSmaller
  <2>2. Total(f, T \ {Pick(T)}) = g[T \ {Pick(T)}]
    BY <1>1, <2>1, TotalOfSolution
  <2> QED
    BY <1>2, <1>3, <1>4, <1>6, <2>2 DEF SumStep
<1> QED
  BY <1>5, <1>6

\* The sum depends on the values on the set only.
LEMMA TotalSame ==
  ASSUME NEW f, NEW e, NEW T, IsFiniteSet(T), \A x \in T : f[x] = e[x]
  PROVE  Total(f, T) = Total(e, T)
<1>1. PICK g : Solves(g, f, T)
  BY SumSolution
<1>2. PICK h : Solves(h, e, T)
  BY SumSolution
<1>3. T \in SUBSET T /\ SameOn(f, e, T)
  BY DEF SameOn
<1>4. Total(f, T) = g[T] /\ Total(e, T) = h[T]
  BY <1>1, <1>2, <1>3, TotalOfSolution
<1>5. g[T] = h[T]
  BY <1>1, <1>2, <1>3, SolutionsAgree
<1> QED
  BY <1>4, <1>5

\* A sum of numbers is a number.
LEMMA TotalNat ==
  ASSUME NEW f, NEW T, IsFiniteSet(T), \A x \in T : f[x] \in Nat
  PROVE  Total(f, T) \in Nat
<1> DEFINE S == {n \in Nat : \A U \in SUBSET T : Cardinality(U) = n => Total(f, U) \in Nat}
<1>0. \A U \in SUBSET T : IsFiniteSet(U) /\ Cardinality(U) \in Nat
  BY FS_Subset, FS_CardinalityType
<1>1. 0 \in S
  <2> SUFFICES ASSUME NEW U \in SUBSET T, Cardinality(U) = 0 PROVE Total(f, U) \in Nat
    OBVIOUS
  <2>1. U = {}
    BY <1>0, FS_EmptySet
  <2> QED
    BY <1>0, <2>1, TotalUnfold
<1>2. ASSUME NEW n \in Nat, n \in S PROVE n + 1 \in S
  <2> SUFFICES ASSUME NEW U \in SUBSET T, Cardinality(U) = n + 1 PROVE Total(f, U) \in Nat
    OBVIOUS
  <2>1. U # {}
    BY FS_EmptySet
  <2> DEFINE c == Pick(U)
  <2>2. c \in U /\ Cardinality(U \ {c}) = n /\ U \ {c} \in SUBSET T
    BY <1>0, <2>1, PickSmaller
  <2>3. Total(f, U) = f[c] + Total(f, U \ {c})
    BY <1>0, <2>1, TotalUnfold
  <2> QED
    BY <1>2, <2>2, <2>3
<1> HIDE DEF S
<1>3. Cardinality(T) \in S
  BY <1>0, <1>1, <1>2, NatSetInduction
<1> QED
  BY <1>3 DEF S

\* Any element may be taken first.
LEMMA TotalRemove ==
  ASSUME NEW f, NEW T, IsFiniteSet(T), \A x \in T : f[x] \in Nat
  PROVE  \A x \in T : Total(f, T) = f[x] + Total(f, T \ {x})
<1> DEFINE Fine(U) == \A x \in U : Total(f, U) = f[x] + Total(f, U \ {x})
           S == {n \in Nat : \A U \in SUBSET T : Cardinality(U) = n => Fine(U)}
<1>0. \A U \in SUBSET T : IsFiniteSet(U) /\ Cardinality(U) \in Nat
  BY FS_Subset, FS_CardinalityType
<1>1. 0 \in S
  <2> SUFFICES ASSUME NEW U \in SUBSET T, Cardinality(U) = 0 PROVE Fine(U)
    OBVIOUS
  <2>1. U = {}
    BY <1>0, FS_EmptySet
  <2> QED
    BY <1>0, <2>1, TotalUnfold
<1>2. ASSUME NEW n \in Nat, n \in S PROVE n + 1 \in S
  <2> SUFFICES ASSUME NEW U \in SUBSET T, Cardinality(U) = n + 1 PROVE Fine(U)
    OBVIOUS
  <2>1. U # {}
    BY FS_EmptySet
  <2> DEFINE c == Pick(U)
  <2>2. c \in U /\ Cardinality(U \ {c}) = n /\ U \ {c} \in SUBSET T
    BY <1>0, <2>1, PickSmaller
  <2>3. Total(f, U) = f[c] + Total(f, U \ {c})
    BY <1>0, <2>1, TotalUnfold
  <2> HIDE DEF c
  <2>4. Fine(U \ {c})
    <3> HIDE DEF Fine
    <3> QED
      BY <1>2, <2>2
  <2>6. ASSUME NEW x \in U PROVE Total(f, U) = f[x] + Total(f, U \ {x})
    <3>1. CASE x = c
      BY <2>3, <3>1
    <3>2. CASE x # c
      <4> DEFINE V == (U \ {c}) \ {x}
      <4>1. Total(f, U \ {c}) = f[x] + Total(f, V)
        BY <2>4, <3>2
      <4>2. U \ {x} \in SUBSET T /\ Cardinality(U \ {x}) = n
        <5>1. IsFiniteSet(U) /\ x \in U
          BY <1>0
        <5>2. Cardinality(U \ {x}) = Cardinality(U) - 1
          BY <5>1, FS_RemoveElement
        <5> QED
          BY <5>2
      <4>3. Fine(U \ {x})
        <5> HIDE DEF Fine
        <5> QED
          BY <1>2, <4>2
      <4>4. c \in U \ {x} /\ (U \ {x}) \ {c} = V
        BY <2>2, <3>2
      <4>5. Total(f, U \ {x}) = f[c] + Total(f, V)
        BY <4>3, <4>4
      <4>6. f[c] \in Nat /\ f[x] \in Nat /\ Total(f, V) \in Nat
        <5>1. V \in SUBSET T
          OBVIOUS
        <5>2. IsFiniteSet(V) /\ \A y \in V : f[y] \in Nat
          BY <1>0, <5>1
        <5> HIDE DEF V
        <5> QED
          BY <2>2, <5>2, TotalNat
      <4> QED
        BY <2>3, <4>1, <4>5, <4>6
    <3> QED
      BY <3>1, <3>2
  <2> QED
    BY <2>6
<1> HIDE DEF S
<1>3. Cardinality(T) \in S
  BY <1>0, <1>1, <1>2, NatSetInduction
<1>4. Fine(T)
  <2> HIDE DEF Fine
  <2> QED
    BY <1>3 DEF S
<1> QED
  BY <1>4

\* Total is the sum of the community modules.
LEMMA SumIsTotal ==
  ASSUME NEW f, NEW D
  PROVE  SumFunctionOnSet(f, D) = Total(f, D)
BY Zenon DEF SumFunctionOnSet, FoldFunctionOnSet, MapThenFoldSet, Total, Solves, SumStep, Pick

\* Elements that count nothing may be left out.
LEMMA TotalSupport ==
  ASSUME NEW f, NEW T, IsFiniteSet(T), NEW U \in SUBSET T, \A x \in T : f[x] \in Nat,
         \A x \in T \ U : f[x] = 0
  PROVE  Total(f, T) = Total(f, U)
<1> DEFINE S == {n \in Nat : \A V \in SUBSET T :
                   Cardinality(V) = n /\ U \subseteq V => Total(f, V) = Total(f, U)}
<1>0. \A V \in SUBSET T : IsFiniteSet(V) /\ Cardinality(V) \in Nat
  BY FS_Subset, FS_CardinalityType
<1>1. 0 \in S
  <2> SUFFICES ASSUME NEW V \in SUBSET T, Cardinality(V) = 0, U \subseteq V
               PROVE  Total(f, V) = Total(f, U)
    OBVIOUS
  <2>1. V = {}
    BY <1>0, FS_EmptySet
  <2> QED
    BY <2>1
<1>2. ASSUME NEW n \in Nat, n \in S PROVE n + 1 \in S
  <2> SUFFICES ASSUME NEW V \in SUBSET T, Cardinality(V) = n + 1, U \subseteq V
               PROVE  Total(f, V) = Total(f, U)
    OBVIOUS
  <2>1. CASE V = U
    BY <2>1
  <2>2. CASE V # U
    <3>1. PICK x \in V : x \notin U
      BY <2>2
    <3>2. IsFiniteSet(V) /\ f[x] = 0 /\ \A y \in V : f[y] \in Nat
      BY <1>0, <3>1
    <3>3. Total(f, V) = f[x] + Total(f, V \ {x})
      BY <3>2, TotalRemove
    <3>4. Cardinality(V \ {x}) = Cardinality(V) - 1
      BY <3>2, FS_RemoveElement
    <3>5. V \ {x} \in SUBSET T /\ U \subseteq V \ {x} /\ Cardinality(V \ {x}) = n
      BY <3>1, <3>4
    <3>6. Total(f, V \ {x}) = Total(f, U)
      BY <1>2, <3>5
    <3>7. Total(f, V \ {x}) \in Nat
      BY <1>0, <3>5, TotalNat
    <3> QED
      BY <3>2, <3>3, <3>6, <3>7
  <2> QED
    BY <2>1, <2>2
<1> HIDE DEF S
<1>3. Cardinality(T) \in S
  BY <1>0, <1>1, <1>2, NatSetInduction
<1> QED
  BY <1>3 DEF S

\* How the sum changes with one of the values.
LEMMA TotalUpdate ==
  ASSUME NEW f, NEW e, NEW T, IsFiniteSet(T), NEW x \in T,
         \A y \in T : f[y] \in Nat /\ e[y] \in Nat,
         \A y \in T \ {x} : f[y] = e[y]
  PROVE  /\ Total(e, T) + f[x] = Total(f, T) + e[x]
         /\ Total(e, T) \in Nat /\ Total(f, T) \in Nat
<1>1. Total(f, T) = f[x] + Total(f, T \ {x})
  BY TotalRemove
<1>2. Total(e, T) = e[x] + Total(e, T \ {x})
  BY TotalRemove
<1>3. IsFiniteSet(T \ {x})
  BY FS_RemoveElement
<1>4. Total(f, T \ {x}) = Total(e, T \ {x})
  BY <1>3, TotalSame
<1>5. Total(f, T \ {x}) \in Nat
  BY <1>3, TotalNat
<1> QED
  BY <1>1, <1>2, <1>4, <1>5

\* The sum over a list of the elements of a set is the sum over the set.
LEMMA TotalReindex ==
  ASSUME NEW n \in Nat, NEW T, NEW q \in Bijection(1..n, T), NEW f,
         \A x \in T : f[x] \in Nat
  PROVE  Total([i \in 1..n |-> f[q[i]]], 1..n) = Total(f, T)
<1> DEFINE g == [i \in 1..n |-> f[q[i]]]
           Image(m) == {q[i] : i \in 1..m}
           S == {m \in Nat : m <= n => Total(g, 1..m) = Total(f, Image(m))}
<1>0. /\ q \in [1..n -> T] /\ \A i, j \in 1..n : q[i] = q[j] => i = j
      /\ \A x \in T : \E i \in 1..n : q[i] = x
  BY DEF Bijection, Injection, Surjection, IsInjective
<1>1. IsFiniteSet(T)
  <2>1. ExistsBijection(1..n, T)
    BY DEF ExistsBijection
  <2>2. IsFiniteSet(1..n)
    BY FS_Interval
  <2> QED
    BY <2>1, <2>2, FS_Bijection
<1>2. 0 \in S
  <2>1. 1..0 = {} /\ Image(0) = {}
    OBVIOUS
  <2> QED
    BY <2>1, FS_EmptySet, TotalUnfold
<1>3. ASSUME NEW m \in Nat, m \in S PROVE m + 1 \in S
  <2> SUFFICES ASSUME m + 1 <= n PROVE Total(g, 1..(m + 1)) = Total(f, Image(m + 1))
    OBVIOUS
  <2>1. m + 1 \in 1..n /\ \A i \in 1..(m + 1) : i \in 1..n
    OBVIOUS
  <2>2. IsFiniteSet(1..(m + 1)) /\ \A i \in 1..(m + 1) : g[i] \in Nat
    BY <1>0, <2>1, FS_Interval
  <2>3. (1..(m + 1)) \ {m + 1} = 1..m
    OBVIOUS
  <2>4. Total(g, 1..(m + 1)) = g[m + 1] + Total(g, 1..m)
    <3> HIDE DEF g
    <3>1. m + 1 \in 1..(m + 1)
      OBVIOUS
    <3> QED
      BY <2>2, <2>3, <3>1, TotalRemove
  <2>5. Image(m + 1) \in SUBSET T /\ q[m + 1] \in Image(m + 1)
    BY <1>0, <2>1
  <2>6. Image(m + 1) \ {q[m + 1]} = Image(m)
    <3>1. ASSUME NEW x \in Image(m + 1) \ {q[m + 1]} PROVE x \in Image(m)
      <4>1. PICK i \in 1..(m + 1) : x = q[i]
        OBVIOUS
      <4>2. i \in 1..m
        BY <4>1
      <4> QED
        BY <4>1, <4>2
    <3>2. ASSUME NEW x \in Image(m) PROVE x \in Image(m + 1) \ {q[m + 1]}
      <4>1. PICK i \in 1..m : x = q[i]
        OBVIOUS
      <4>2. i \in 1..n /\ i # m + 1 /\ i \in 1..(m + 1)
        OBVIOUS
      <4>3. q[i] # q[m + 1]
        BY <1>0, <2>1, <4>2
      <4> QED
        BY <4>1, <4>2, <4>3
    <3> HIDE DEF Image
    <3> QED
      BY <3>1, <3>2
  <2>7. Total(f, Image(m + 1)) = f[q[m + 1]] + Total(f, Image(m))
    <3> HIDE DEF Image
    <3>1. IsFiniteSet(Image(m + 1)) /\ \A x \in Image(m + 1) : f[x] \in Nat
      BY <1>1, <2>5, FS_Subset
    <3> QED
      BY <2>5, <2>6, <3>1, TotalRemove
  <2>8. g[m + 1] = f[q[m + 1]]
    BY <2>1
  <2>9. Total(g, 1..m) = Total(f, Image(m))
    BY <1>3
  <2> HIDE DEF g, Image
  <2> QED
    BY <2>4, <2>7, <2>8, <2>9
<1> HIDE DEF S
<1>4. n \in S
  BY <1>2, <1>3, NatSetInduction
<1>5. Image(n) = T
  BY <1>0
<1> HIDE DEF g, Image
<1>6. Total(g, 1..n) = Total(f, Image(n))
  BY <1>4 DEF S
<1> QED
  BY <1>5, <1>6 DEF g

(***************************************************************************)
(* Sorting.                                                                *)
(***************************************************************************)

\* R orders the elements of S.
StrictOrder(R, S) ==
  /\ \A x \in S : <<x, x>> \notin R
  /\ \A x, y \in S : x # y => <<x, y>> \in R \/ <<y, x>> \in R
  /\ \A x, y, z \in S : <<x, y>> \in R /\ <<y, z>> \in R => <<x, z>> \in R

\* A finite set has a last element.
LEMMA LastElement ==
  ASSUME NEW R, NEW T, IsFiniteSet(T), T # {}, StrictOrder(R, T)
  PROVE  \E m \in T : \A x \in T \ {m} : <<x, m>> \in R
<1> DEFINE HasLast(U) == \E m \in U : \A x \in U \ {m} : <<x, m>> \in R
           S == {n \in Nat : \A U \in SUBSET T : Cardinality(U) = n /\ U # {} => HasLast(U)}
<1>0. \A U \in SUBSET T : IsFiniteSet(U) /\ Cardinality(U) \in Nat
  BY FS_Subset, FS_CardinalityType
<1>1. 0 \in S
  BY <1>0, FS_EmptySet
<1>2. ASSUME NEW n \in Nat, n \in S PROVE n + 1 \in S
  <2> SUFFICES ASSUME NEW U \in SUBSET T, Cardinality(U) = n + 1, U # {} PROVE HasLast(U)
    OBVIOUS
  <2> DEFINE c == Pick(U)
  <2>1. c \in U /\ Cardinality(U \ {c}) = n /\ U \ {c} \in SUBSET T
    BY <1>0, PickSmaller
  <2> HIDE DEF c
  <2>2. CASE U \ {c} = {}
    BY <2>1, <2>2
  <2>3. CASE U \ {c} # {}
    <3>1. HasLast(U \ {c})
      <4> HIDE DEF HasLast
      <4> QED
        BY <1>2, <2>1, <2>3
    <3>2. PICK m \in U \ {c} : \A x \in (U \ {c}) \ {m} : <<x, m>> \in R
      BY <3>1
    <3>3. CASE <<c, m>> \in R
      BY <3>2, <3>3
    <3>4. CASE <<m, c>> \in R
      <4>1. ASSUME NEW x \in U \ {c} PROVE <<x, c>> \in R
        <5>1. x = m \/ <<x, m>> \in R
          BY <3>2
        <5> QED
          BY <2>1, <3>2, <3>4, <5>1 DEF StrictOrder
      <4> QED
        BY <2>1, <4>1
    <3> QED
      BY <2>1, <3>2, <3>3, <3>4 DEF StrictOrder
  <2> QED
    BY <2>2, <2>3
<1> HIDE DEF S
<1>3. Cardinality(T) \in S
  BY <1>0, <1>1, <1>2, NatSetInduction
<1>4. HasLast(T)
  <2> HIDE DEF HasLast
  <2> QED
    BY <1>3 DEF S
<1> QED
  BY <1>4

\* q lists the elements of S in the order R, each one once.
Sorts(q, R, S) ==
  /\ q \in [1..Cardinality(S) -> S]
  /\ \A i, j \in 1..Cardinality(S) : i < j => <<q[i], q[j]>> \in R

\* A finite set can be sorted.
LEMMA SortedExists ==
  ASSUME NEW R, NEW T, IsFiniteSet(T), StrictOrder(R, T)
  PROVE  \E q : Sorts(q, R, T)
<1> DEFINE CanSort(U) == \E q : Sorts(q, R, U)
           S == {n \in Nat : \A U \in SUBSET T : Cardinality(U) = n => CanSort(U)}
<1>0. \A U \in SUBSET T : IsFiniteSet(U) /\ Cardinality(U) \in Nat
  BY FS_Subset, FS_CardinalityType
<1>1. 0 \in S
  <2> SUFFICES ASSUME NEW U \in SUBSET T, Cardinality(U) = 0 PROVE CanSort(U)
    OBVIOUS
  <2> DEFINE q == [i \in 1..0 |-> Pick(U)]
  <2>1. 1..Cardinality(U) = 1..0 /\ \A i \in 1..0 : FALSE
    OBVIOUS
  <2>2. q \in [1..0 -> U]
    BY <2>1
  <2> HIDE DEF q
  <2>3. Sorts(q, R, U)
    <3>1. q \in [1..Cardinality(U) -> U]
      BY <2>2
    <3>2. \A i, j \in 1..Cardinality(U) : i < j => <<q[i], q[j]>> \in R
      BY <2>1
    <3> QED
      BY <3>1, <3>2, Zenon DEF Sorts
  <2> QED
    BY <2>3
<1>2. ASSUME NEW n \in Nat, n \in S PROVE n + 1 \in S
  <2> SUFFICES ASSUME NEW U \in SUBSET T, Cardinality(U) = n + 1 PROVE CanSort(U)
    OBVIOUS
  <2>1. U # {} /\ IsFiniteSet(U)
    BY <1>0, FS_EmptySet
  <2>2. StrictOrder(R, U)
    BY DEF StrictOrder
  <2>3. PICK m \in U : \A x \in U \ {m} : <<x, m>> \in R
    BY <2>1, <2>2, LastElement
  <2>4. U \ {m} \in SUBSET T /\ Cardinality(U \ {m}) = n
    <3>1. Cardinality(U \ {m}) = Cardinality(U) - 1
      BY <2>1, FS_RemoveElement
    <3> QED
      BY <3>1
  <2>5. PICK q : Sorts(q, R, U \ {m})
    BY <1>2, <2>4
  <2>6. /\ q \in [1..n -> U \ {m}]
        /\ \A i, j \in 1..n : i < j => <<q[i], q[j]>> \in R
    BY <2>4, <2>5 DEF Sorts
  <2> DEFINE r == [i \in 1..(n + 1) |-> IF i = n + 1 THEN m ELSE q[i]]
  <2>7. \A i \in 1..n : r[i] = q[i] /\ q[i] \in U \ {m}
    BY <2>6
  <2>8. r[n + 1] = m
    OBVIOUS
  <2>9. r \in [1..(n + 1) -> U]
    <3> SUFFICES ASSUME NEW i \in 1..(n + 1) PROVE (IF i = n + 1 THEN m ELSE q[i]) \in U
      OBVIOUS
    <3>1. i # n + 1 => i \in 1..n
      OBVIOUS
    <3> QED
      BY <2>7, <3>1
  <2> HIDE DEF r
  <2>10. ASSUME NEW i \in 1..(n + 1), NEW j \in 1..(n + 1), i < j
         PROVE  <<r[i], r[j]>> \in R
    <3>1. i \in 1..n
      BY <2>10
    <3>2. CASE j = n + 1
      BY <2>3, <2>7, <2>8, <3>1, <3>2
    <3>3. CASE j # n + 1
      <4>1. j \in 1..n
        BY <3>3
      <4> QED
        BY <2>6, <2>7, <2>10, <3>1, <4>1
    <3> QED
      BY <3>2, <3>3
  <2>11. Sorts(r, R, U)
    BY <2>9, <2>10 DEF Sorts
  <2> QED
    BY <2>11
<1> HIDE DEF S
<1>3. Cardinality(T) \in S
  BY <1>0, <1>1, <1>2, NatSetInduction
<1>4. CanSort(T)
  <2> HIDE DEF CanSort
  <2> QED
    BY <1>3 DEF S
<1> QED
  BY <1>4

\* The elements of a finite set can be numbered in their order: there is one
\* with any number of elements before it.
LEMMA RankExists ==
  ASSUME NEW R, NEW T, IsFiniteSet(T), StrictOrder(R, T), NEW k \in 1..Cardinality(T)
  PROVE  \E x \in T : Cardinality({m \in T : <<m, x>> \in R}) = k - 1
<1> DEFINE c == Cardinality(T)
<1>1. c \in Nat
  BY FS_CardinalityType
<1>2. PICK q : Sorts(q, R, T)
  BY SortedExists
<1>3. q \in [1..c -> T] /\ \A i, j \in 1..c : i < j => <<q[i], q[j]>> \in R
  BY <1>2 DEF Sorts
<1> HIDE DEF c
<1>4. ASSUME NEW i \in 1..c, NEW j \in 1..c PROVE i < j <=> <<q[i], q[j]>> \in R
  <2>1. q[i] \in T /\ q[j] \in T
    BY <1>3
  <2>2. i < j \/ i = j \/ j < i
    BY <1>1
  <2>3. i < j => <<q[i], q[j]>> \in R
    BY <1>3
  <2>4. i = j => <<q[i], q[j]>> \notin R
    BY <2>1 DEF StrictOrder
  <2>5. j < i => <<q[i], q[j]>> \notin R
    BY <2>1, <1>3 DEF StrictOrder
  <2>6. ~(i < j /\ i = j) /\ ~(i < j /\ j < i)
    BY <1>1
  <2> QED
    BY <2>2, <2>3, <2>4, <2>5, <2>6
<1>5. \A i, j \in 1..c : i # j => q[i] # q[j]
  <2> SUFFICES ASSUME NEW i \in 1..c, NEW j \in 1..c, i # j PROVE q[i] # q[j]
    OBVIOUS
  <2>1. i < j \/ j < i
    BY <1>1
  <2>2. q[i] \in T /\ <<q[i], q[i]>> \notin R
    BY <1>3 DEF StrictOrder
  <2>3. <<q[i], q[j]>> \in R \/ <<q[j], q[i]>> \in R
    BY <2>1, <1>3
  <2> QED
    BY <2>2, <2>3
<1>6. \A x \in T : \E i \in 1..c : q[i] = x
  <2>1. q \in Injection(1..c, T)
    BY <1>3, <1>5 DEF Injection, IsInjective
  <2>2. IsFiniteSet(1..c) /\ Cardinality(1..c) = c
    BY <1>1, FS_Interval
  <2>3. q \in Surjection(1..c, T)
    BY <2>1, <2>2, FS_Injection DEF c
  <2> QED
    BY <2>3 DEF Surjection
<1> DEFINE x == q[k]
           B == {m \in T : <<m, x>> \in R}
           f == [i \in 1..(k - 1) |-> q[i]]
<1>7. k \in 1..c /\ \A i \in 1..(k - 1) : i \in 1..c /\ i < k
  BY <1>1 DEF c
<1>8. f \in Bijection(1..(k - 1), B)
  <2>1. \A i \in 1..(k - 1) : f[i] = q[i] /\ f[i] \in B
    BY <1>3, <1>4, <1>7
  <2>2. f \in [1..(k - 1) -> B]
    <3> HIDE DEF B
    <3> QED
      BY <2>1
  <2>3. \A i, j \in 1..(k - 1) : f[i] = f[j] => i = j
    BY <2>1, <1>5, <1>7
  <2>4. ASSUME NEW m \in B PROVE \E i \in 1..(k - 1) : f[i] = m
    <3>1. PICK i \in 1..c : q[i] = m
      BY <1>6
    <3>2. i < k
      BY <3>1, <1>4, <1>7
    <3>3. i \in 1..(k - 1)
      BY <3>2, <1>1, <1>7
    <3> QED
      BY <3>1, <3>3, <2>1
  <2> HIDE DEF f, B
  <2> QED
    BY <2>2, <2>3, <2>4 DEF Bijection, Injection, Surjection, IsInjective
<1>9. IsFiniteSet(1..(k - 1)) /\ Cardinality(1..(k - 1)) = k - 1
  BY <1>7, FS_Interval
<1>10. Cardinality(B) = k - 1
  <2> HIDE DEF B, f
  <2>1. ExistsBijection(1..(k - 1), B)
    BY <1>8 DEF ExistsBijection
  <2> QED
    BY <2>1, <1>9, FS_Bijection
<1>11. x \in T
  BY <1>3, <1>7
<1> QED
  BY <1>10, <1>11

(***************************************************************************)
(* Lists joined one after the other (FlattenSeq): what the recursion       *)
(* computes, for lists of any length.                                      *)
(***************************************************************************)
\* g is the recursion of FlattenSeq.
Joins(g, ss) ==
  g = [i \in 1..Len(ss) |-> IF i = 1 THEN ss[i] ELSE g[i - 1] \o ss[i]]

\* There is such a function.
LEMMA JoinsExists ==
  ASSUME NEW S, NEW ss \in Seq(Seq(S))
  PROVE  \E g : Joins(g, ss)
<1> DEFINE n == Len(ss)
           Good(g, m) == \A i \in 1..m : g[i] = IF i = 1 THEN ss[i] ELSE g[i - 1] \o ss[i]
           T == {m \in Nat : \E g : DOMAIN g = 1..m /\ Good(g, m)}
<1>1. n \in Nat
  BY LenProperties
<1>2. 0 \in T
  <2>1. DOMAIN [i \in 1..0 |-> 0] = 1..0 /\ Good([i \in 1..0 |-> 0], 0)
    OBVIOUS
  <2> QED
    BY <2>1
<1>3. ASSUME NEW m \in Nat, m \in T PROVE m + 1 \in T
  <2>1. PICK g : DOMAIN g = 1..m /\ Good(g, m)
    BY <1>3
  <2> DEFINE new == IF m + 1 = 1 THEN ss[m + 1] ELSE g[m] \o ss[m + 1]
             h == [i \in 1..(m + 1) |-> IF i = m + 1 THEN new ELSE g[i]]
  <2>2. DOMAIN h = 1..(m + 1)
    OBVIOUS
  <2>3. h[m + 1] = new /\ \A i \in 1..m : h[i] = g[i]
    <3>1. m + 1 \in 1..(m + 1) /\ \A i \in 1..m : i \in 1..(m + 1) /\ i # m + 1
      OBVIOUS
    <3> HIDE DEF new
    <3> QED
      BY <3>1
  <2> HIDE DEF h
  <2>4. Good(h, m + 1)
    <3> SUFFICES ASSUME NEW i \in 1..(m + 1)
                 PROVE  h[i] = IF i = 1 THEN ss[i] ELSE h[i - 1] \o ss[i]
      OBVIOUS
    <3>1. CASE i = m + 1
      <4>1. m # 0 => m \in 1..m /\ i - 1 = m
        BY <3>1
      <4> QED
        BY <2>3, <3>1, <4>1
    <3>2. CASE i # m + 1
      <4>1. i \in 1..m /\ (i # 1 => i - 1 \in 1..m)
        BY <3>2
      <4> QED
        BY <2>1, <2>3, <4>1
    <3> QED
      BY <3>1, <3>2
  <2>5. m + 1 \in Nat
    OBVIOUS
  <2> HIDE DEF Good
  <2> QED
    BY <2>2, <2>4, <2>5, Zenon
<1> HIDE DEF T
<1>4. n \in T
  BY <1>1, <1>2, <1>3, NatSetInduction
<1>5. PICK g : DOMAIN g = 1..n /\ Good(g, n)
  BY <1>4 DEF T
<1> DEFINE h == [i \in 1..n |-> g[i]]
<1>6. ASSUME NEW i \in 1..n
      PROVE  h[i] = IF i = 1 THEN ss[i] ELSE h[i - 1] \o ss[i]
  <2>1. h[i] = g[i] /\ (i # 1 => h[i - 1] = g[i - 1])
    BY <1>1
  <2> HIDE DEF h
  <2>2. g[i] = IF i = 1 THEN ss[i] ELSE g[i - 1] \o ss[i]
    BY <1>5
  <2> QED
    BY <2>1, <2>2
<1>7. h = [i \in 1..n |-> h[i]]
  OBVIOUS
<1> HIDE DEF h
<1>8. h = [i \in 1..n |-> IF i = 1 THEN ss[i] ELSE h[i - 1] \o ss[i]]
  BY <1>6, <1>7
<1> QED
  BY <1>8 DEF Joins

\* Two lists of lists agree on the first n.
SameTo(ss, tt, n) == n <= Len(ss) /\ n <= Len(tt) /\ \A i \in 1..n : ss[i] = tt[i]

\* Up to i, what is joined is a list of the elements so far.
LEMMA JoinsElements ==
  ASSUME NEW S, NEW ss \in Seq(Seq(S)), NEW g, Joins(g, ss)
  PROVE  \A i \in 1..Len(ss) :
           /\ g[i] \in Seq(S)
           /\ \A k \in 1..i : \A j \in 1..Len(ss[k]) : \E m \in 1..Len(g[i]) : g[i][m] = ss[k][j]
           /\ (\A k \in 1..Len(ss) : Len(ss[k]) <= 1) => Len(g[i]) <= i
<1> DEFINE n == Len(ss)
           Fine(i) == /\ g[i] \in Seq(S)
                      /\ \A k \in 1..i : \A j \in 1..Len(ss[k]) :
                           \E m \in 1..Len(g[i]) : g[i][m] = ss[k][j]
                      /\ (\A k \in 1..n : Len(ss[k]) <= 1) => Len(g[i]) <= i
           T == {i \in Nat : i \in 1..n => Fine(i)}
<1>1. n \in Nat /\ \A i \in 1..n : ss[i] \in Seq(S) /\ Len(ss[i]) \in Nat
  BY LenProperties, ElementOfSeq
<1>2. \A i \in 1..n : g[i] = IF i = 1 THEN ss[i] ELSE g[i - 1] \o ss[i]
  BY DEF Joins
<1>3. 0 \in T
  OBVIOUS
<1>4. ASSUME NEW i \in Nat, i \in T PROVE i + 1 \in T
  <2> SUFFICES ASSUME i + 1 \in 1..n PROVE Fine(i + 1)
    OBVIOUS
  <2> DEFINE p == ss[i + 1]
  <2>1. p \in Seq(S) /\ Len(p) \in Nat
    BY <1>1
  <2>2. CASE i = 0
    <3>1. g[1] = ss[1] /\ 1 \in 1..n
      BY <1>2, <2>2
    <3>2. ss[1] \in Seq(S) /\ i + 1 = 1
      BY <1>1, <2>2, <3>1
    <3>3. \A k \in 1..1 : k = 1
      OBVIOUS
    <3>4. (\A k \in 1..n : Len(ss[k]) <= 1) => Len(ss[1]) <= 1
      BY <3>1
    <3> HIDE DEF n
    <3>5. \A k \in 1..1 : \A j \in 1..Len(ss[k]) : \E m \in 1..Len(g[1]) : g[1][m] = ss[k][j]
      BY <3>1, <3>3
    <3>6. Fine(1)
      BY <3>1, <3>2, <3>4, <3>5 DEF n
    <3> HIDE DEF Fine
    <3> QED
      BY <3>2, <3>6
  <2>3. CASE i # 0
    <3> DEFINE q == g[i]
               r == g[i + 1]
    <3>1. i \in 1..n /\ Fine(i) /\ r = q \o p
      <4>1. i \in 1..n /\ i + 1 # 1 /\ (i + 1) - 1 = i
        BY <1>1, <2>3
      <4> QED
        BY <1>2, <1>4, <4>1
    <3>2. q \in Seq(S) /\ Len(q) \in Nat
      BY <3>1, LenProperties
    <3>3. /\ r \in Seq(S) /\ Len(r) = Len(q) + Len(p)
          /\ \A m \in 1..Len(q) : r[m] = q[m]
          /\ \A m \in 1..Len(p) : r[Len(q) + m] = p[m]
      <4> HIDE DEF p, q, r
      <4>1. q \o p \in Seq(S) /\ Len(q \o p) = Len(q) + Len(p)
        BY <2>1, <3>2, ConcatProperties
      <4>2. \A m \in 1..Len(q) : (q \o p)[m] = q[m]
        BY <2>1, <3>2
      <4>3. \A m \in 1..Len(p) : (q \o p)[Len(q) + m] = p[m]
        BY <2>1, <3>2
      <4> QED
        BY <3>1, <4>1, <4>2, <4>3 DEF q
    <3>4. ASSUME NEW k \in 1..(i + 1), NEW j \in 1..Len(ss[k])
          PROVE  \E m \in 1..Len(r) : r[m] = ss[k][j]
      <4>1. CASE k = i + 1
        <5>1. j \in 1..Len(p) /\ ss[k][j] = p[j]
          BY <4>1
        <5> HIDE DEF p, q, r
        <5>2. Len(q) + j \in 1..Len(r) /\ r[Len(q) + j] = p[j]
          BY <2>1, <3>2, <3>3, <5>1, SMTT(30)
        <5> QED
          BY <5>1, <5>2
      <4>2. CASE k # i + 1
        <5>1. k \in 1..i
          BY <4>2
        <5>2. PICK m \in 1..Len(q) : q[m] = ss[k][j]
          BY <3>1, <5>1
        <5> HIDE DEF p, q, r
        <5>3. m \in 1..Len(r) /\ r[m] = q[m]
          BY <2>1, <3>2, <3>3
        <5> QED
          BY <5>2, <5>3
      <4> QED
        BY <4>1, <4>2
    <3>5. (\A k \in 1..n : Len(ss[k]) <= 1) => Len(r) <= i + 1
      <4> HIDE DEF r, q
      <4>1. (\A k \in 1..n : Len(ss[k]) <= 1) => Len(q) <= i /\ Len(p) <= 1
        BY <3>1 DEF q
      <4> QED
        BY <2>1, <3>2, <3>3, <4>1
    <3> QED
      BY <3>3, <3>4, <3>5
  <2> QED
    BY <2>2, <2>3
<1> HIDE DEF T
<1>5. \A i \in Nat : i \in T
  BY <1>3, <1>4, NatSetInduction
<1> HIDE DEF Fine
<1>6. \A i \in 1..n : Fine(i)
  BY <1>1, <1>5 DEF T
<1> QED
  BY <1>6 DEF Fine

\* What is joined depends on the lists so far only.
LEMMA JoinsAgree ==
  ASSUME NEW S, NEW ss \in Seq(Seq(S)), NEW tt \in Seq(Seq(S)), NEW n \in Nat, SameTo(ss, tt, n),
         NEW g, Joins(g, ss), NEW h, Joins(h, tt)
  PROVE  \A i \in 1..n : g[i] = h[i]
<1> DEFINE T == {i \in Nat : i \in 1..n => g[i] = h[i]}
<1>1. Len(ss) \in Nat /\ Len(tt) \in Nat /\ n <= Len(ss) /\ n <= Len(tt) /\ \A i \in 1..n : ss[i] = tt[i]
  BY LenProperties DEF SameTo
<1>2. \A i \in 1..n : /\ g[i] = IF i = 1 THEN ss[i] ELSE g[i - 1] \o ss[i]
                      /\ h[i] = IF i = 1 THEN tt[i] ELSE h[i - 1] \o tt[i]
  <2>1. \A i \in 1..n : i \in 1..Len(ss) /\ i \in 1..Len(tt)
    BY <1>1
  <2> QED
    BY <2>1 DEF Joins
<1>3. 0 \in T
  OBVIOUS
<1>4. ASSUME NEW i \in Nat, i \in T PROVE i + 1 \in T
  <2> SUFFICES ASSUME i + 1 \in 1..n PROVE g[i + 1] = h[i + 1]
    OBVIOUS
  <2>1. ss[i + 1] = tt[i + 1]
    BY <1>1
  <2>2. CASE i = 0
    BY <1>2, <2>1, <2>2
  <2>3. CASE i # 0
    <3>1. i \in 1..n /\ i + 1 # 1 /\ (i + 1) - 1 = i
      BY <2>3
    <3>2. g[i] = h[i]
      BY <1>4, <3>1
    <3> QED
      BY <1>2, <2>1, <3>1, <3>2
  <2> QED
    BY <2>2, <2>3
<1> HIDE DEF T
<1>5. \A i \in Nat : i \in T
  BY <1>3, <1>4, NatSetInduction
<1> QED
  BY <1>5 DEF T

\* FlattenSeq is the last step of the recursion.
LEMMA FlattenIs ==
  ASSUME NEW S, NEW ss \in Seq(Seq(S))
  PROVE  \E g : Joins(g, ss) /\ FlattenSeq(ss) = IF Len(ss) = 0 THEN ss ELSE g[Len(ss)]
<1> DEFINE g == CHOOSE h : Joins(h, ss)
<1>1. Joins(g, ss)
  BY JoinsExists, Zenon
<1>2. FlattenSeq(ss) = IF Len(ss) = 0 THEN ss ELSE g[Len(ss)]
  BY Zenon DEF FlattenSeq, Joins
<1> HIDE DEF g
<1> QED
  BY <1>1, <1>2

\* The elements of the lists, joined.
LEMMA FlattenElements ==
  ASSUME NEW S, NEW ss \in Seq(Seq(S))
  PROVE  /\ FlattenSeq(ss) \in Seq(S)
         /\ \A k \in 1..Len(ss) : \A j \in 1..Len(ss[k]) :
              \E m \in 1..Len(FlattenSeq(ss)) : FlattenSeq(ss)[m] = ss[k][j]
         /\ (\A k \in 1..Len(ss) : Len(ss[k]) <= 1) => Len(FlattenSeq(ss)) <= Len(ss)
<1>1. PICK g : Joins(g, ss) /\ FlattenSeq(ss) = IF Len(ss) = 0 THEN ss ELSE g[Len(ss)]
  BY FlattenIs
<1>2. Len(ss) \in Nat
  BY LenProperties
<1>3. CASE Len(ss) = 0
  <2>1. ss = << >>
    BY <1>3, EmptySeq
  <2>2. FlattenSeq(ss) = << >>
    BY <1>1, <1>3, <2>1
  <2>3. << >> \in Seq(S) /\ Len(FlattenSeq(ss)) = 0
    BY <2>2
  <2> QED
    BY <1>3, <2>2, <2>3
<1>4. CASE Len(ss) # 0
  <2>1. Len(ss) \in 1..Len(ss) /\ FlattenSeq(ss) = g[Len(ss)]
    BY <1>1, <1>2, <1>4
  <2> QED
    BY <1>1, <2>1, JoinsElements
<1> QED
  BY <1>3, <1>4

\* One more list is joined at the end.
LEMMA FlattenAppend ==
  ASSUME NEW S, NEW ss \in Seq(Seq(S)), NEW s \in Seq(S)
  PROVE  FlattenSeq(Append(ss, s)) = FlattenSeq(ss) \o s
<1> DEFINE tt == Append(ss, s)
           n == Len(ss)
<1>1. tt \in Seq(Seq(S)) /\ n \in Nat /\ Len(tt) = n + 1 /\ tt[n + 1] = s /\ \A i \in 1..n : tt[i] = ss[i]
  BY LenProperties, AppendProperties
<1> HIDE DEF tt
<1>2. PICK g : Joins(g, ss) /\ FlattenSeq(ss) = IF n = 0 THEN ss ELSE g[n]
  BY FlattenIs
<1>3. PICK h : Joins(h, tt) /\ FlattenSeq(tt) = IF Len(tt) = 0 THEN tt ELSE h[Len(tt)]
  BY <1>1, FlattenIs
<1>4. FlattenSeq(tt) = h[n + 1]
  BY <1>1, <1>3
<1>5. h[n + 1] = IF n + 1 = 1 THEN tt[n + 1] ELSE h[(n + 1) - 1] \o tt[n + 1]
  <2>1. n + 1 \in 1..Len(tt)
    BY <1>1
  <2> QED
    BY <1>3, <2>1 DEF Joins
<1>6. CASE n = 0
  <2>1. FlattenSeq(ss) = << >>
    BY <1>2, <1>6, EmptySeq
  <2>2. h[n + 1] = s
    BY <1>1, <1>5, <1>6
  <2> QED
    BY <1>4, <2>1, <2>2 DEF tt
<1>7. CASE n # 0
  <2>1. SameTo(ss, tt, n)
    <3>1. n <= Len(ss) /\ n <= Len(tt) /\ \A i \in 1..n : ss[i] = tt[i]
      <4> HIDE DEF n
      <4>1. \A i \in 1..n : ss[i] = tt[i]
        BY <1>1
      <4>2. n = Len(ss)
        BY DEF n
      <4> QED
        BY <1>1, <4>1, <4>2
    <3> QED
      BY <3>1 DEF SameTo
  <2>2. n \in 1..n
    BY <1>1, <1>7
  <2>3. g[n] = h[n]
    BY <1>1, <1>2, <1>3, <2>1, <2>2, JoinsAgree
  <2>4. h[n + 1] = h[n] \o s
    BY <1>1, <1>5, <1>7
  <2> QED
    BY <1>2, <1>4, <1>7, <2>3, <2>4 DEF tt
<1> QED
  BY <1>6, <1>7

\* Nothing joined is nothing.
LEMMA FlattenEmpty == FlattenSeq(<< >>) = << >>
BY DEF FlattenSeq

(***************************************************************************)
(* What the operators on sequences give.                                   *)
(***************************************************************************)

\* The empty sequence, a sequence of one element, Append and concatenation.
LEMMA Typing ==
  ASSUME NEW S
  PROVE  /\ << >> \in Seq(S) /\ Len(<< >>) = 0
         /\ \A e \in S : <<e>> \in Seq(S) /\ Len(<<e>>) = 1
         /\ \A s \in Seq(S) : Len(s) \in Nat
         /\ \A s \in Seq(S), e \in S : Append(s, e) \in Seq(S) /\ Len(Append(s, e)) = Len(s) + 1
         /\ \A s \in Seq(S), t \in Seq(S) : s \o t \in Seq(S) /\ Len(s \o t) = Len(s) + Len(t)
         /\ \A s \in Seq(S) : s # << >> => /\ Head(s) \in S /\ Tail(s) \in Seq(S)
                                          /\ Len(Tail(s)) = Len(s) - 1
<1>1. << >> \in Seq(S) /\ Len(<< >>) = 0
  BY EmptySeq
<1>2. ASSUME NEW s \in Seq(S) PROVE Len(s) \in Nat
  BY LenProperties
<1>3. ASSUME NEW s \in Seq(S), NEW e \in S
      PROVE  Append(s, e) \in Seq(S) /\ Len(Append(s, e)) = Len(s) + 1
  BY AppendProperties, Zenon
<1>4. ASSUME NEW e \in S PROVE <<e>> \in Seq(S) /\ Len(<<e>>) = 1
  <2>1. <<e>> = Append(<< >>, e)
    OBVIOUS
  <2>2. Append(<< >>, e) \in Seq(S) /\ Len(Append(<< >>, e)) = Len(<< >>) + 1
    BY <1>1, <1>3, Zenon
  <2> QED
    BY <1>1, <2>1, <2>2
<1>5. ASSUME NEW s \in Seq(S), NEW t \in Seq(S)
      PROVE  s \o t \in Seq(S) /\ Len(s \o t) = Len(s) + Len(t)
  BY ConcatProperties, Zenon
<1>6. ASSUME NEW s \in Seq(S), s # << >>
      PROVE  Head(s) \in S /\ Tail(s) \in Seq(S) /\ Len(Tail(s)) = Len(s) - 1
  BY <1>6, HeadTailProperties, Zenon
<1> QED
  BY <1>1, <1>2, <1>3, <1>4, <1>5, <1>6, Zenon

\* Two sequences in a row, short ones at that.
LEMMA Concat ==
  ASSUME NEW S, NEW s \in Seq(S), NEW t \in Seq(S)
  PROVE  /\ s \o t \in Seq(S) /\ Len(s \o t) = Len(s) + Len(t)
         /\ \A a \in Nat, b \in Nat : Len(s) <= a /\ Len(t) <= b => Len(s \o t) <= a + b
<1>1. Len(s) \in Nat /\ Len(t) \in Nat
  BY LenProperties
<1>2. s \o t \in Seq(S) /\ Len(s \o t) = Len(s) + Len(t)
  BY ConcatProperties, Zenon
<1> QED
  BY <1>1, <1>2

\* A function on 1..n is a sequence of length n.
LEMMA ListIsSeq ==
  ASSUME NEW S, NEW n \in Nat, NEW q \in [1..n -> S]
  PROVE  q \in Seq(S) /\ Len(q) = n
<1>1. q \in Seq(S)
  OBVIOUS
<1> QED
  BY <1>1, LenProperties

(***************************************************************************)
(* The elements of a sequence that are in a set.                           *)
(***************************************************************************)
Piece(e, T) == IF e \in T THEN <<e>> ELSE << >>
Picked(s, T) == FlattenSeq([k \in DOMAIN s |-> Piece(s[k], T)])

\* They are picked one by one.
LEMMA PickedAppend ==
  ASSUME NEW S, NEW T, NEW s \in Seq(S), NEW e \in S
  PROVE  /\ Picked(s, T) \in Seq(S)
         /\ Picked(Append(s, e), T) = Picked(s, T) \o Piece(e, T)
         /\ e \notin T => Picked(Append(s, e), T) = Picked(s, T)
<1> DEFINE n == Len(s)
           x == Append(s, e)
           ps == [k \in DOMAIN s |-> Piece(s[k], T)]
           px == [k \in DOMAIN x |-> Piece(x[k], T)]
           pe == Piece(e, T)
<1>1. n \in Nat /\ DOMAIN s = 1..n /\ \A k \in 1..n : s[k] \in S
  BY LenProperties, ElementOfSeq
<1>2. x \in Seq(S) /\ Len(x) = n + 1 /\ (\A k \in 1..n : x[k] = s[k]) /\ x[n + 1] = e
  BY AppendProperties
<1>3. DOMAIN x = 1..(n + 1)
  <2> HIDE DEF x, n
  <2> QED
    BY <1>2, LenProperties
<1>4. \A y \in S : Piece(y, T) \in Seq(S)
  <2> SUFFICES ASSUME NEW y \in S PROVE Piece(y, T) \in Seq(S)
    OBVIOUS
  <2>1. <<y>> \in Seq(S) /\ << >> \in Seq(S)
    BY Typing, Zenon
  <2>2. Piece(y, T) = <<y>> \/ Piece(y, T) = << >>
    BY Zenon DEF Piece
  <2> QED
    BY <2>1, <2>2, Zenon
<1> HIDE DEF n, x
<1>5. ps \in Seq(Seq(S)) /\ Len(ps) = n
  <2>1. ps \in [1..n -> Seq(S)]
    BY <1>1, <1>4
  <2> HIDE DEF ps
  <2> QED
    BY <1>1, <2>1, ListIsSeq
<1>6. px \in Seq(Seq(S)) /\ Len(px) = n + 1
  <2>1. \A k \in 1..(n + 1) : x[k] \in S
    BY <1>2, <1>3, ElementOfSeq
  <2>2. px \in [1..(n + 1) -> Seq(S)] /\ n + 1 \in Nat
    BY <1>1, <1>3, <1>4, <2>1
  <2> HIDE DEF px
  <2> QED
    BY <2>2, ListIsSeq
<1>7. /\ \A k \in 1..n : px[k] = ps[k]
      /\ px[n + 1] = pe
  <2>1. \A k \in 1..n : k \in 1..(n + 1)
    BY <1>1
  <2>2. n + 1 \in 1..(n + 1)
    BY <1>1
  <2> QED
    BY <1>1, <1>2, <1>3, <2>1, <2>2
<1>8. pe \in Seq(S)
  BY <1>4
<1> HIDE DEF ps, px, pe
<1>9. px = Append(ps, pe)
  <2> DEFINE a == Append(ps, pe)
  <2>1. a \in Seq(Seq(S)) /\ Len(a) = n + 1 /\ (\A k \in 1..n : a[k] = ps[k]) /\ a[n + 1] = pe
    BY <1>5, <1>8, AppendProperties
  <2> HIDE DEF a
  <2>2. \A k \in 1..(n + 1) : k \in 1..n \/ k = n + 1
    BY <1>1
  <2>3. \A k \in 1..Len(px) : px[k] = a[k]
    BY <1>6, <1>7, <2>1, <2>2
  <2>4. px = a
    BY <1>6, <2>1, <2>3, SeqEqual
  <2> QED
    BY <2>4 DEF a
<1>10. FlattenSeq(px) = FlattenSeq(ps) \o pe /\ FlattenSeq(ps) \in Seq(S)
  BY <1>5, <1>8, <1>9, FlattenAppend, FlattenElements
<1>11. FlattenSeq(ps) = Picked(s, T) /\ FlattenSeq(px) = Picked(x, T)
  BY DEF Picked, ps, px
<1>12. e \notin T => FlattenSeq(ps) \o pe = FlattenSeq(ps)
  <2> SUFFICES ASSUME e \notin T PROVE FlattenSeq(ps) \o pe = FlattenSeq(ps)
    OBVIOUS
  <2>1. pe = << >>
    BY DEF pe, Piece
  <2> QED
    BY <1>10, <2>1, ConcatEmptySeq
<1> QED
  BY <1>10, <1>11, <1>12 DEF x, pe

\* Nothing is picked from nothing.
LEMMA PickedEmpty == ASSUME NEW T PROVE Picked(<< >>, T) = << >>
<1>1. [k \in DOMAIN << >> |-> Piece(<< >>[k], T)] = << >>
  OBVIOUS
<1> QED
  BY <1>1, FlattenEmpty DEF Picked

\* The places after the first n that hold an element of T.
Marked(s, T, n) == {k \in 1..Len(s) : k > n /\ s[k] \in T}

\* What is added to the end adds to them.
LEMMA MarkedFacts ==
  ASSUME NEW S, NEW T, NEW s \in Seq(S), NEW n \in Nat
  PROVE  /\ IsFiniteSet(Marked(s, T, n)) /\ Cardinality(Marked(s, T, n)) \in Nat
         /\ \A x \in Seq(S) :
              /\ Cardinality(Marked(s \o x, T, n)) <= Cardinality(Marked(s, T, n)) + Len(x)
              /\ (\A k \in 1..Len(x) : x[k] \notin T) => Marked(s \o x, T, n) = Marked(s, T, n)
<1> DEFINE M == Marked(s, T, n)
           l == Len(s)
<1>1. l \in Nat
  BY LenProperties
<1>2. IsFiniteSet(M) /\ Cardinality(M) \in Nat
  <2>1. M \subseteq 1..l
    BY DEF Marked
  <2>2. IsFiniteSet(1..l)
    BY <1>1, FS_Interval
  <2> HIDE DEF M
  <2> QED
    BY <2>1, <2>2, FS_Subset, FS_CardinalityType
<1>3. ASSUME NEW x \in Seq(S)
      PROVE  /\ Cardinality(Marked(s \o x, T, n)) <= Cardinality(M) + Len(x)
             /\ (\A k \in 1..Len(x) : x[k] \notin T) => Marked(s \o x, T, n) = M
  <2> DEFINE u == s \o x
             m == Len(x)
             E == (l + 1)..(l + m)
             MU == Marked(u, T, n)
  <2>1. m \in Nat /\ Len(u) = l + m
    BY LenProperties, ConcatProperties
  <2>2. \A i \in 1..(l + m) : u[i] = IF i <= l THEN s[i] ELSE x[i - l]
    BY ConcatProperties
  <2> HIDE DEF u, m, l
  <2>3. \A i \in 1..(l + m) : (i \in 1..l /\ i <= l) \/ (i \in E /\ ~(i <= l) /\ i - l \in 1..m)
    BY <1>1, <2>1
  <2>4. \A i \in 1..l : i \in 1..(l + m) /\ i <= l
    BY <1>1, <2>1
  <2>5. MU \subseteq M \cup E
    BY <2>1, <2>2, <2>3 DEF Marked, l
  <2>6. IsFiniteSet(E) /\ Cardinality(E) = m
    BY <1>1, <2>1, FS_Interval
  <2>7. Cardinality(MU) <= Cardinality(M) + m
    <3> HIDE DEF M, E, MU
    <3>1. IsFiniteSet(M \cup E) /\ Cardinality(M \cup E) = Cardinality(M) + Cardinality(E) - Cardinality(M \cap E)
      BY <1>2, <2>6, FS_Union
    <3>2. IsFiniteSet(M \cap E)
      <4>1. M \cap E \in SUBSET M
        OBVIOUS
      <4> QED
        BY <1>2, <4>1, FS_Subset
    <3>3. Cardinality(M \cap E) \in Nat
      BY <3>2, FS_CardinalityType
    <3>4. IsFiniteSet(MU) /\ Cardinality(MU) <= Cardinality(M \cup E)
      BY <2>5, <3>1, FS_Subset
    <3>5. Cardinality(MU) \in Nat
      BY <3>4, FS_CardinalityType
    <3> QED
      BY <1>2, <2>1, <2>6, <3>1, <3>3, <3>4, <3>5
  <2>8. ASSUME \A k \in 1..m : x[k] \notin T PROVE MU = M
    <3>1. \A i \in MU : i \in M
      BY <2>1, <2>2, <2>3, <2>8 DEF Marked, l
    <3>2. \A i \in M : i \in MU
      BY <2>1, <2>2, <2>4 DEF Marked, l
    <3> HIDE DEF M, MU
    <3> QED
      BY <3>1, <3>2
  <2> QED
    BY <2>7, <2>8 DEF m, u
<1> QED
  BY <1>2, <1>3

\* To skip a place takes one away if it is marked.
LEMMA MarkedSkip ==
  ASSUME NEW S, NEW T, NEW s \in Seq(S), NEW n \in Nat, n + 1 \in 1..Len(s)
  PROVE  Cardinality(Marked(s, T, n + 1)) = Cardinality(Marked(s, T, n)) - (IF s[n + 1] \in T THEN 1 ELSE 0)
<1> DEFINE M == Marked(s, T, n)
           l == Len(s)
<1>2. IsFiniteSet(M) /\ Cardinality(M) \in Nat
  BY MarkedFacts
<1>4. Cardinality(Marked(s, T, n + 1)) = Cardinality(M) - (IF s[n + 1] \in T THEN 1 ELSE 0)
  <2> DEFINE N == Marked(s, T, n + 1)
  <2>1. CASE s[n + 1] \in T
    <3>1. N = M \ {n + 1} /\ n + 1 \in M
      <4>1. \A k \in 1..l : k > n + 1 <=> k > n /\ k # n + 1
        OBVIOUS
      <4>2. n + 1 > n
        OBVIOUS
      <4> QED
        BY <2>1, <4>1, <4>2 DEF Marked
    <3> HIDE DEF M, N
    <3>2. Cardinality(M \ {n + 1}) = Cardinality(M) - 1
      BY <1>2, <3>1, FS_RemoveElement
    <3>3. Cardinality(N) = Cardinality(M) - 1
      BY <3>1, <3>2
    <3> QED
      BY <2>1, <3>3 DEF N
  <2>2. CASE s[n + 1] \notin T
    <3>1. N = M
      <4>1. \A k \in 1..l : k > n + 1 <=> k > n /\ k # n + 1
        OBVIOUS
      <4> QED
        BY <2>2, <4>1 DEF Marked
    <3> HIDE DEF M, N
    <3>2. Cardinality(N) = Cardinality(M) - 0
      BY <1>2, <3>1
    <3> QED
      BY <2>2, <3>2 DEF N
  <2> QED
    BY <2>1, <2>2
<1> QED
  BY <1>4

\* An element moves from the head of t to the end of s, and x is added.
LEMMA MoveHead ==
  ASSUME NEW S, NEW s \in Seq(S), NEW t \in Seq(S), t # << >>, NEW x \in Seq(S)
  PROVE  /\ Append(s, Head(t)) \o (Tail(t) \o x) = (s \o t) \o x
         /\ Len(s) + 1 \in 1..Len(s \o t) /\ (s \o t)[Len(s) + 1] = Head(t)
         /\ Len(Append(s, Head(t))) = Len(s) + 1
<1> DEFINE e == Head(t)
           r == Tail(t)
<1>1. e \in S /\ r \in Seq(S) /\ Len(t) \in Nat \ {0} /\ Len(s) \in Nat
  BY HeadTailProperties, LenProperties, EmptySeq
<1>2. t = <<e>> \o r
  OBVIOUS
<1>3. <<e>> \in Seq(S)
  BY <1>1
<1>4. (s \o t) \o x = s \o (t \o x)
  BY ConcatAssociative
<1>5. Len(s \o t) = Len(s) + Len(t) /\ (s \o t)[Len(s) + 1] = t[(Len(s) + 1) - Len(s)]
  <2>1. Len(s) + 1 \in 1..(Len(s) + Len(t)) /\ ~(Len(s) + 1 <= Len(s))
    BY <1>1
  <2> QED
    BY <2>1, ConcatProperties
<1>6. t[(Len(s) + 1) - Len(s)] = e
  BY <1>1
<1> HIDE DEF e, r
<1>7. Append(s, e) = s \o <<e>> /\ Len(Append(s, e)) = Len(s) + 1
  BY <1>1, AppendIsConcat, AppendProperties
<1>8. r \o x \in Seq(S)
  BY <1>1, Concat
<1>9. (s \o <<e>>) \o (r \o x) = s \o (<<e>> \o (r \o x))
  BY <1>3, <1>8, ConcatAssociative, SMTT(30)
<1>10. (<<e>> \o r) \o x = <<e>> \o (r \o x)
  BY <1>1, <1>3, ConcatAssociative
<1>11. Append(s, e) \o (r \o x) = (s \o t) \o x
  BY <1>2, <1>4, <1>7, <1>9, <1>10, Zenon
<1>12. Len(s) + 1 \in 1..Len(s \o t)
  <2> DEFINE i == Len(s)
             j == Len(t)
  <2>1. i \in Nat /\ j \in Nat \ {0} /\ Len(s \o t) = i + j
    BY <1>1, <1>5
  <2> HIDE DEF i, j
  <2>2. i + 1 \in 1..(i + j)
    BY <2>1
  <2> QED
    BY <2>1, <2>2 DEF i
<1> QED
  BY <1>5, <1>6, <1>7, <1>11, <1>12 DEF e, r

(***************************************************************************)
(* All of a sequence but its last element.                                 *)
(***************************************************************************)

\* It is one element shorter, and with that element it is the sequence.
LEMMA ButLast ==
  ASSUME NEW S, NEW s \in Seq(S), s # << >>
  PROVE  /\ SubSeq(s, 1, Len(s) - 1) \in Seq(S) /\ Len(s) \in Nat \ {0}
         /\ Len(SubSeq(s, 1, Len(s) - 1)) = Len(s) - 1
         /\ \A k \in 1..(Len(s) - 1) : SubSeq(s, 1, Len(s) - 1)[k] = s[k]
         /\ s[Len(s)] \in S /\ s = Append(SubSeq(s, 1, Len(s) - 1), s[Len(s)])
<1> DEFINE l == Len(s)
           m == l - 1
           q == SubSeq(s, 1, m)
<1>1. l \in Nat \ {0} /\ m \in Nat /\ l = m + 1
  <2>1. l \in Nat \ {0}
    BY EmptySeq
  <2> QED
    BY <2>1
<1>2. \A k \in 1..l : s[k] \in S
  BY ElementOfSeq
<1> HIDE DEF l, m
<1>3. \A k \in 1..m : s[k] \in S
  BY <1>1, <1>2
<1>4. /\ q \in Seq(S) /\ Len(q) = IF 1 <= m THEN m - 1 + 1 ELSE 0
      /\ \A k \in 1..(m - 1 + 1) : q[k] = s[1 + k - 1]
  <2>1. 1 \in Int /\ m \in Int
    BY <1>1
  <2> QED
    BY <1>3, <2>1, SubSeqProperties
<1> HIDE DEF q
<1>5. Len(q) = m /\ \A k \in 1..m : q[k] = s[k]
  BY <1>1, <1>4
<1>6. s[l] \in S
  BY <1>1, <1>2
<1> DEFINE r == Append(q, s[l])
<1>7. /\ r \in Seq(S) /\ Len(r) = m + 1 /\ r[m + 1] = s[l]
      /\ \A k \in 1..m : r[k] = q[k]
  BY <1>4, <1>5, <1>6, AppendProperties
<1> HIDE DEF r
<1>8. \A k \in 1..l : r[k] = s[k]
  <2> SUFFICES ASSUME NEW k \in 1..l PROVE r[k] = s[k]
    OBVIOUS
  <2>1. k = l \/ k \in 1..m
    BY <1>1
  <2> QED
    BY <1>1, <1>5, <1>7, <2>1
<1>9. r = s
  <2>1. Len(r) = Len(s)
    BY <1>1, <1>7 DEF l
  <2> QED
    BY <1>7, <1>8, <2>1, SeqEqual DEF l
<1> QED
  BY <1>1, <1>4, <1>5, <1>6, <1>9 DEF l, m, q, r

\* Two and three sequences after another one.
LEMMA ConcatTypes ==
  ASSUME NEW S, NEW s \in Seq(S), NEW a \in Seq(S), NEW b \in Seq(S)
  PROVE  /\ (s \o a) \o b \in Seq(S)
         /\ \A c \in Seq(S) : ((s \o a) \o b) \o c \in Seq(S)
<1>1. s \o a \in Seq(S)
  BY ConcatProperties
<1>2. (s \o a) \o b \in Seq(S)
  BY <1>1, ConcatProperties
<1> QED
  BY <1>2, ConcatProperties

\* The elements of a sequence.
LEMMA ToSetFacts ==
  ASSUME NEW S
  PROVE  /\ ToSet(<< >>) = {}
         /\ \A e \in S : ToSet(<<e>>) = {e}
         /\ \A s \in Seq(S) : ToSet(s) \subseteq S
         /\ \A s \in Seq(S), e \in S : ToSet(Append(s, e)) = ToSet(s) \cup {e}
         /\ \A s \in Seq(S), t \in Seq(S) : ToSet(s \o t) = ToSet(s) \cup ToSet(t)
         /\ \A s \in Seq(S) : s # << >> => ToSet(s) = {Head(s)} \cup ToSet(Tail(s))
<1>1. ASSUME NEW s \in Seq(S) PROVE Len(s) \in Nat /\ DOMAIN s = 1..Len(s) /\ ToSet(s) = {s[k] : k \in 1..Len(s)}
  BY <1>1, LenProperties DEF ToSet
<1>2. ToSet(<< >>) = {}
  BY DEF ToSet
<1>3. ASSUME NEW e \in S PROVE ToSet(<<e>>) = {e}
  BY DEF ToSet
<1>4. ASSUME NEW s \in Seq(S) PROVE ToSet(s) \subseteq S
  BY <1>1, ElementOfSeq
<1>5. ASSUME NEW s \in Seq(S), NEW t \in Seq(S) PROVE ToSet(s \o t) = ToSet(s) \cup ToSet(t)
  <2> DEFINE x == s \o t
             a == Len(s)
             b == Len(t)
  <2>1. /\ x \in Seq(S) /\ Len(x) = a + b
        /\ \A i \in 1..(a + b) : x[i] = IF i <= a THEN s[i] ELSE t[i - a]
    BY ConcatProperties
  <2>2. a \in Nat /\ b \in Nat /\ ToSet(s) = {s[k] : k \in 1..a} /\ ToSet(t) = {t[k] : k \in 1..b}
    BY <1>1
  <2>3. ToSet(x) = {x[k] : k \in 1..(a + b)}
    BY <1>1, <2>1
  <2> HIDE DEF x, a, b
  <2>4. ASSUME NEW k \in 1..(a + b) PROVE x[k] \in ToSet(s) \cup ToSet(t)
    <3>1. CASE k <= a
      BY <2>1, <2>2, <3>1
    <3>2. CASE ~(k <= a)
      <4>1. k - a \in 1..b /\ x[k] = t[k - a]
        BY <2>1, <2>2, <3>2
      <4> QED
        BY <4>1, <2>2
    <3> QED
      BY <3>1, <3>2
  <2>5. ASSUME NEW k \in 1..a PROVE s[k] \in ToSet(x)
    <3>1. k \in 1..(a + b) /\ x[k] = s[k]
      BY <2>1, <2>2
    <3> QED
      BY <2>3, <3>1
  <2>6. ASSUME NEW k \in 1..b PROVE t[k] \in ToSet(x)
    <3>1. a + k \in 1..(a + b) /\ ~(a + k <= a) /\ (a + k) - a = k
      BY <2>2
    <3>2. x[a + k] = t[k]
      BY <2>1, <3>1
    <3> QED
      BY <2>3, <3>1, <3>2
  <2>7. ToSet(x) \subseteq ToSet(s) \cup ToSet(t)
    BY <2>3, <2>4
  <2>8. ToSet(s) \subseteq ToSet(x) /\ ToSet(t) \subseteq ToSet(x)
    BY <2>2, <2>5, <2>6
  <2> QED
    BY <2>7, <2>8 DEF x
<1>6. ASSUME NEW s \in Seq(S), NEW e \in S PROVE ToSet(Append(s, e)) = ToSet(s) \cup {e}
  <2>1. Append(s, e) = s \o <<e>> /\ <<e>> \in Seq(S)
    BY AppendIsConcat
  <2> QED
    BY <1>3, <1>5, <2>1, ZenonT(30)
<1>7. ASSUME NEW s \in Seq(S), s # << >> PROVE ToSet(s) = {Head(s)} \cup ToSet(Tail(s))
  <2>1. /\ Tail(s) \in Seq(S) /\ Head(s) \in S /\ s = <<Head(s)>> \o Tail(s) /\ <<Head(s)>> \in Seq(S)
    <3>1. Tail(s) \in Seq(S) /\ Head(s) \in S
      BY <1>7, HeadTailProperties
    <3>2. s = <<Head(s)>> \o Tail(s)
      BY <1>7
    <3> QED
      BY <3>1, <3>2
  <2>2. ToSet(<<Head(s)>> \o Tail(s)) = ToSet(<<Head(s)>>) \cup ToSet(Tail(s))
    BY <2>1, <1>5
  <2>3. ToSet(<<Head(s)>>) = {Head(s)}
    BY <2>1, <1>3
  <2> QED
    BY <2>1, <2>2, <2>3, Zenon
<1> QED
  BY <1>2, <1>3, <1>4, <1>5, <1>6, <1>7

\* Two lists of one element.
LEMMA OneAndOne ==
  ASSUME NEW S, NEW a \in S, NEW c \in S
  PROVE  <<a>> \o <<c>> = <<a, c>>
<1> DEFINE t == <<a, c>>
<1>1. PICK s \in Seq(S) : s = <<a>>
  <2>1. <<a>> \in Seq(S)
    OBVIOUS
  <2> QED
    BY <2>1, Zenon
<1> DEFINE u == Append(s, c)
           l == Len(s)
<1>2. l = 1 /\ s[1] = a
  BY <1>1
<1>3. t \in Seq(S) /\ Len(t) = 2 /\ t[1] = a /\ t[2] = c
  OBVIOUS
<1>4. /\ u \in Seq(S) /\ Len(u) = l + 1 /\ u[l + 1] = c
      /\ \A k \in 1..l : u[k] = s[k]
  BY AppendProperties
<1>5. s \o <<c>> = u
  BY AppendIsConcat
<1> HIDE DEF u, t, l
<1>6. Len(u) = 2 /\ u[1] = a /\ u[2] = c
  <2>1. 1 \in 1..l /\ l + 1 = 2
    BY <1>2
  <2> QED
    BY <1>2, <1>4, <2>1
<1>7. \A i \in 1..2 : u[i] = t[i]
  <2>1. \A i \in 1..2 : i = 1 \/ i = 2
    OBVIOUS
  <2> QED
    BY <1>3, <1>6, <2>1
<1>8. u = t
  BY <1>3, <1>4, <1>6, <1>7, SeqEqual
<1> QED
  BY <1>1, <1>5, <1>8 DEF t
=============================================================================
