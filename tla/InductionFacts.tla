--------------------------- MODULE InductionFacts ---------------------------
(***************************************************************************)
(* Induction over the natural numbers, stated for sets: the library's      *)
(* induction theorems take an operator for the property, the provers       *)
(* cannot instantiate it, and a set {n \in Nat : P(n)} serves as well.     *)
(* From it, the facts on recursive sums and on increasing positions that   *)
(* the proofs about sequences of events need.                              *)
(***************************************************************************)
EXTENDS Integers, WellFoundedInduction, TLAPS

\* A set of numbers that is not empty has a least element.
LEMMA NatMin ==
  ASSUME NEW T \in SUBSET Nat, T # {}
  PROVE  \E x \in T : \A y \in T : x <= y
<1>1. PICK x \in T : \A y \in T : ~(<<y, x>> \in OpToRel(<, Nat))
  BY NatLessThanWellFounded, WFMin
<1>2. \A y \in T : ~(y < x)
  BY <1>1 DEF OpToRel
<1> QED
  BY <1>2

\* Induction: a set that has 0 and with every n also n + 1 has every number.
LEMMA NatSetInduction ==
  ASSUME NEW S, 0 \in S, \A n \in Nat : n \in S => n + 1 \in S
  PROVE  Nat \subseteq S
<1> SUFFICES ASSUME Nat \ S # {} PROVE FALSE
  OBVIOUS
<1>1. PICK x \in Nat \ S : \A y \in Nat \ S : x <= y
  BY NatMin
<1>2. x # 0 /\ x - 1 \in Nat /\ x - 1 \in S
  BY <1>1
<1> QED
  BY <1>1, <1>2

\* Positions each of which is before the next one are increasing.
LEMMA StrictlyIncreasing ==
  ASSUME NEW n \in Nat, NEW P \in [1..n -> Nat],
         \A k \in 1..(n - 1) : P[k] < P[k + 1]
  PROVE  \A i, j \in 1..n : i < j => P[i] < P[j]
<1> DEFINE S == {d \in Nat : \A i, j \in 1..n : j = i + d + 1 => P[i] < P[j]}
<1>1. 0 \in S
  OBVIOUS
<1>2. ASSUME NEW d \in Nat, d \in S
      PROVE  d + 1 \in S
  <2> SUFFICES ASSUME NEW i \in 1..n, NEW j \in 1..n, j = i + (d + 1) + 1
               PROVE  P[i] < P[j]
    OBVIOUS
  <2>1. j - 1 \in 1..(n - 1) /\ j - 1 = i + d + 1 /\ (j - 1) + 1 = j
    OBVIOUS
  <2>2. P[i] < P[j - 1] /\ P[j - 1] < P[j]
    BY <2>1, <1>2
  <2> QED
    BY <2>2
<1> HIDE DEF S
<1>3. Nat \subseteq S
  BY <1>1, <1>2, NatSetInduction
<1> SUFFICES ASSUME NEW i \in 1..n, NEW j \in 1..n, i < j
             PROVE  P[i] < P[j]
  OBVIOUS
<1>4. j - i - 1 \in Nat /\ j = i + (j - i - 1) + 1
  OBVIOUS
<1> QED
  BY <1>3, <1>4 DEF S

\* f starts with b and goes on in V, step by step as h says.
Iterates(f, n, V, b, h) ==
  /\ f \in [0..n -> V] /\ f[0] = b
  /\ \A k \in 1..n : f[k] = h[k][f[k - 1]]

\* A recursive definition whose steps are functions on a set has a solution.
LEMMA RecursionExists ==
  ASSUME NEW n \in Nat, NEW V, NEW b \in V, NEW h \in [1..n -> [V -> V]]
  PROVE  \E f : Iterates(f, n, V, b, h)
<1> DEFINE Good(f, m) == f[0] = b /\ \A k \in 1..m : f[k] = h[k][f[k - 1]]
           S == {m \in Nat : m <= n => \E f \in [0..m -> V] : Good(f, m)}
<1>1. 0 \in S
  <2>1. Good([k \in 0..0 |-> b], 0) /\ [k \in 0..0 |-> b] \in [0..0 -> V]
    OBVIOUS
  <2> QED
    BY <2>1
<1>2. ASSUME NEW m \in Nat, m \in S
      PROVE  m + 1 \in S
  <2>0. m + 1 \in Nat /\ (m + 1 <= n => m <= n)
    OBVIOUS
  <2> SUFFICES ASSUME m + 1 <= n
               PROVE  \E f \in [0..(m + 1) -> V] : Good(f, m + 1)
    BY <2>0, Zenon
  <2>1. PICK g \in [0..m -> V] : Good(g, m)
    BY <1>2, <2>0, Zenon
  <2> DEFINE f == [k \in 0..(m + 1) |-> IF k = m + 1 THEN h[m + 1][g[m]] ELSE g[k]]
  <2>a. m + 1 \in 1..n /\ m \in 0..m /\ h[m + 1][g[m]] \in V
    <3>1. m + 1 \in 1..n /\ m \in 0..m
      OBVIOUS
    <3>2. h[m + 1] \in [V -> V] /\ g[m] \in V
      BY <3>1
    <3> QED
      BY <3>1, <3>2
  <2>2. f \in [0..(m + 1) -> V]
    BY <2>a
  <2>b. f[0] = b
    BY <2>1
  <2>c. ASSUME NEW k \in 1..(m + 1) PROVE f[k] = h[k][f[k - 1]]
    <3>1. CASE k = m + 1
      <4>1. f[k] = h[m + 1][g[m]] /\ f[k - 1] = g[m]
        BY <3>1
      <4> QED
        BY <4>1, <3>1
    <3>2. CASE k # m + 1
      <4>1. k \in 1..m /\ k - 1 \in 0..m
        BY <3>2
      <4>2. f[k] = g[k] /\ f[k - 1] = g[k - 1]
        BY <3>2, <4>1
      <4> QED
        BY <4>1, <4>2, <2>1
    <3> QED
      BY <3>1, <3>2
  <2>3. Good(f, m + 1)
    BY <2>b, <2>c
  <2> QED
    BY <2>2, <2>3
<1> HIDE DEF S
<1>3. n \in S
  BY <1>1, <1>2, NatSetInduction
<1>4. n <= n
  OBVIOUS
<1>5. PICK f \in [0..n -> V] : Good(f, n)
  BY <1>3, <1>4, Zenon DEF S
<1> QED
  BY <1>5 DEF Iterates

\* The recursive definition of the sums of an initial part of w has a
\* solution ...
LEMMA SumExists ==
  ASSUME NEW n \in Nat, NEW w \in [1..n -> Nat]
  PROVE  \E f : f = [k \in 0..n |-> IF k = 0 THEN 0 ELSE f[k - 1] + w[k]]
<1> DEFINE Good(f, m) == f[0] = 0 /\ \A k \in 1..m : f[k] = f[k - 1] + w[k]
           S == {m \in Nat : m <= n => \E f \in [0..m -> Nat] : Good(f, m)}
<1>1. 0 \in S
  <2>1. Good([k \in 0..0 |-> 0], 0) /\ [k \in 0..0 |-> 0] \in [0..0 -> Nat]
    OBVIOUS
  <2> QED
    BY <2>1
<1>2. ASSUME NEW m \in Nat, m \in S
      PROVE  m + 1 \in S
  <2>0. m + 1 \in Nat /\ (m + 1 <= n => m <= n)
    OBVIOUS
  <2> SUFFICES ASSUME m + 1 <= n
               PROVE  \E f \in [0..(m + 1) -> Nat] : Good(f, m + 1)
    BY <2>0, Zenon
  <2>1. PICK g \in [0..m -> Nat] : Good(g, m)
    BY <1>2, <2>0, Zenon
  <2> DEFINE f == [k \in 0..(m + 1) |-> IF k = m + 1 THEN g[m] + w[m + 1] ELSE g[k]]
  <2>a. m + 1 \in 1..n /\ m \in 0..m /\ g[m] + w[m + 1] \in Nat
    OBVIOUS
  <2>2. f \in [0..(m + 1) -> Nat]
    BY <2>a
  <2>b. f[0] = 0
    BY <2>1
  <2>c. ASSUME NEW k \in 1..(m + 1) PROVE f[k] = f[k - 1] + w[k]
    <3>1. CASE k = m + 1
      <4>1. f[k] = g[m] + w[m + 1] /\ f[k - 1] = g[m]
        BY <3>1
      <4> QED
        BY <4>1, <3>1
    <3>2. CASE k # m + 1
      <4>1. k \in 1..m /\ k - 1 \in 0..m
        BY <3>2
      <4>2. f[k] = g[k] /\ f[k - 1] = g[k - 1]
        BY <3>2, <4>1
      <4> QED
        BY <4>1, <4>2, <2>1
    <3> QED
      BY <3>1, <3>2
  <2>3. Good(f, m + 1)
    BY <2>b, <2>c
  <2> QED
    BY <2>2, <2>3
<1> HIDE DEF S
<1>3. n \in S
  BY <1>1, <1>2, NatSetInduction
<1>4. PICK f \in [0..n -> Nat] : Good(f, n)
  <2>1. n <= n
    OBVIOUS
  <2> QED
    BY <1>3, <2>1, Zenon DEF S
<1>5. \A k \in 0..n : f[k] = IF k = 0 THEN 0 ELSE f[k - 1] + w[k]
  BY <1>4
<1>6. f = [k \in 0..n |-> IF k = 0 THEN 0 ELSE f[k - 1] + w[k]]
  BY <1>5
<1> QED
  BY <1>6

\* ... whose values are sums.
LEMMA SumValues ==
  ASSUME NEW n \in Nat, NEW w \in [1..n -> Nat], NEW f, f[0] = 0,
         \A k \in 1..n : f[k] = f[k - 1] + w[k]
  PROVE  \A k \in 0..n : f[k] \in Nat
<1> DEFINE S == {k \in Nat : k <= n => f[k] \in Nat}
<1>3. 0 \in S
  OBVIOUS
<1>4. ASSUME NEW k \in Nat, k \in S PROVE k + 1 \in S
  <2> SUFFICES ASSUME k + 1 <= n PROVE f[k + 1] \in Nat
    OBVIOUS
  <2>1. k + 1 \in 1..n /\ (k + 1) - 1 = k /\ f[k] \in Nat
    BY <1>4
  <2>2. f[k + 1] = f[k] + w[k + 1]
    BY <2>1
  <2> QED
    BY <2>1, <2>2
<1> HIDE DEF S
<1>5. Nat \subseteq S
  BY <1>3, <1>4, NatSetInduction
<1>6. ASSUME NEW k \in 0..n PROVE f[k] \in Nat
  <2>1. k \in Nat /\ k <= n
    OBVIOUS
  <2> QED
    BY <1>5, <2>1, Zenon DEF S
<1> QED
  BY <1>6

\* The recursive definition of the sums has exactly one solution.
LEMMA SumUnique ==
  ASSUME NEW n \in Nat, NEW w \in [1..n -> Nat]
  PROVE  \E f \in [0..n -> Nat] :
           /\ f[0] = 0 /\ \A k \in 1..n : f[k] = f[k - 1] + w[k]
           /\ f = [k \in 0..n |-> IF k = 0 THEN 0 ELSE f[k - 1] + w[k]]
           /\ \A g : g = [k \in 0..n |-> IF k = 0 THEN 0 ELSE g[k - 1] + w[k]] => g = f
<1>1. PICK f : f = [k \in 0..n |-> IF k = 0 THEN 0 ELSE f[k - 1] + w[k]]
  BY SumExists, Zenon
<1> DEFINE Step(g) == [k \in 0..n |-> IF k = 0 THEN 0 ELSE g[k - 1] + w[k]]
<1>a. ASSUME NEW g, g = Step(g)
      PROVE  /\ g \in [0..n -> Nat] /\ g[0] = 0
             /\ \A k \in 1..n : g[k] = g[k - 1] + w[k]
  <2>1. g[0] = 0 /\ \A k \in 1..n : g[k] = g[k - 1] + w[k]
    BY <1>a
  <2>2. \A k \in 0..n : g[k] \in Nat
    BY <2>1, SumValues
  <2>3. \A k \in 0..n : k # 0 => g[k - 1] + w[k] \in Nat
    BY <2>2
  <2>4. Step(g) \in [0..n -> Nat]
    BY <2>3
  <2>5. g \in [0..n -> Nat]
    <3> HIDE DEF Step
    <3> QED
      BY <2>4, <1>a
  <2> QED
    BY <2>1, <2>5
<1>2. /\ f \in [0..n -> Nat] /\ f[0] = 0
      /\ \A k \in 1..n : f[k] = f[k - 1] + w[k]
  BY <1>1, <1>a, Zenon
<1>3. ASSUME NEW g, g = [k \in 0..n |-> IF k = 0 THEN 0 ELSE g[k - 1] + w[k]]
      PROVE  g = f
  <2>1. /\ g \in [0..n -> Nat] /\ g[0] = 0
        /\ \A k \in 1..n : g[k] = g[k - 1] + w[k]
    BY <1>3, <1>a, Zenon
  <2> DEFINE S == {k \in Nat : k <= n => g[k] = f[k]}
  <2>2. 0 \in S
    BY <1>2, <2>1
  <2>3. ASSUME NEW k \in Nat, k \in S PROVE k + 1 \in S
    <3> SUFFICES ASSUME k + 1 <= n PROVE g[k + 1] = f[k + 1]
      OBVIOUS
    <3>1. k + 1 \in 1..n /\ (k + 1) - 1 = k /\ g[k] = f[k]
      BY <2>3
    <3>2. g[k + 1] = g[k] + w[k + 1] /\ f[k + 1] = f[k] + w[k + 1]
      BY <1>2, <2>1, <3>1
    <3> QED
      BY <3>1, <3>2
  <2> HIDE DEF S
  <2>4. Nat \subseteq S
    BY <2>2, <2>3, NatSetInduction
  <2>5. ASSUME NEW k \in 0..n PROVE g[k] = f[k]
    <3>1. k \in Nat /\ k <= n
      OBVIOUS
    <3> QED
      BY <2>4, <3>1, Zenon DEF S
  <2> QED
    BY <1>2, <2>1, <2>5
<1> QED
  BY <1>1, <1>2, <1>3

(***************************************************************************)
(* Remainders, for counters of a fixed width.                              *)
(***************************************************************************)

\* The remainder is what is left of a number after multiples of M.
LEMMA ModUnique ==
  ASSUME NEW M \in Nat \ {0}, NEW q \in Int, NEW r \in 0..(M - 1)
  PROVE  (q * M + r) % M = r
OBVIOUS

\* Every number is a multiple of M and a remainder.
LEMMA ModDef ==
  ASSUME NEW M \in Nat \ {0}, NEW a \in Nat
  PROVE  \E q \in Int, r \in 0..(M - 1) : a = q * M + r /\ a % M = r
<1> DEFINE Splits(x) == \E q \in Int, r \in 0..(M - 1) : x = q * M + r
           S == {x \in Nat : Splits(x)}
<1>1. Splits(0)
  <2>1. 0 = 0 * M + 0 /\ 0 \in 0..(M - 1)
    OBVIOUS
  <2> QED
    BY <2>1
<1>2. ASSUME NEW x \in Nat, Splits(x) PROVE Splits(x + 1)
  <2>1. PICK q \in Int, r \in 0..(M - 1) : x = q * M + r
    BY <1>2
  <2>2. CASE r = M - 1
    <3>1. x + 1 = (q + 1) * M + 0 /\ q + 1 \in Int /\ 0 \in 0..(M - 1)
      BY <2>1, <2>2
    <3> QED
      BY <3>1
  <2>3. CASE r # M - 1
    <3>1. x + 1 = q * M + (r + 1) /\ r + 1 \in 0..(M - 1)
      BY <2>1, <2>3
    <3> QED
      BY <3>1
  <2> QED
    BY <2>2, <2>3
<1> HIDE DEF Splits
<1>3. 0 \in S /\ \A x \in Nat : x \in S => x + 1 \in S
  BY <1>1, <1>2
<1> HIDE DEF S
<1>4. a \in S
  BY <1>3, NatSetInduction
<1>5. PICK q \in Int, r \in 0..(M - 1) : a = q * M + r
  BY <1>4 DEF S, Splits
<1> QED
  BY <1>5, ModUnique

\* Adding to a number or to its remainder leaves the same remainder.
LEMMA ModAdd ==
  ASSUME NEW M \in Nat \ {0}, NEW a \in Nat, NEW b \in Nat
  PROVE  ((a % M) + b) % M = (a + b) % M
<1>1. PICK q \in Int, r \in 0..(M - 1) : a = q * M + r /\ a % M = r
  BY ModDef
<1>2. r + b \in Nat
  OBVIOUS
<1>3. PICK p \in Int, t \in 0..(M - 1) : r + b = p * M + t /\ (r + b) % M = t
  BY <1>2, ModDef
<1>4. a + b = (q + p) * M + t /\ q + p \in Int
  BY <1>1, <1>3
<1>5. (a + b) % M = t
  BY <1>4, ModUnique
<1> QED
  BY <1>1, <1>3, <1>5

\* Adding M leaves the remainder as it is.
LEMMA ModShift ==
  ASSUME NEW M \in Nat \ {0}, NEW a \in Nat
  PROVE  (a + M) % M = a % M
<1>1. PICK q \in Int, r \in 0..(M - 1) : a = q * M + r /\ a % M = r
  BY ModDef
<1>2. a + M = (q + 1) * M + r /\ q + 1 \in Int
  BY <1>1
<1> QED
  BY <1>1, <1>2, ModUnique
=============================================================================
