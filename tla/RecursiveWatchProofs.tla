------------------------ MODULE RecursiveWatchProofs ------------------------
(***************************************************************************)
(* Proofs about RecursiveWatch, for every set of directories and names,    *)
(* every tree to start from and every bound.                               *)
(***************************************************************************)
EXTENDS RecursiveWatch, CollectionFacts, TLAPS

(***************************************************************************)
(* Paths.                                                                  *)
(***************************************************************************)
Alphabet == Names \cup {RootName}

\* A path goes on with a name.
LEMMA PathAppend ==
  ASSUME NEW q, IsPath(q), NEW n \in Names
  PROVE  /\ IsPath(Append(q, n)) /\ Len(Append(q, n)) = Len(q) + 1 /\ Len(q) \in Nat \ {0}
         /\ Append(q, n)[Len(q) + 1] = n
         /\ \A k \in 1..Len(q) : Append(q, n)[k] = q[k]
<1> DEFINE p == Append(q, n)
           l == Len(q)
<1>1. q \in Seq(Alphabet) /\ n \in Alphabet /\ q # << >>
  BY DEF IsPath, Alphabet
<1>2. l \in Nat \ {0}
  BY <1>1, LenProperties, EmptySeq
<1>3. /\ p \in Seq(Alphabet) /\ Len(p) = l + 1 /\ p[l + 1] = n
      /\ \A k \in 1..l : p[k] = q[k]
  BY <1>1, AppendProperties
<1> HIDE DEF p, l
<1>4. p # << >>
  BY <1>2, <1>3
<1>5. p[1] = RootName
  <2>1. 1 \in 1..l
    BY <1>2
  <2> QED
    BY <1>3, <2>1 DEF IsPath
<1>6. \A k \in 2..Len(p) : p[k] \in Names
  <2> SUFFICES ASSUME NEW k \in 2..(l + 1) PROVE p[k] \in Names
    BY <1>3
  <2>1. CASE k = l + 1
    BY <1>3, <2>1
  <2>2. CASE k # l + 1
    <3>1. k \in 1..l /\ k \in 2..l
      BY <1>2, <2>2
    <3> QED
      BY <1>3, <3>1 DEF IsPath, l
  <2> QED
    BY <2>1, <2>2
<1> QED
  BY <1>2, <1>3, <1>4, <1>5, <1>6 DEF IsPath, p, l, Alphabet

\* The path of the root.
LEMMA RootPath == IsPath(<<RootName>>) /\ Len(<<RootName>>) = 1
<1> DEFINE p == <<RootName>>
<1>1. p \in Seq(Names \cup {RootName}) /\ Len(p) = 1 /\ p[1] = RootName
  OBVIOUS
<1>2. p # << >>
  OBVIOUS
<1> HIDE DEF p
<1>3. \A k \in 2..Len(p) : p[k] \in Names
  BY <1>1
<1>4. IsPath(p)
  BY <1>1, <1>2, <1>3 DEF IsPath
<1> QED
  BY <1>1, <1>4 DEF p

\* Every path but that of the root goes on from another one.
LEMMA PathCases ==
  ASSUME NEW p, IsPath(p)
  PROVE  \/ p = <<RootName>>
         \/ \E q, n : IsPath(q) /\ n \in Names /\ p = Append(q, n)
<1> DEFINE l == Len(p)
           q == SubSeq(p, 1, l - 1)
<1>1. p \in Seq(Alphabet) /\ p # << >> /\ l \in Nat \ {0}
  <2>1. p \in Seq(Alphabet) /\ p # << >>
    BY DEF IsPath, Alphabet
  <2> QED
    BY <2>1, LenProperties, EmptySeq
<1>2. CASE l = 1
  <2>1. p[1] = RootName
    BY DEF IsPath
  <2>2. p = <<p[1]>>
    BY <1>1, <1>2
  <2> QED
    BY <2>1, <2>2
<1>3. CASE l # 1
  <2>1. /\ q \in Seq(Alphabet) /\ Len(q) = l - 1 /\ \A k \in 1..(l - 1) : q[k] = p[k]
        /\ p = Append(q, p[l])
    <3>1. /\ SubSeq(p, 1, Len(p) - 1) \in Seq(Alphabet) /\ Len(SubSeq(p, 1, Len(p) - 1)) = Len(p) - 1
          /\ \A k \in 1..(Len(p) - 1) : SubSeq(p, 1, Len(p) - 1)[k] = p[k]
          /\ p = Append(SubSeq(p, 1, Len(p) - 1), p[Len(p)])
      <4>1. p \in Seq(Alphabet) /\ p # << >>
        BY <1>1
      <4> HIDE DEF q, l
      <4> QED
        BY <4>1, ButLast
    <3> QED
      BY <3>1, Zenon
  <2>2. p[l] \in Names
    <3> HIDE DEF q
    <3>0. \A m \in Nat \ {0} : m # 1 => m \in 2..m
      OBVIOUS
    <3>1. l \in 2..Len(p)
      BY <1>1, <1>3, <3>0, Zenon
    <3> QED
      BY <3>1, Zenon DEF IsPath
  <2>3. \A k \in 1..(l - 1) : p[k] \in Alphabet /\ (k # 1 => p[k] \in Names)
    <3> SUFFICES ASSUME NEW k \in 1..(l - 1) PROVE p[k] \in Alphabet /\ (k # 1 => p[k] \in Names)
      OBVIOUS
    <3>1. k \in 1..l /\ (k # 1 => k \in 2..l)
      BY <1>1
    <3> QED
      BY <1>1, <3>1, ElementOfSeq DEF IsPath
  <2>4. p[1] = RootName
    BY DEF IsPath
  <2> HIDE DEF q, l
  <2>5. IsPath(q)
    <3>1. q # << >>
      BY <1>1, <1>3, <2>1
    <3>2. q[1] = RootName /\ \A k \in 2..Len(q) : q[k] \in Names
      BY <1>1, <1>3, <2>1, <2>3, <2>4
    <3> QED
      BY <2>1, <3>1, <3>2 DEF IsPath, Alphabet
  <2> QED
    BY <2>1, <2>2, <2>5
<1> QED
  BY <1>2, <1>3

\* What holds of the root's path and goes on from path to path holds of all.
LEMMA PathInduction ==
  ASSUME NEW S, <<RootName>> \in S,
         \A q : IsPath(q) /\ q \in S => \A n \in Names : Append(q, n) \in S
  PROVE  \A p : IsPath(p) => p \in S
<1> DEFINE T == {m \in Nat : \A p \in Seq(Alphabet) : IsPath(p) /\ Len(p) = m + 1 => p \in S}
<1>1. ASSUME NEW p, IsPath(p) PROVE p \in Seq(Alphabet) /\ Len(p) - 1 \in Nat
  <2>1. p \in Seq(Alphabet) /\ p # << >>
    BY <1>1 DEF IsPath, Alphabet
  <2>2. Len(p) \in Nat \ {0}
    BY <2>1, LenProperties, EmptySeq
  <2> QED
    BY <2>1, <2>2
<1>2. 0 \in T
  <2> SUFFICES ASSUME NEW p, IsPath(p), Len(p) = 1 PROVE p \in S
    OBVIOUS
  <2>1. CASE p = <<RootName>>
    BY <2>1
  <2>2. ASSUME NEW q, NEW n, IsPath(q), n \in Names, p = Append(q, n) PROVE FALSE
    <3>1. Len(p) = Len(q) + 1 /\ Len(q) \in Nat \ {0}
      BY <2>2, PathAppend
    <3> QED
      BY <3>1, SMTT(30)
  <2> QED
    BY <2>1, <2>2, PathCases, Zenon
<1>3. ASSUME NEW m \in Nat, m \in T PROVE m + 1 \in T
  <2> SUFFICES ASSUME NEW p, IsPath(p), Len(p) = (m + 1) + 1 PROVE p \in S
    OBVIOUS
  <2>1. CASE p = <<RootName>>
    BY <2>1
  <2>2. ASSUME NEW q, NEW n, IsPath(q), n \in Names, p = Append(q, n) PROVE p \in S
    <3>1. Len(p) = Len(q) + 1 /\ Len(q) \in Nat \ {0}
      BY <2>2, PathAppend
    <3>2. Len(q) = m + 1 /\ q \in Seq(Alphabet)
      BY <3>1, <2>2, <1>1
    <3>3. q \in S
      BY <3>2, <2>2, <1>3
    <3> QED
      BY <3>3, <2>2, Zenon
  <2> QED
    BY <2>1, <2>2, PathCases, Zenon
<1> HIDE DEF T
<1>4. Nat \subseteq T
  BY <1>2, <1>3, NatSetInduction
<1> SUFFICES ASSUME NEW p, IsPath(p) PROVE p \in S
  OBVIOUS
<1>5. p \in Seq(Alphabet) /\ Len(p) - 1 \in Nat
  BY <1>1
<1>6. Len(p) - 1 \in T /\ Len(p) = (Len(p) - 1) + 1
  BY <1>4, <1>5
<1> QED
  BY <1>5, <1>6, Zenon DEF T

(***************************************************************************)
(* Where a path leads, in any tree.                                        *)
(***************************************************************************)
Nodes == Dirs \cup Places

\* The entry of a directory, and the directory a path leads to, when the
\* directories are where l says.
EntryIn(l, p, n) ==
  IF \A d \in Dirs : ~(l[d] = <<p, n>>) THEN NoDir ELSE CHOOSE d \in Dirs : l[d] = <<p, n>>
EntriesIn(l) == [p \in Nodes |-> [n \in Names |-> EntryIn(l, p, n)]]
Leads(at, l, path) ==
  at = [k \in 1..Len(path) |-> IF k = 1 THEN Root ELSE EntriesIn(l)[at[k - 1]][path[k]]]
ResolveIn(l, path) == (CHOOSE at : Leads(at, l, path))[Len(path)]

\* The directory a path leads to now.
LEMMA ResolveNow ==
  ASSUME NEW path
  PROVE  Resolve(path) = ResolveIn(loc, path)
BY Zenon DEF Resolve, ResolveIn, Leads, EntriesIn, EntryIn, Entry, Vacant, IsAt, Nodes

\* The directory a path leads to after a step.
LEMMA ResolveNext ==
  ASSUME NEW path
  PROVE  Resolve(path)' = ResolveIn(loc', path)
BY Zenon DEF Resolve, ResolveIn, Leads, EntriesIn, EntryIn, Entry, Vacant, IsAt, Nodes

\* An entry is a directory or none.
LEMMA EntryType ==
  ASSUME NEW l, NEW p, NEW n
  PROVE  /\ EntryIn(l, p, n) \in Dirs \cup {Dead}
         /\ EntryIn(l, p, n) \in Dirs => l[EntryIn(l, p, n)] = <<p, n>>
<1>1. CASE \A d \in Dirs : ~(l[d] = <<p, n>>)
  <2>1. Dead \notin Dirs
    BY PlacesAssumption DEF Places
  <2> QED
    BY <1>1, <2>1 DEF EntryIn, NoDir
<1>2. CASE \E d \in Dirs : l[d] = <<p, n>>
  BY <1>2, Zenon DEF EntryIn
<1> QED
  BY <1>1, <1>2

\* f walks along a path to where it leads.
IsWalk(f, l, path) ==
  /\ f \in [1..Len(path) -> Nodes]
  /\ f[1] = Root /\ ResolveIn(l, path) = f[Len(path)]
  /\ \A k \in 2..Len(path) : f[k] = EntryIn(l, f[k - 1], path[k])

\* Every path can be walked.
LEMMA Walk ==
  ASSUME NEW l, NEW path, IsPath(path)
  PROVE  \E f : IsWalk(f, l, path)
<1> DEFINE m == Len(path)
           V == Nodes
           h == [k \in 1..(m - 1) |-> [x \in V |-> EntryIn(l, x, path[k + 1])]]
<1>1. m \in Nat \ {0}
  BY LenProperties, EmptySeq DEF IsPath
<1>2. Root \in V /\ m - 1 \in Nat
  BY <1>1 DEF Nodes, Places
<1>3. h \in [1..(m - 1) -> [V -> V]]
  <2>1. \A k, x : EntryIn(l, x, path[k + 1]) \in V
    BY EntryType DEF Nodes, Places
  <2> HIDE DEF V, m
  <2> QED
    BY <2>1
<1>4. PICK g \in [0..(m - 1) -> V] : g[0] = Root /\ \A k \in 1..(m - 1) : g[k] = h[k][g[k - 1]]
  <2> DEFINE j == m - 1
  <2>1. j \in Nat /\ h \in [1..j -> [V -> V]] /\ Root \in V
    BY <1>2, <1>3
  <2> HIDE DEF V, m, h, j
  <2>2. \E g : Iterates(g, j, V, Root, h)
    BY <2>1, RecursionExists
  <2> QED
    BY <2>2 DEF j, Iterates
<1>5. \A k \in 1..(m - 1) : g[k] = EntryIn(l, g[k - 1], path[k + 1])
  <2> SUFFICES ASSUME NEW k \in 1..(m - 1) PROVE g[k] = EntryIn(l, g[k - 1], path[k + 1])
    OBVIOUS
  <2>1. k - 1 \in 0..(m - 1)
    BY <1>1
  <2>2. g[k - 1] \in V
    BY <2>1
  <2> HIDE DEF V, m
  <2>3. h[k][g[k - 1]] = EntryIn(l, g[k - 1], path[k + 1])
    BY <2>2
  <2> QED
    BY <2>3, <1>4
<1>n. \A k \in 2..m : path[k] \in Names
  BY DEF IsPath
<1> DEFINE e == [k \in 1..m |-> g[k - 1]]
<1>6. Leads(e, l, path)
  <2>1. ASSUME NEW k \in 1..m
        PROVE  e[k] = IF k = 1 THEN Root ELSE EntriesIn(l)[e[k - 1]][path[k]]
    <3>1. CASE k = 1
      BY <1>1, <1>4, <3>1
    <3>2. CASE k # 1
      <4>1. k \in 2..m /\ k - 1 \in 1..(m - 1) /\ k - 1 \in 1..m /\ (k - 1) + 1 = k /\ (k - 1) - 1 \in 0..(m - 1)
        BY <1>1, <3>2
      <4>2. e[k] = g[k - 1] /\ e[k - 1] = g[(k - 1) - 1] /\ g[(k - 1) - 1] \in V /\ path[k] \in Names
        BY <4>1, <1>n
      <4>3. g[k - 1] = EntryIn(l, g[(k - 1) - 1], path[(k - 1) + 1])
        BY <4>1, <1>5
      <4> HIDE DEF e, h, m
      <4>4. e[k - 1] \in Nodes /\ e[k] = EntryIn(l, e[k - 1], path[k])
        <5>1. g[k - 1] = EntryIn(l, g[(k - 1) - 1], path[k])
          BY <4>1, <4>3
        <5> QED
          BY <5>1, <4>2, Zenon
      <4>5. EntriesIn(l)[e[k - 1]][path[k]] = EntryIn(l, e[k - 1], path[k])
        BY <4>2, <4>4 DEF EntriesIn
      <4> QED
        BY <4>4, <4>5, <3>2
    <3> QED
      BY <3>1, <3>2
  <2>2. e = [k \in 1..m |-> e[k]]
    OBVIOUS
  <2> HIDE DEF e, h
  <2> QED
    BY <2>1, <2>2, Zenon DEF Leads
<1> DEFINE f == CHOOSE x : Leads(x, l, path)
<1>7. Leads(f, l, path)
  BY <1>6, Zenon
<1>8. ResolveIn(l, path) = f[m]
  BY Zenon DEF ResolveIn
<1> HIDE DEF f, e, h
<1>9. /\ f = [k \in 1..m |-> f[k]]
      /\ \A k \in 1..m : f[k] = IF k = 1 THEN Root ELSE EntriesIn(l)[f[k - 1]][path[k]]
  <2> DEFINE w == [k \in 1..m |-> IF k = 1 THEN Root ELSE EntriesIn(l)[f[k - 1]][path[k]]]
  <2>1. f = w
    BY <1>7, Zenon DEF Leads
  <2>2. w = [k \in 1..m |-> w[k]] /\ \A k \in 1..m : w[k] = IF k = 1 THEN Root ELSE EntriesIn(l)[f[k - 1]][path[k]]
    OBVIOUS
  <2> HIDE DEF w
  <2> QED
    BY <2>1, <2>2
<1>10. f[1] = Root
  BY <1>1, <1>9
<1>11. ASSUME NEW k \in 2..m, f[k - 1] \in Nodes PROVE f[k] = EntryIn(l, f[k - 1], path[k])
  <2>1. k \in 1..m /\ k # 1 /\ path[k] \in Names
    BY <1>1, <1>n
  <2>2. f[k] = EntriesIn(l)[f[k - 1]][path[k]]
    BY <1>9, <2>1
  <2> QED
    BY <2>1, <2>2, <1>11 DEF EntriesIn
<1> DEFINE T == {k \in Nat : k + 1 <= m => f[k + 1] \in Nodes}
<1>12. 0 \in T
  BY <1>10 DEF Nodes, Places
<1>13. ASSUME NEW k \in Nat, k \in T PROVE k + 1 \in T
  <2> SUFFICES ASSUME (k + 1) + 1 <= m PROVE f[(k + 1) + 1] \in Nodes
    OBVIOUS
  <2>1. (k + 1) + 1 \in 2..m /\ ((k + 1) + 1) - 1 = k + 1 /\ k + 1 <= m
    BY <1>1
  <2>2. f[k + 1] \in Nodes
    BY <1>13, <2>1
  <2> HIDE DEF m, T
  <2>3. f[(k + 1) + 1] = EntryIn(l, f[k + 1], path[(k + 1) + 1])
    BY <2>1, <2>2, <1>11
  <2> QED
    BY <2>3, EntryType DEF Nodes, Places
<1> HIDE DEF T
<1>14. Nat \subseteq T
  BY <1>12, <1>13, NatSetInduction
<1>15. \A k \in 1..m : f[k] \in Nodes
  <2> SUFFICES ASSUME NEW k \in 1..m PROVE f[k] \in Nodes
    OBVIOUS
  <2>1. k - 1 \in Nat /\ (k - 1) + 1 = k /\ k <= m
    BY <1>1
  <2> QED
    BY <1>14, <2>1, Zenon DEF T
<1>16. \A k \in 2..m : f[k] = EntryIn(l, f[k - 1], path[k])
  <2> SUFFICES ASSUME NEW k \in 2..m PROVE f[k] = EntryIn(l, f[k - 1], path[k])
    OBVIOUS
  <2>1. k - 1 \in 1..m
    BY <1>1
  <2> QED
    BY <2>1, <1>11, <1>15
<1>17. f \in [1..m -> Nodes]
  BY <1>9, <1>15
<1> QED
  BY <1>8, <1>10, <1>16, <1>17 DEF m, IsWalk

\* The root's path leads to the root, and a path that goes on to an entry.
LEMMA ResolveSteps ==
  ASSUME NEW l
  PROVE  /\ ResolveIn(l, <<RootName>>) = Root
         /\ \A q : IsPath(q) => \A n \in Names :
              ResolveIn(l, Append(q, n)) = EntryIn(l, ResolveIn(l, q), n)
<1>1. ResolveIn(l, <<RootName>>) = Root
  BY RootPath, Walk DEF IsWalk
<1>2. ASSUME NEW q, IsPath(q), NEW n \in Names
      PROVE  ResolveIn(l, Append(q, n)) = EntryIn(l, ResolveIn(l, q), n)
  <2> DEFINE p == Append(q, n)
             m == Len(q)
  <2>1. /\ IsPath(p) /\ Len(p) = m + 1 /\ m \in Nat \ {0} /\ p[m + 1] = n
        /\ \A k \in 1..m : p[k] = q[k]
    BY <1>2, PathAppend
  <2>a. PICK f : IsWalk(f, l, q)
    BY <1>2, Walk
  <2>b. PICK g : IsWalk(g, l, p)
    BY <2>1, Walk
  <2>2. /\ f[1] = Root /\ ResolveIn(l, q) = f[m]
        /\ \A k \in 2..m : f[k] = EntryIn(l, f[k - 1], q[k])
    BY <2>a DEF IsWalk
  <2> HIDE DEF p
  <2>3. /\ g[1] = Root /\ ResolveIn(l, p) = g[Len(p)]
        /\ \A k \in 2..Len(p) : g[k] = EntryIn(l, g[k - 1], p[k])
    BY <2>b DEF IsWalk
  <2> HIDE DEF m
  <2>4. ASSUME NEW k \in 2..m PROVE g[k] = EntryIn(l, g[k - 1], q[k]) /\ f[k] = EntryIn(l, f[k - 1], q[k])
    <3>1. k \in 2..(m + 1) /\ k \in 1..m
      BY <2>1
    <3> QED
      BY <3>1, <2>1, <2>2, <2>3
  <2> DEFINE T == {k \in Nat : k + 1 <= m => f[k + 1] = g[k + 1]}
  <2>5. 0 \in T
    BY <2>2, <2>3
  <2>6. ASSUME NEW k \in Nat, k \in T PROVE k + 1 \in T
    <3> SUFFICES ASSUME (k + 1) + 1 <= m PROVE f[(k + 1) + 1] = g[(k + 1) + 1]
      OBVIOUS
    <3>1. (k + 1) + 1 \in 2..m /\ ((k + 1) + 1) - 1 = k + 1 /\ k + 1 <= m
      BY <2>1
    <3>2. f[k + 1] = g[k + 1]
      BY <2>6, <3>1
    <3> QED
      BY <3>1, <3>2, <2>4
  <2> HIDE DEF T
  <2>7. Nat \subseteq T
    BY <2>5, <2>6, NatSetInduction
  <2>8. f[m] = g[m]
    <3>1. m - 1 \in Nat /\ (m - 1) + 1 = m /\ m <= m
      BY <2>1
    <3> QED
      BY <2>7, <3>1, Zenon DEF T
  <2>9. g[m + 1] = EntryIn(l, g[m], n)
    <3>1. m + 1 \in 2..(m + 1) /\ (m + 1) - 1 = m
      BY <2>1
    <3> QED
      BY <3>1, <2>1, <2>3
  <2> QED
    BY <2>1, <2>2, <2>3, <2>8, <2>9 DEF p
<1> QED
  BY <1>1, <1>2

\* A path leads to the root, to a directory or nowhere.
LEMMA ResolveType ==
  ASSUME NEW l, NEW path, IsPath(path)
  PROVE  ResolveIn(l, path) \in Dirs \cup {Root, Dead}
<1> DEFINE S == {p \in Seq(Alphabet) : ResolveIn(l, p) \in Dirs \cup {Root, Dead}}
<1>1. \A p : IsPath(p) => p \in Seq(Alphabet)
  BY DEF IsPath, Alphabet
<1>2. <<RootName>> \in S
  BY <1>1, RootPath, ResolveSteps
<1>3. ASSUME NEW q, IsPath(q), NEW n \in Names PROVE Append(q, n) \in S
  <2>1. Append(q, n) \in Seq(Alphabet)
    <3>1. q \in Seq(Alphabet) /\ n \in Alphabet
      BY <1>1, <1>3 DEF Alphabet
    <3> QED
      BY <3>1
  <2>2. ResolveIn(l, Append(q, n)) \in Dirs \cup {Dead}
    <3>1. ResolveIn(l, Append(q, n)) = EntryIn(l, ResolveIn(l, q), n)
      BY <1>3, ResolveSteps, Zenon
    <3> QED
      BY <3>1, EntryType, Zenon
  <2> QED
    BY <2>1, <2>2
<1> HIDE DEF S
<1>4. path \in S
  BY <1>2, <1>3, PathInduction, Zenon
<1> QED
  BY <1>4 DEF S

(***************************************************************************)
(* The registry.                                                           *)
(***************************************************************************)

\* The indexes lead to watches with the key looked up, ids are given out
\* once, and filenames are paths.
Sound(r) ==
  /\ r.next_id \in Nat /\ IsFiniteSet(DOMAIN r.by_filename)
  /\ \A id \in DOMAIN r.watches : id \in Nat /\ id < r.next_id /\ IsPath(r.watches[id].filename)
  /\ \A w \in DOMAIN r.by_wd : r.by_wd[w] \in DOMAIN r.watches /\ r.watches[r.by_wd[w]].wd = w
  /\ \A n \in DOMAIN r.by_filename :
       r.by_filename[n] \in DOMAIN r.watches /\ r.watches[r.by_filename[n]].filename = n

\* new() leaves a sound registry.
LEMMA EmptySound == Sound(EmptyRegistry(1, 0))
BY FS_EmptySet DEF Sound, EmptyRegistry, EmptyMap

\* Watches are filed by paths.
LEMMA FiledByPaths ==
  ASSUME NEW r, Sound(r)
  PROVE  \A n \in DOMAIN r.by_filename : IsPath(n)
BY DEF Sound

\* create_watch keeps the registry sound and what is filed.
LEMMA CreateSound ==
  ASSUME NEW r, Sound(r), NEW wd, NEW path, IsPath(path)
  PROVE  /\ Sound(CreateInotifyWatch(r, wd, path))
         /\ DOMAIN CreateInotifyWatch(r, wd, path).by_wd = DOMAIN r.by_wd \cup {wd}
         /\ DOMAIN CreateInotifyWatch(r, wd, path).by_filename = DOMAIN r.by_filename \cup {path}
         /\ \A w \in DOMAIN r.by_wd :
              LET new == CreateInotifyWatch(r, wd, path)
              IN  new.watches[new.by_wd[w]].filename = r.watches[r.by_wd[w]].filename
         /\ wd \notin DOMAIN r.by_wd =>
              LET new == CreateInotifyWatch(r, wd, path)
              IN  new.watches[new.by_wd[wd]].filename = path
<1> DEFINE id == r.next_id
           w  == [wd |-> wd, fid |-> NoFid, filename |-> path, dirf |-> FALSE]
           ins == wd \notin DOMAIN r.by_wd \/ path \notin DOMAIN r.by_filename
           W == IF ins THEN Put(r.watches, id, w) ELSE r.watches
           D == PutIfVacant(r.by_wd, wd, id)
           N == PutIfVacant(r.by_filename, path, id)
           new == CreateInotifyWatch(r, wd, path)
<1>1. new.watches = W /\ new.by_wd = D /\ new.by_filename = N /\ new.next_id = id + 1
  BY DEF CreateInotifyWatch, CreateWatch
<1>2. id \in Nat /\ id \notin DOMAIN r.watches
  BY DEF Sound
<1>3. /\ DOMAIN W = (DOMAIN r.watches) \cup (IF ins THEN {id} ELSE {})
      /\ \A x \in DOMAIN r.watches : W[x] = r.watches[x]
      /\ ins => W[id] = w
  BY <1>2 DEF Put
<1>4. /\ DOMAIN D = (DOMAIN r.by_wd) \cup {wd}
      /\ wd \notin DOMAIN r.by_wd => D[wd] = id
      /\ \A x \in DOMAIN r.by_wd : D[x] = r.by_wd[x]
  BY DEF PutIfVacant, Put
<1>5. /\ DOMAIN N = (DOMAIN r.by_filename) \cup {path}
      /\ path \notin DOMAIN r.by_filename => N[path] = id
      /\ \A x \in DOMAIN r.by_filename : N[x] = r.by_filename[x]
  BY DEF PutIfVacant, Put
<1>6. IsFiniteSet(DOMAIN N)
  BY <1>5, FS_AddElement DEF Sound
<1>7. w.wd = wd /\ w.filename = path
  OBVIOUS
<1>8. /\ ins = (wd \notin DOMAIN r.by_wd \/ path \notin DOMAIN r.by_filename)
      /\ id = r.next_id
  OBVIOUS
<1> HIDE DEF W, D, N, ins, id, w, new
<1>9. Sound(new)
  <2>1. ASSUME NEW x \in DOMAIN W PROVE x \in Nat /\ x < id + 1 /\ IsPath(W[x].filename)
    <3>1. CASE x \in DOMAIN r.watches
      <4>1. x \in Nat /\ x < id /\ IsPath(r.watches[x].filename) /\ W[x] = r.watches[x]
        BY <3>1, <1>3, <1>8 DEF Sound
      <4> QED
        BY <4>1, <1>2
    <3>2. CASE x \notin DOMAIN r.watches
      <4>1. x = id /\ W[x] = w
        BY <3>2, <1>3
      <4> QED
        BY <4>1, <1>2, <1>7
    <3> QED
      BY <3>1, <3>2
  <2>2. ASSUME NEW x \in DOMAIN D PROVE D[x] \in DOMAIN W /\ W[D[x]].wd = x
    <3>1. CASE x \in DOMAIN r.by_wd
      <4>1. D[x] = r.by_wd[x] /\ r.by_wd[x] \in DOMAIN r.watches /\ r.watches[r.by_wd[x]].wd = x
        BY <3>1, <1>4 DEF Sound
      <4> QED
        BY <4>1, <1>3
    <3>2. CASE x \notin DOMAIN r.by_wd
      <4>1. x = wd /\ D[x] = id /\ ins
        BY <3>2, <1>4, <1>8
      <4> QED
        BY <4>1, <1>3, <1>7
    <3> QED
      BY <3>1, <3>2
  <2>3. ASSUME NEW x \in DOMAIN N PROVE N[x] \in DOMAIN W /\ W[N[x]].filename = x
    <3>1. CASE x \in DOMAIN r.by_filename
      <4>1. /\ N[x] = r.by_filename[x] /\ r.by_filename[x] \in DOMAIN r.watches
            /\ r.watches[r.by_filename[x]].filename = x
        BY <3>1, <1>5 DEF Sound
      <4> QED
        BY <4>1, <1>3
    <3>2. CASE x \notin DOMAIN r.by_filename
      <4>1. x = path /\ N[x] = id /\ ins
        BY <3>2, <1>5, <1>8
      <4> QED
        BY <4>1, <1>3, <1>7
    <3> QED
      BY <3>1, <3>2
  <2> QED
    BY <1>1, <1>2, <1>6, <2>1, <2>2, <2>3 DEF Sound
<1>10. \A x \in DOMAIN r.by_wd : new.watches[new.by_wd[x]].filename = r.watches[r.by_wd[x]].filename
  BY <1>1, <1>3, <1>4 DEF Sound
<1>11. wd \notin DOMAIN r.by_wd => new.watches[new.by_wd[wd]].filename = path
  BY <1>1, <1>3, <1>4, <1>7, <1>8
<1> QED
  BY <1>1, <1>4, <1>5, <1>9, <1>10, <1>11 DEF new

\* destroy_watch keeps the registry sound.
LEMMA DestroySound ==
  ASSUME NEW r, Sound(r), NEW id \in DOMAIN r.watches
  PROVE  Sound(DestroyWatch(r, id))
<1> DEFINE w == r.watches[id]
           W == Drop(r.watches, id)
           D == Drop(r.by_wd, w.wd)
           N == Drop(r.by_filename, w.filename)
           new == DestroyWatch(r, id)
<1>1. new.watches = W /\ new.by_wd = D /\ new.by_filename = N /\ new.next_id = r.next_id
  BY DEF DestroyWatch
<1>2. DOMAIN W = DOMAIN r.watches \ {id} /\ \A x \in DOMAIN W : W[x] = r.watches[x]
  BY DEF Drop
<1>3. DOMAIN D = DOMAIN r.by_wd \ {w.wd} /\ \A x \in DOMAIN D : D[x] = r.by_wd[x]
  BY DEF Drop
<1>4. DOMAIN N = DOMAIN r.by_filename \ {w.filename} /\ \A x \in DOMAIN N : N[x] = r.by_filename[x]
  BY DEF Drop
<1> HIDE DEF W, D, N, new
<1>5. IsFiniteSet(DOMAIN N)
  <2>1. DOMAIN N \subseteq DOMAIN r.by_filename /\ IsFiniteSet(DOMAIN r.by_filename)
    BY <1>4 DEF Sound
  <2> QED
    BY <2>1, FS_Subset
<1>6. \A x \in DOMAIN W : x \in Nat /\ x < r.next_id /\ IsPath(W[x].filename)
  BY <1>2 DEF Sound
<1>7. \A x \in DOMAIN D : D[x] \in DOMAIN W /\ W[D[x]].wd = x
  BY <1>2, <1>3 DEF Sound
<1>8. \A x \in DOMAIN N : N[x] \in DOMAIN W /\ W[N[x]].filename = x
  BY <1>2, <1>4 DEF Sound
<1> QED
  BY <1>1, <1>5, <1>6, <1>7, <1>8 DEF Sound, new

\* rename_watch keeps the registry sound, and all its watches.
LEMMA RenameSound ==
  ASSUME NEW r, Sound(r), NEW id \in DOMAIN r.watches, NEW path, IsPath(path)
  PROVE  /\ Sound(RenameWatch(r, id, path))
         /\ DOMAIN RenameWatch(r, id, path).watches = DOMAIN r.watches
<1> DEFINE old == r.watches[id].filename
           own == old \in DOMAIN r.by_filename /\ r.by_filename[old] = id
           R == IF own THEN Drop(r.by_filename, old) ELSE r.by_filename
           N == PutIfVacant(R, path, id)
           w == [wd |-> r.watches[id].wd, fid |-> r.watches[id].fid,
                 filename |-> path, dirf |-> r.watches[id].dirf]
           W == Put(r.watches, id, w)
           new == RenameWatch(r, id, path)
<1>1. new.watches = W /\ new.by_wd = r.by_wd /\ new.by_filename = N /\ new.next_id = r.next_id
  BY DEF RenameWatch
<1>2. /\ DOMAIN W = DOMAIN r.watches /\ W[id] = w
      /\ \A x \in DOMAIN W : x # id => W[x] = r.watches[x]
  BY DEF Put
<1>3. w.wd = r.watches[id].wd /\ w.filename = path
  OBVIOUS
<1>4. /\ DOMAIN R \subseteq DOMAIN r.by_filename
      /\ \A x \in DOMAIN R : R[x] = r.by_filename[x] /\ R[x] # id
  <2>1. \A x \in DOMAIN r.by_filename : r.by_filename[x] = id => x = old
    BY DEF Sound
  <2>2. CASE own
    BY <2>1, <2>2 DEF Drop
  <2>3. CASE ~own
    BY <2>1, <2>3
  <2> QED
    BY <2>2, <2>3
<1> HIDE DEF R
<1>5. /\ DOMAIN N = DOMAIN R \cup {path}
      /\ \A x \in DOMAIN N : (N[x] = id /\ x = path) \/ (x \in DOMAIN R /\ N[x] = R[x])
  BY DEF PutIfVacant, Put
<1> HIDE DEF N, w, W, new
<1>6. IsFiniteSet(DOMAIN N)
  <2>1. IsFiniteSet(DOMAIN R)
    BY <1>4, FS_Subset DEF Sound
  <2> QED
    BY <2>1, <1>5, FS_AddElement
<1>7. \A x \in DOMAIN W : x \in Nat /\ x < r.next_id /\ IsPath(W[x].filename)
  BY <1>2, <1>3 DEF Sound
<1>8. \A x \in DOMAIN r.by_wd : r.by_wd[x] \in DOMAIN W /\ W[r.by_wd[x]].wd = x
  BY <1>2, <1>3 DEF Sound
<1>9. \A x \in DOMAIN N : N[x] \in DOMAIN W /\ W[N[x]].filename = x
  <2> SUFFICES ASSUME NEW x \in DOMAIN N PROVE N[x] \in DOMAIN W /\ W[N[x]].filename = x
    OBVIOUS
  <2>1. CASE N[x] = id /\ x = path
    BY <2>1, <1>2, <1>3
  <2>2. CASE x \in DOMAIN R /\ N[x] = R[x]
    <3>1. N[x] = r.by_filename[x] /\ N[x] # id /\ x \in DOMAIN r.by_filename
      BY <2>2, <1>4
    <3> QED
      BY <3>1, <1>2 DEF Sound
  <2> QED
    BY <2>1, <2>2, <1>5
<1>10. Sound(new)
  BY <1>1, <1>6, <1>7, <1>8, <1>9 DEF Sound
<1> QED
  BY <1>1, <1>2, <1>10 DEF new

(***************************************************************************)
(* The order of filenames.                                                 *)
(***************************************************************************)

\* s comes before t, because of the place i.
DiffersAt(s, t, i) ==
  /\ i \in Nat \ {0} /\ i <= Len(t) /\ i <= Len(s) + 1
  /\ \A j \in 1..(i - 1) : s[j] = t[j]
  /\ i <= Len(s) => s[i] < t[i]

\* What the order of filenames says.
LEMMA LexIs ==
  ASSUME NEW s \in Seq(Nat), NEW t \in Seq(Nat)
  PROVE  LexLess(s, t) <=> \E i : DiffersAt(s, t, i)
<1> DEFINE m == Len(s)
           n == Len(t)
           u == SubSeq(t, 1, m)
<1>1. m \in Nat /\ n \in Nat
  BY LenProperties
<1>2. m <= n => (u = s <=> \A j \in 1..m : s[j] = t[j])
  <2> SUFFICES ASSUME m <= n PROVE u = s <=> \A j \in 1..m : s[j] = t[j]
    OBVIOUS
  <2>1. \A i \in 1..m : t[i] \in Nat
    <3> SUFFICES ASSUME NEW i \in 1..m PROVE t[i] \in Nat
      OBVIOUS
    <3>1. i \in 1..Len(t)
      BY <1>1
    <3> QED
      BY <3>1, ElementOfSeq
  <2>2. u \in Seq(Nat) /\ Len(u) = m /\ \A i \in 1..m : u[i] = t[i]
    <3>1. /\ SubSeq(t, 1, m) \in Seq(Nat)
          /\ Len(SubSeq(t, 1, m)) = IF 1 <= m THEN m - 1 + 1 ELSE 0
          /\ \A i \in 1..(m - 1 + 1) : SubSeq(t, 1, m)[i] = t[1 + i - 1]
      <4> HIDE DEF u, n
      <4> QED
        BY <1>1, <2>1, SubSeqProperties
    <3>2. m - 1 + 1 = m /\ \A i \in 1..m : 1 + i - 1 = i
      BY <1>1
    <3> HIDE DEF m, n
    <3> QED
      BY <1>1, <3>1, <3>2
  <2> HIDE DEF u, n
  <2>3. ASSUME \A j \in 1..m : s[j] = t[j] PROVE u = s
    <3>1. Len(u) = Len(s) /\ \A j \in 1..Len(u) : u[j] = s[j]
      BY <2>2, <2>3
    <3> QED
      BY <3>1, <2>2, SeqEqual
  <2> QED
    BY <2>2, <2>3
<1>3. StartsWith(t, s) <=> m <= n /\ u = s
  BY DEF StartsWith
<1> DEFINE A == m < n /\ \A j \in 1..m : s[j] = t[j]
           B(i) == i \in 1..m /\ i <= n /\ s[i] < t[i] /\ \A j \in 1..(i - 1) : s[j] = t[j]
<1>4. LexLess(s, t) <=> A \/ \E i : B(i)
  <2> HIDE DEF u
  <2>1. m < n /\ StartsWith(t, s) <=> A
    BY <1>1, <1>2, <1>3
  <2> QED
    BY <2>1, Zenon DEF LexLess
<1> HIDE DEF m, n, u
<1>5. A <=> DiffersAt(s, t, m + 1)
  <2>1. /\ m + 1 \in Nat \ {0} /\ (m < n <=> m + 1 <= n) /\ m + 1 <= m + 1 /\ ~(m + 1 <= m)
        /\ (m + 1) - 1 = m
    BY <1>1
  <2> QED
    BY <2>1, Zenon DEF DiffersAt, m, n
<1>6. \A i : B(i) => DiffersAt(s, t, i)
  BY <1>1 DEF DiffersAt, m, n
<1>7. \A i : DiffersAt(s, t, i) /\ i # m + 1 => B(i)
  BY <1>1 DEF DiffersAt, m, n
<1> HIDE DEF A, B
<1> QED
  BY <1>4, <1>5, <1>6, <1>7, Zenon

\* The order is strict, transitive and total.
LEMMA LexOrder ==
  /\ \A s \in Seq(Nat) : ~LexLess(s, s)
  /\ \A s, t \in Seq(Nat) : s # t => LexLess(s, t) \/ LexLess(t, s)
  /\ \A s, t, u \in Seq(Nat) : LexLess(s, t) /\ LexLess(t, u) => LexLess(s, u)
<1>1. ASSUME NEW s \in Seq(Nat) PROVE ~LexLess(s, s)
  <2> SUFFICES ASSUME NEW i, DiffersAt(s, s, i) PROVE FALSE
    BY LexIs
  <2>1. i \in 1..Len(s) /\ s[i] < s[i]
    BY DEF DiffersAt
  <2>2. s[i] \in Nat
    BY <2>1, ElementOfSeq
  <2> QED
    BY <2>1, <2>2
<1>2. ASSUME NEW s \in Seq(Nat), NEW t \in Seq(Nat), s # t
      PROVE  LexLess(s, t) \/ LexLess(t, s)
  <2> DEFINE m == Len(s)
             n == Len(t)
             D == {i \in Nat \ {0} : /\ i <= m + 1 /\ i <= n + 1
                                     /\ i <= m /\ i <= n => s[i] # t[i]}
  <2>1. m \in Nat /\ n \in Nat
    BY LenProperties
  <2>2. /\ \A i \in 1..m : s[i] \in Nat
        /\ \A i \in 1..n : t[i] \in Nat
    BY ElementOfSeq
  <2>3. D # {}
    <3>1. m <= n => m + 1 \in D
      BY <2>1
    <3>2. n <= m => n + 1 \in D
      BY <2>1
    <3>3. m <= n \/ n <= m
      BY <2>1
    <3> HIDE DEF m, n, D
    <3> QED
      BY <3>1, <3>2, <3>3
  <2>4. D \in SUBSET Nat
    OBVIOUS
  <2>5. PICK i \in D : \A k \in D : i <= k
    <3> HIDE DEF D
    <3> QED
      BY <2>3, <2>4, NatMin
  <2>6. ASSUME NEW j \in 1..(i - 1) PROVE s[j] = t[j]
    <3>1. j \in Nat \ {0} /\ j <= m + 1 /\ j <= n + 1 /\ j < i
      BY <2>1
    <3>2. j \notin D
      BY <2>5, <3>1
    <3> QED
      BY <3>1, <3>2
  <2>7. i \in Nat \ {0} /\ i <= m + 1 /\ i <= n + 1 /\ (i <= m /\ i <= n => s[i] # t[i])
    OBVIOUS
  <2> HIDE DEF D
  <2>8. CASE i <= m /\ i <= n
    <3>1. s[i] < t[i] \/ t[i] < s[i]
      <4>1. i \in 1..m /\ i \in 1..n
        BY <2>1, <2>7, <2>8
      <4>2. s[i] \in Nat /\ t[i] \in Nat /\ s[i] # t[i]
        BY <4>1, <2>2, <2>7, <2>8
      <4> QED
        BY <4>2
    <3>2. DiffersAt(s, t, i) \/ DiffersAt(t, s, i)
      BY <2>6, <2>7, <2>8, <3>1 DEF DiffersAt
    <3> QED
      BY <3>2, LexIs
  <2>9. CASE ~(i <= m) /\ i <= n
    <3>1. DiffersAt(s, t, i)
      BY <2>6, <2>7, <2>9 DEF DiffersAt
    <3> QED
      BY <3>1, LexIs
  <2>10. CASE i <= m /\ ~(i <= n)
    <3>1. DiffersAt(t, s, i)
      BY <2>6, <2>7, <2>10 DEF DiffersAt
    <3> QED
      BY <3>1, LexIs
  <2>11. CASE ~(i <= m) /\ ~(i <= n)
    <3>1. m = n /\ i - 1 = m
      BY <2>1, <2>7, <2>11
    <3>2. \A j \in 1..m : s[j] = t[j]
      BY <2>6, <3>1
    <3>3. s = t
      BY <3>1, <3>2, SeqEqual
    <3> QED
      BY <3>3, <1>2
  <2> QED
    BY <2>8, <2>9, <2>10, <2>11
<1>3. ASSUME NEW s \in Seq(Nat), NEW t \in Seq(Nat), NEW u \in Seq(Nat),
             LexLess(s, t), LexLess(t, u)
      PROVE  LexLess(s, u)
  <2>1. PICK i : DiffersAt(s, t, i)
    BY <1>3, LexIs
  <2>2. PICK k : DiffersAt(t, u, k)
    BY <1>3, LexIs
  <2> DEFINE l == Len(s)
             m == Len(t)
             n == Len(u)
  <2>3. /\ l \in Nat /\ m \in Nat /\ n \in Nat
        /\ \A j \in 1..l : s[j] \in Nat
        /\ \A j \in 1..m : t[j] \in Nat
        /\ \A j \in 1..n : u[j] \in Nat
    BY LenProperties, ElementOfSeq
  <2>4. /\ i \in Nat \ {0} /\ i <= m /\ i <= l + 1
        /\ \A j \in 1..(i - 1) : s[j] = t[j]
        /\ i <= l => s[i] < t[i]
    BY <2>1 DEF DiffersAt
  <2>5. /\ k \in Nat \ {0} /\ k <= n /\ k <= m + 1
        /\ \A j \in 1..(k - 1) : t[j] = u[j]
        /\ k <= m => t[k] < u[k]
    BY <2>2 DEF DiffersAt
  <2> HIDE DEF l, m, n
  <2>6. CASE i < k
    <3>1. i \in 1..(k - 1) /\ i <= n /\ \A j \in 1..(i - 1) : j \in 1..(k - 1)
      BY <2>3, <2>4, <2>5, <2>6
    <3>2. t[i] = u[i] /\ \A j \in 1..(i - 1) : s[j] = u[j]
      BY <2>4, <2>5, <3>1
    <3>3. DiffersAt(s, u, i)
      BY <2>4, <3>1, <3>2 DEF DiffersAt, l, n
    <3> QED
      BY <3>3, LexIs
  <2>7. CASE ~(i < k)
    <3>1. k <= i /\ k <= m /\ k <= l + 1 /\ \A j \in 1..(k - 1) : j \in 1..(i - 1)
      BY <2>3, <2>4, <2>5, <2>7
    <3>2. \A j \in 1..(k - 1) : s[j] = u[j]
      BY <2>4, <2>5, <3>1
    <3>3. ASSUME k <= l PROVE s[k] < u[k]
      <4>1. k \in 1..l /\ k \in 1..m /\ k \in 1..n
        BY <2>3, <2>5, <3>1, <3>3
      <4>2. s[k] \in Nat /\ t[k] \in Nat /\ u[k] \in Nat /\ t[k] < u[k]
        BY <4>1, <2>3, <2>5, <3>1
      <4>3. CASE k = i
        <5>1. s[k] < t[k]
          BY <4>3, <2>4, <3>3
        <5> QED
          BY <5>1, <4>2
      <4>4. CASE k # i
        <5>1. k \in 1..(i - 1)
          BY <4>4, <2>4, <2>5, <3>1
        <5> QED
          BY <5>1, <4>2, <2>4
      <4> QED
        BY <4>3, <4>4
    <3>4. DiffersAt(s, u, k)
      BY <2>5, <3>1, <3>2, <3>3 DEF DiffersAt, l, n
    <3> QED
      BY <3>4, LexIs
  <2> QED
    BY <2>6, <2>7
<1> QED
  BY <1>1, <1>2, <1>3

\* Paths are sequences of numbers.
LEMMA PathsAreLists ==
  ASSUME NEW p, IsPath(p)
  PROVE  /\ p \in Seq(Nat) /\ p \in Seq(Alphabet) /\ Len(p) \in Nat \ {0} /\ p[1] = RootName
         /\ \A k \in 2..Len(p) : p[k] \in Names
<1>1. p \in Seq(Alphabet) /\ p # << >>
  BY DEF IsPath, Alphabet
<1>2. Alphabet \subseteq Nat
  BY RecursiveNamesAssumption DEF Alphabet, RootName
<1> QED
  BY <1>1, <1>2, EmptySeq, SeqMonotonic DEF IsPath

\* Every number of a watch, in the order of the names, has a name.
LEMMA NthName ==
  ASSUME NEW T, IsFiniteSet(T), \A p \in T : IsPath(p), NEW k \in 1..Cardinality(T)
  PROVE  \E x \in T : Cardinality({m \in T : LexLess(m, x)}) = k - 1
<1> DEFINE R == {p \in T \X T : LexLess(p[1], p[2])}
<1>1. \A p \in T : p \in Seq(Nat)
  BY PathsAreLists
<1>2. \A x, y \in T : <<x, y>> \in R <=> LexLess(x, y)
  OBVIOUS
<1> HIDE DEF R
<1>3. StrictOrder(R, T)
  BY <1>1, <1>2, LexOrder DEF StrictOrder
<1>4. PICK x \in T : Cardinality({m \in T : <<m, x>> \in R}) = k - 1
  BY <1>3, RankExists
<1>5. {m \in T : <<m, x>> \in R} = {m \in T : LexLess(m, x)}
  BY <1>2
<1> QED
  BY <1>4, <1>5

(***************************************************************************)
(* Renames.                                                                *)
(***************************************************************************)

\* A path under the old name becomes one under the new name.
LEMMA RenamedPath ==
  ASSUME NEW cur, NEW old, NEW new, IsPath(cur), IsPath(old), IsPath(new), StartsWith(cur, old)
  PROVE  IsPath(new \o SubSeq(cur, Len(old) + 1, Len(cur)))
<1> DEFINE l == Len(cur)
           m == Len(old)
           n == Len(new)
           rest == SubSeq(cur, m + 1, l)
           p == new \o rest
<1>1. /\ l \in Nat \ {0} /\ m \in Nat \ {0} /\ n \in Nat \ {0} /\ new \in Seq(Alphabet)
      /\ \A k \in 2..l : cur[k] \in Names
      /\ \A k \in 2..n : new[k] \in Names
      /\ new[1] = RootName
  BY PathsAreLists
<1>2. m <= l
  BY DEF StartsWith
<1>3. \A i \in (m + 1)..l : cur[i] \in Names
  <2> HIDE DEF l, m
  <2> QED
    BY <1>1, <1>2
<1>4. /\ rest \in Seq(Names) /\ Len(rest) = l - m
      /\ \A i \in 1..(l - m) : rest[i] = cur[m + i]
  <2> HIDE DEF l, m
  <2>1. m + 1 \in Int /\ l \in Int
    BY <1>1
  <2>2. /\ rest \in Seq(Names) /\ Len(rest) = IF m + 1 <= l THEN l - (m + 1) + 1 ELSE 0
        /\ \A i \in 1..(l - (m + 1) + 1) : rest[i] = cur[(m + 1) + i - 1]
    BY <2>1, <1>3, SubSeqProperties
  <2>3. l - (m + 1) + 1 = l - m /\ (IF m + 1 <= l THEN l - (m + 1) + 1 ELSE 0) = l - m
    BY <1>1, <1>2
  <2>4. \A i \in 1..(l - m) : (m + 1) + i - 1 = m + i
    BY <1>1
  <2> HIDE DEF rest
  <2> QED
    BY <2>2, <2>3, <2>4
<1>5. rest \in Seq(Alphabet)
  <2> HIDE DEF rest
  <2>1. Names \subseteq Alphabet
    BY DEF Alphabet
  <2> QED
    BY <1>4, <2>1, SeqMonotonic
<1> HIDE DEF rest, l, m
<1>6. /\ p \in Seq(Alphabet) /\ Len(p) = n + Len(rest)
      /\ \A i \in 1..(n + Len(rest)) : p[i] = IF i <= n THEN new[i] ELSE rest[i - n]
  BY <1>1, <1>5, ConcatProperties
<1>7. Len(rest) \in Nat /\ \A i \in 1..Len(rest) : rest[i] \in Names
  BY <1>4, LenProperties, ElementOfSeq
<1> HIDE DEF n, p
<1>8. p # << >> /\ p[1] = RootName
  <2>1. 1 \in 1..(n + Len(rest)) /\ 1 <= n /\ n + Len(rest) # 0
    BY <1>1, <1>7
  <2>2. p[1] = RootName
    BY <2>1, <1>1, <1>6
  <2> QED
    BY <2>1, <2>2, <1>6
<1>9. ASSUME NEW k \in 2..Len(p) PROVE p[k] \in Names
  <2>1. k \in 1..(n + Len(rest))
    BY <1>1, <1>6, <1>7
  <2>2. CASE k <= n
    <3>1. k \in 2..n
      BY <1>1, <2>1, <2>2
    <3> QED
      BY <3>1, <2>1, <2>2, <1>1, <1>6
  <2>3. CASE ~(k <= n)
    <3>1. k - n \in 1..Len(rest)
      BY <1>1, <1>7, <2>1, <2>3
    <3> QED
      BY <3>1, <2>1, <2>3, <1>6, <1>7
  <2> QED
    BY <2>2, <2>3
<1> QED
  BY <1>6, <1>8, <1>9 DEF IsPath, Alphabet, p, rest, l, m

\* The names in their order, and the visit of a watch by replace_filename.
NameList(filed) ==
  [k \in 1..Cardinality(filed) |->
     CHOOSE n \in filed : Cardinality({m \in filed : LexLess(m, n)}) = k - 1]
VisitOf(r, id, old, new) ==
  IF StartsWith(r.watches[id].filename, old) /\ r.watches[id].filename # new
    THEN RenameWatch(r, id, new \o SubSeq(r.watches[id].filename, Len(old) + 1, Len(r.watches[id].filename)))
    ELSE r

\* after gives what the registry is after each visit.
Visits(after, list, old, new) ==
  after = [k \in 0..Len(list) |->
             IF k = 0 THEN {reg}
             ELSE {VisitOf(r, reg.by_filename[list[k]], old, new) : r \in after[k - 1]}]

\* replace_filename visits the watches by name.
LEMMA ReplacedIs ==
  ASSUME NEW old, NEW new
  PROVE  Replaced(old, new) =
           IF new = << >> THEN {reg}
           ELSE (CHOOSE after : Visits(after, NameList(DOMAIN reg.by_filename), old, new))
                  [Len(NameList(DOMAIN reg.by_filename))]
BY Zenon DEF Replaced, Visits, VisitOf, NameList

\* The visits of a list can be made one after the other.
LEMMA VisitsExist ==
  ASSUME NEW list, Len(list) \in Nat, NEW old, NEW new
  PROVE  \E f : Visits(f, list, old, new)
<1> DEFINE n == Len(list)
           Step(R, k) == {VisitOf(r, reg.by_filename[list[k]], old, new) : r \in R}
           Good(f, m) == DOMAIN f = 0..m /\ f[0] = {reg} /\ \A k \in 1..m : f[k] = Step(f[k - 1], k)
           S == {m \in Nat : \E f : Good(f, m)}
<1> HIDE DEF Step
<1>1. 0 \in S
  <2>1. Good([k \in 0..0 |-> {reg}], 0)
    OBVIOUS
  <2> QED
    BY <2>1
<1>2. ASSUME NEW m \in Nat, m \in S PROVE m + 1 \in S
  <2>1. PICK g : Good(g, m)
    BY <1>2
  <2> DEFINE f == [k \in 0..(m + 1) |-> IF k = m + 1 THEN Step(g[m], m + 1) ELSE g[k]]
  <2>2. DOMAIN f = 0..(m + 1) /\ f[0] = {reg}
    BY <2>1
  <2>3. ASSUME NEW k \in 1..(m + 1) PROVE f[k] = Step(f[k - 1], k)
    <3>1. CASE k = m + 1
      <4>1. f[k] = Step(g[m], m + 1) /\ f[k - 1] = g[m]
        BY <3>1
      <4> QED
        BY <4>1, <3>1
    <3>2. CASE k # m + 1
      <4>1. k \in 1..m /\ k - 1 \in 0..m
        BY <3>2
      <4>2. f[k] = g[k] /\ f[k - 1] = g[k - 1]
        BY <3>2, <4>1
      <4> QED
        BY <4>1, <4>2, <2>1
    <3> QED
      BY <3>1, <3>2
  <2>4. Good(f, m + 1)
    BY <2>2, <2>3
  <2>6. m + 1 \in Nat
    OBVIOUS
  <2> HIDE DEF f
  <2>5. \E e : Good(e, m + 1)
    BY <2>4, Zenon
  <2> QED
    BY <2>5, <2>6
<1> HIDE DEF S
<1>3. n \in S
  BY <1>1, <1>2, NatSetInduction
<1>4. PICK f : Good(f, n)
  BY <1>3 DEF S
<1> DEFINE e == [k \in 0..n |-> f[k]]
<1>5. \A k \in 0..n : e[k] = IF k = 0 THEN {reg} ELSE Step(e[k - 1], k)
  <2> SUFFICES ASSUME NEW k \in 0..n PROVE e[k] = IF k = 0 THEN {reg} ELSE Step(e[k - 1], k)
    OBVIOUS
  <2>1. CASE k = 0
    BY <1>4, <2>1
  <2>2. CASE k # 0
    <3>1. k \in 1..n /\ k - 1 \in 0..n
      BY <2>2
    <3>2. e[k] = f[k] /\ e[k - 1] = f[k - 1]
      BY <3>1
    <3> QED
      BY <2>2, <3>1, <3>2, <1>4
  <2> QED
    BY <2>1, <2>2
<1>6. e = [k \in 0..n |-> IF k = 0 THEN {reg} ELSE Step(e[k - 1], k)]
  <2>1. e = [k \in 0..n |-> e[k]]
    OBVIOUS
  <2> HIDE DEF e
  <2> QED
    BY <2>1, <1>5, Zenon
<1> HIDE DEF e
<1>7. Visits(e, list, old, new)
  BY <1>6, Zenon DEF Visits, Step, n
<1> QED
  BY <1>7

\* The watches filed are visited one after the other, each once; after gives
\* what the registry is after each visit.
Visited(R, name, old, new) == {VisitOf(r, reg.by_filename[name], old, new) : r \in R}
Replacing(after, list, old, new) ==
  LET filed == DOMAIN reg.by_filename
      c == Cardinality(filed)
  IN  /\ list \in [1..c -> filed]
      /\ \A i, j \in 1..c : list[i] = list[j] => i = j
      /\ \A f \in filed : \E i \in 1..c : list[i] = f
      /\ after[0] = {reg} /\ \A k \in 1..c : after[k] = Visited(after[k - 1], list[k], old, new)
      /\ Replaced(old, new) = after[c]

\* A list that gives each element of a set a number of its own gives all.
LEMMA Numbered ==
  ASSUME NEW T, IsFiniteSet(T), NEW c, c = Cardinality(T), NEW list \in [1..c -> T],
         \A i, j \in 1..c : list[i] = list[j] => i = j
  PROVE  \A x \in T : \E i \in 1..c : list[i] = x
<1>1. c \in Nat
  BY FS_CardinalityType
<1>2. list \in Injection(1..c, T)
  <2>1. list \in [1..c -> T] /\ \A i, j \in 1..c : i # j => list[i] # list[j]
    OBVIOUS
  <2> QED
    BY <2>1 DEF Injection, IsInjective
<1>3. IsFiniteSet(1..c) /\ Cardinality(1..c) = c
  BY <1>1, FS_Interval
<1>4. list \in Surjection(1..c, T)
  BY <1>2, <1>3, FS_Injection
<1> QED
  BY <1>4 DEF Surjection

\* replace_filename visits every watch once.
LEMMA ReplacingExists ==
  ASSUME Sound(reg), NEW old, NEW new, new # << >>
  PROVE  \E after, list : Replacing(after, list, old, new)
<1> DEFINE filed == DOMAIN reg.by_filename
           list == NameList(filed)
           c == Cardinality(filed)
           after == CHOOSE f : Visits(f, list, old, new)
<1>1. IsFiniteSet(filed) /\ c \in Nat /\ \A p \in filed : IsPath(p)
  BY FS_CardinalityType DEF Sound
<1>2. ASSUME NEW k \in 1..c
      PROVE  list[k] \in filed /\ Cardinality({m \in filed : LexLess(m, list[k])}) = k - 1
  <2> HIDE DEF filed
  <2>1. \E y \in filed : Cardinality({m \in filed : LexLess(m, y)}) = k - 1
    BY <1>1, NthName
  <2>2. list[k] = CHOOSE y \in filed : Cardinality({m \in filed : LexLess(m, y)}) = k - 1
    BY DEF NameList
  <2> QED
    BY <2>1, <2>2, Zenon
<1>3. list \in [1..c -> filed]
  <2>1. list = [k \in 1..c |-> list[k]]
    <3> DEFINE nth(k) == CHOOSE n \in filed : Cardinality({m \in filed : LexLess(m, n)}) = k - 1
               w == [k \in 1..c |-> nth(k)]
    <3>1. list = w
      BY Zenon DEF NameList
    <3> HIDE DEF nth
    <3>2. w = [k \in 1..c |-> w[k]]
      OBVIOUS
    <3> HIDE DEF w, list
    <3> QED
      BY <3>1, <3>2
  <2> HIDE DEF list, filed, c
  <2> QED
    BY <2>1, <1>2
<1>4. Len(list) = c
  <2> HIDE DEF list, filed, c
  <2> QED
    BY <1>1, <1>3, ListIsSeq
<1>5. \A i, j \in 1..c : list[i] = list[j] => i = j
  <2> SUFFICES ASSUME NEW i \in 1..c, NEW j \in 1..c, list[i] = list[j] PROVE i = j
    OBVIOUS
  <2> HIDE DEF list, filed, c
  <2>1. i - 1 = j - 1
    BY <1>2
  <2> QED
    BY <1>1, <2>1
<1>6. \A f \in filed : \E i \in 1..c : list[i] = f
  <2> HIDE DEF list, filed
  <2> QED
    BY <1>1, <1>3, <1>5, Numbered
<1>7. Replaced(old, new) = after[c]
  BY <1>4, ReplacedIs
<1>8. Visits(after, list, old, new)
  <2> HIDE DEF list
  <2>1. \E f : Visits(f, list, old, new)
    BY <1>1, <1>4, VisitsExist
  <2> QED
    BY <2>1, Zenon
<1>9. after[0] = {reg} /\ \A k \in 1..c : after[k] = Visited(after[k - 1], list[k], old, new)
  <2> DEFINE w == [k \in 0..c |-> IF k = 0 THEN {reg} ELSE Visited(after[k - 1], list[k], old, new)]
  <2>1. after = w
    <3> HIDE DEF after, list
    <3> QED
      BY <1>4, <1>8, Zenon DEF Visits, Visited
  <2> HIDE DEF after, list
  <2>2. w[0] = {reg} /\ \A k \in 1..c : w[k] = Visited(after[k - 1], list[k], old, new)
    BY <1>1
  <2> HIDE DEF w
  <2> QED
    BY <2>1, <2>2
<1>10. Replacing(after, list, old, new)
  <2> HIDE DEF after, list
  <2> QED
    BY <1>3, <1>5, <1>6, <1>7, <1>9 DEF Replacing
<1> HIDE DEF after, list
<1> QED
  BY <1>10

\* replace_filename keeps the registry sound.
LEMMA ReplacedSound ==
  ASSUME Sound(reg), NEW old, IsPath(old), NEW new, new = << >> \/ IsPath(new),
         NEW x \in Replaced(old, new)
  PROVE  Sound(x)
<1>1. CASE new = << >>
  BY <1>1, ReplacedIs
<1>2. CASE new # << >>
  <2> DEFINE filed == DOMAIN reg.by_filename
             c == Cardinality(filed)
  <2>1. PICK after, list : Replacing(after, list, old, new)
    BY <1>2, ReplacingExists
  <2>2. c \in Nat
    BY FS_CardinalityType DEF Sound
  <2>3. /\ list \in [1..c -> filed] /\ after[0] = {reg} /\ x \in after[c]
        /\ \A k \in 1..c : after[k] = Visited(after[k - 1], list[k], old, new)
    BY <2>1 DEF Replacing
  <2> HIDE DEF c
  <2> DEFINE Fine(r) == Sound(r) /\ DOMAIN r.watches = DOMAIN reg.watches
             T == {k \in Nat : k <= c => \A r \in after[k] : Fine(r)}
  <2>4. 0 \in T
    BY <2>3
  <2>5. ASSUME NEW k \in Nat, k \in T PROVE k + 1 \in T
    <3> SUFFICES ASSUME k + 1 <= c, NEW y \in after[k + 1] PROVE Fine(y)
      OBVIOUS
    <3>1. k + 1 \in 1..c /\ (k + 1) - 1 = k /\ k <= c
      BY <2>2
    <3> DEFINE id == reg.by_filename[list[k + 1]]
    <3>2. y \in Visited(after[k], list[k + 1], old, new)
      BY <2>3, <3>1
    <3>3. PICK r \in after[k] : y = VisitOf(r, id, old, new)
      BY <3>2 DEF Visited
    <3>4. Fine(r)
      BY <3>1, <2>5
    <3>5. id \in DOMAIN r.watches
      <4>1. list[k + 1] \in filed
        BY <3>1, <2>3
      <4> QED
        BY <4>1, <3>4 DEF Sound
    <3> DEFINE cur == r.watches[id].filename
               to == new \o SubSeq(cur, Len(old) + 1, Len(cur))
    <3>6. IsPath(cur)
      BY <3>4, <3>5 DEF Sound
    <3>7. CASE StartsWith(cur, old) /\ cur # new
      <4>1. IsPath(to)
        <5> HIDE DEF cur
        <5> QED
          BY <1>2, <3>6, <3>7, RenamedPath DEF to
      <4>2. y = RenameWatch(r, id, to)
        BY <3>3, <3>7, Zenon DEF VisitOf
      <4> HIDE DEF id, to
      <4>3. Sound(y) /\ DOMAIN y.watches = DOMAIN r.watches
        BY <3>4, <3>5, <4>1, <4>2, RenameSound
      <4> QED
        BY <4>3, <3>4
    <3>8. CASE ~(StartsWith(cur, old) /\ cur # new)
      <4>1. y = r
        BY <3>3, <3>8, Zenon DEF VisitOf
      <4> QED
        BY <4>1, <3>4
    <3> QED
      BY <3>7, <3>8
  <2> HIDE DEF T
  <2>6. c \in T /\ c <= c
    BY <2>2, <2>4, <2>5, NatSetInduction
  <2> QED
    BY <2>3, <2>6 DEF T
<1> QED
  BY <1>1, <1>2

(***************************************************************************)
(* The directories above one.                                              *)
(***************************************************************************)
ParentIn(l, x) == IF x \in Dirs THEN l[x][1] ELSE x
ParentsIn(l) == [x \in Dirs \cup Places |-> ParentIn(l, x)]
Climbs(up, l, d) ==
  up = [k \in 0..Cardinality(Dirs) |-> IF k = 0 THEN d ELSE ParentsIn(l)[up[k - 1]]]
AboveIn(l, d) == {(CHOOSE up : Climbs(up, l, d))[k] : k \in 0..Cardinality(Dirs)}

\* Above is the operator in the present tree.
LEMMA AboveNow ==
  ASSUME NEW d
  PROVE  Above(d) = AboveIn(loc, d)
BY Zenon DEF Above, AboveIn, Climbs, ParentsIn, ParentIn, Parent

\* up goes up from d, step by step.
IsClimb(up, l, d) ==
  /\ up \in [0..Cardinality(Dirs) -> Nodes]
  /\ up[0] = d /\ AboveIn(l, d) = {up[k] : k \in 0..Cardinality(Dirs)}
  /\ \A k \in 1..Cardinality(Dirs) : up[k] = ParentIn(l, up[k - 1])

\* From every directory one can go up.
LEMMA Climb ==
  ASSUME NEW l \in [Dirs -> Locations], NEW d \in Nodes
  PROVE  \E up : IsClimb(up, l, d)
<1> DEFINE c == Cardinality(Dirs)
           V == Nodes
           P == ParentsIn(l)
           h == [k \in 1..c |-> P]
<1>1. c \in Nat
  BY PlacesAssumption, FS_CardinalityType
<1>2. P \in [V -> V] /\ \A x \in V : P[x] = ParentIn(l, x)
  BY DEF ParentsIn, ParentIn, Nodes, Places, Locations
<1> HIDE DEF P, c, V
<1>3. h \in [1..c -> [V -> V]] /\ \A k \in 1..c : h[k] = P
  BY <1>2
<1> HIDE DEF h
<1>4. d \in V
  BY DEF V
<1>5. \E g : Iterates(g, c, V, d, h)
  BY <1>1, <1>3, <1>4, RecursionExists
<1>6. PICK g \in [0..c -> V] : g[0] = d /\ \A k \in 1..c : g[k] = P[g[k - 1]]
  BY <1>3, <1>5 DEF Iterates
<1>7. Climbs(g, l, d)
  <2>1. \A k \in 0..c : g[k] = IF k = 0 THEN d ELSE P[g[k - 1]]
    BY <1>1, <1>6
  <2>2. g = [k \in 0..c |-> IF k = 0 THEN d ELSE P[g[k - 1]]]
    BY <1>6, <2>1
  <2> QED
    BY <2>2 DEF Climbs, P, c
<1> DEFINE up == CHOOSE x : Climbs(x, l, d)
<1>8. Climbs(up, l, d)
  BY <1>7, Zenon
<1>9. AboveIn(l, d) = {up[k] : k \in 0..c}
  BY DEF AboveIn, c
<1> HIDE DEF up
<1>10. up = [k \in 0..c |-> IF k = 0 THEN d ELSE P[up[k - 1]]]
  BY <1>8 DEF Climbs, P, c
<1>11. up[0] = d /\ \A k \in 1..c : up[k] = P[up[k - 1]]
  <2>1. \A k \in 0..c : up[k] = IF k = 0 THEN d ELSE P[up[k - 1]]
    BY <1>10
  <2> QED
    BY <1>1, <2>1
<1> DEFINE T == {k \in Nat : k <= c => up[k] \in V}
<1>12. 0 \in T
  BY <1>4, <1>11
<1>13. ASSUME NEW k \in Nat, k \in T PROVE k + 1 \in T
  <2> SUFFICES ASSUME k + 1 <= c PROVE up[k + 1] \in V
    OBVIOUS
  <2>1. k + 1 \in 1..c /\ (k + 1) - 1 = k /\ up[k] \in V
    BY <1>1, <1>13
  <2>2. up[k + 1] = P[up[k]]
    BY <1>11, <2>1
  <2> QED
    BY <1>2, <2>1, <2>2
<1> HIDE DEF T
<1>14. Nat \subseteq T
  BY <1>12, <1>13, NatSetInduction
<1>15. \A k \in 0..c : up[k] \in V
  BY <1>1, <1>14 DEF T
<1>16. up \in [0..c -> V]
  BY <1>10, <1>15
<1>17. \A k \in 1..c : up[k] = ParentIn(l, up[k - 1])
  <2> SUFFICES ASSUME NEW k \in 1..c PROVE up[k] = ParentIn(l, up[k - 1])
    OBVIOUS
  <2>1. k - 1 \in 0..c
    BY <1>1
  <2> QED
    BY <1>2, <1>11, <1>15, <2>1
<1> QED
  BY <1>9, <1>11, <1>16, <1>17 DEF IsClimb, c, V

\* A place that is not a directory is above itself only.
LEMMA PlaceStays ==
  ASSUME NEW l, NEW d, NEW up, IsClimb(up, l, d), NEW k \in 0..Cardinality(Dirs), up[k] \notin Dirs
  PROVE  \A j \in k..Cardinality(Dirs) : up[j] = up[k]
<1> DEFINE c == Cardinality(Dirs)
<1>1. c \in Nat
  BY PlacesAssumption, FS_CardinalityType
<1>2. \A j \in 1..c : up[j] = ParentIn(l, up[j - 1])
  BY DEF IsClimb
<1> HIDE DEF c
<1>a. k \in 0..c
  BY DEF c
<1> DEFINE T == {i \in Nat : k + i <= c => up[k + i] = up[k]}
<1>3. 0 \in T
  BY <1>a
<1>4. ASSUME NEW i \in Nat, i \in T PROVE i + 1 \in T
  <2> SUFFICES ASSUME k + (i + 1) <= c PROVE up[k + (i + 1)] = up[k]
    OBVIOUS
  <2>1. k + (i + 1) \in 1..c /\ (k + (i + 1)) - 1 = k + i /\ k + i <= c
    BY <1>a, <1>1
  <2>2. up[k + (i + 1)] = ParentIn(l, up[k + i]) /\ up[k + i] = up[k]
    <3>1. up[k + i] = up[k]
      BY <1>4, <2>1
    <3> QED
      BY <1>2, <2>1, <3>1
  <2> QED
    BY <2>2 DEF ParentIn
<1> HIDE DEF T
<1>5. Nat \subseteq T
  BY <1>3, <1>4, NatSetInduction
<1>6. ASSUME NEW j \in k..c PROVE up[j] = up[k]
  <2>1. j - k \in Nat /\ k + (j - k) = j /\ k + (j - k) <= c
    BY <1>a, <1>1
  <2>2. j - k \in T
    BY <1>5, <2>1
  <2> QED
    BY <2>1, <2>2 DEF T
<1> QED
  BY <1>6 DEF c

\* Above a directory of the tree are directories and the root.
LEMMA AboveInTree ==
  ASSUME NEW l \in [Dirs -> Locations], NEW d \in Dirs, Root \in AboveIn(l, d)
  PROVE  AboveIn(l, d) \subseteq Dirs \cup {Root} /\ l[d][1] \in Dirs \cup {Root}
<1> DEFINE c == Cardinality(Dirs)
<1>1. c \in Nat \ {0}
  BY PlacesAssumption, FS_CardinalityType, FS_EmptySet
<1>2. PICK up : IsClimb(up, l, d)
  BY Climb DEF Nodes
<1>3. /\ up \in [0..c -> Nodes] /\ up[0] = d /\ AboveIn(l, d) = {up[k] : k \in 0..c}
      /\ \A k \in 1..c : up[k] = ParentIn(l, up[k - 1])
  BY <1>2 DEF IsClimb
<1>4. \A k \in 0..c : up[k] \notin Dirs => \A j \in k..c : up[j] = up[k]
  BY <1>2, PlaceStays
<1> HIDE DEF c
<1>5. PICK m \in 0..c : up[m] = Root
  BY <1>3
<1>6. Root \notin Dirs
  BY PlacesAssumption DEF Places
<1>7. ASSUME NEW k \in 0..c PROVE up[k] \in Dirs \cup {Root}
  <2> SUFFICES ASSUME up[k] \notin Dirs PROVE up[k] = Root
    OBVIOUS
  <2>1. m \in k..c \/ k \in m..c
    BY <1>1
  <2> QED
    BY <1>4, <1>5, <1>6, <2>1
<1>8. l[d][1] = up[1] /\ 1 \in 0..c
  <2>1. 1 \in 1..c /\ 1 - 1 = 0
    BY <1>1
  <2>2. up[1] = ParentIn(l, d)
    BY <1>3, <2>1
  <2> QED
    BY <2>1, <2>2 DEF ParentIn
<1> QED
  BY <1>3, <1>7, <1>8

(***************************************************************************)
(* Type correctness.                                                       *)
(***************************************************************************)
Calls ==
  {f \in [path : Seq(Names \cup {RootName}), opened : BOOLEAN, todo : SUBSET Names] : IsPath(f.path)}

\* What the kernel keeps.
KernelOK(km, kn, q) ==
  /\ DOMAIN km \subseteq Dirs \cup {Root} /\ kn \in Nat \ {0}
  /\ \A d \in DOMAIN km : km[d] \in 1..(kn - 1)
  /\ q \in Seq(KernelEvents)

\* The inductive invariant.
TypeInv ==
  /\ loc \in [Dirs -> Locations] /\ ops \in Nat /\ mode \in Modes
  /\ KernelOK(kmarks, knext, kq) /\ late \in [Dirs -> Seq(Notices)]
  /\ Sound(reg)
  /\ moved_from = << >> \/ moved_from \in DOMAIN reg.by_filename
  /\ scan \in Seq(Calls)

\* The invariant says what the type invariant says.
LEMMA TypeFollows == TypeInv => TypeOK
<1> SUFFICES ASSUME TypeInv PROVE TypeOK
  OBVIOUS
<1> DEFINE F == [path : Seq(Names \cup {RootName}), opened : BOOLEAN, todo : SUBSET Names]
<1>1. scan \in Seq(F) /\ \A k \in 1..Len(scan) : IsPath(scan[k].path)
  <2>1. scan \in Seq(Calls) /\ Calls \subseteq F /\ \A c \in Calls : IsPath(c.path)
    BY DEF TypeInv, Calls
  <2> HIDE DEF F
  <2>2. \A k \in 1..Len(scan) : scan[k] \in Calls
    BY <2>1, ElementOfSeq
  <2> QED
    BY <2>1, <2>2, SeqMonotonic
<1>2. \A n \in DOMAIN reg.by_filename : IsPath(n)
  BY FiledByPaths DEF TypeInv
<1> QED
  BY <1>1, <1>2 DEF TypeOK, TypeInv, KernelOK

\* The first event, and the ones after it.
LEMMA FirstEvent ==
  ASSUME NEW q \in Seq(KernelEvents), q # << >>
  PROVE  /\ Head(q) \in KernelEvents /\ Tail(q) \in Seq(KernelEvents)
         /\ Head(q).wd \in Nat \ {0} /\ Head(q).name \in Names \cup {0}
         /\ Head(q).kind # "other" => Head(q).name \in Names
<1>1. Head(q) \in KernelEvents /\ Tail(q) \in Seq(KernelEvents)
  BY HeadTailProperties
<1> QED
  BY <1>1 DEF KernelEvents

\* The events of a directory.
LEMMA EventType ==
  ASSUME NEW wd \in Nat \ {0}, NEW kind \in {"create", "moved_from", "moved_to", "other"},
         NEW n \in Names \cup {0}, kind # "other" => n # 0
  PROVE  Event(wd, kind, n) \in KernelEvents /\ <<Event(wd, kind, n)>> \in Seq(KernelEvents)
<1>1. Event(wd, kind, n) \in KernelEvents
  BY DEF Event, KernelEvents
<1> HIDE DEF Event
<1> QED
  BY <1>1

\* What the kernel queues for a directory are events.
LEMMA OnDirType ==
  ASSUME KernelOK(kmarks, knext, kq), NEW d,
         NEW kind \in {"create", "moved_from", "moved_to", "other"}, NEW n,
         d \in DOMAIN kmarks => n \in Names \cup {0} /\ (kind # "other" => n # 0)
  PROVE  OnDir(d, kind, n) \in Seq(KernelEvents)
<1>1. CASE d \in DOMAIN kmarks
  <2>1. kmarks[d] \in Nat \ {0}
    BY <1>1 DEF KernelOK
  <2> QED
    BY <1>1, <2>1, EventType DEF OnDir
<1>2. CASE d \notin DOMAIN kmarks
  BY <1>2, EmptySeq DEF OnDir
<1> QED
  BY <1>1, <1>2

\* What the kernel has still to tell are notices.
LEMMA NoticeType ==
  ASSUME NEW x \in Dirs \cup {Root}, NEW kind \in {"create", "moved_from", "moved_to", "other"},
         NEW n \in Names \cup {0}, kind # "other" => n # 0, NEW locked \in SUBSET (Dirs \cup {Root})
  PROVE  Notice(x, kind, n, locked) \in Notices /\ <<Notice(x, kind, n, locked)>> \in Seq(Notices)
<1>1. Notice(x, kind, n, locked) \in Notices
  BY DEF Notice, Notices
<1> HIDE DEF Notice
<1> QED
  BY <1>1

\* And so with IN_MOVE_SELF after them.
LEMMA WithSelfType ==
  ASSUME NEW d \in Dirs, NEW locked \in SUBSET (Dirs \cup {Root}), NEW s \in Seq(Notices)
  PROVE  WithSelf(d, locked, s) \in Seq(Notices)
<1>1. Notice(d, "other", 0, locked) \in Notices
  BY NoticeType
<1> QED
  BY <1>1, AppendProperties DEF WithSelf

\* Operations on the tree.
LEMMA OperationType ==
  ASSUME TypeInv, kq' \in Seq(KernelEvents),
         NEW op, NEW d \in Dirs, NEW locked, NEW s \in Seq(Notices), Operation(op, d, locked, s),
         NEW l, l \in Locations, loc' = [loc EXCEPT ![d] = l],
         DOMAIN kmarks' \subseteq DOMAIN kmarks /\ \A e \in DOMAIN kmarks' : kmarks'[e] = kmarks[e]
  PROVE  TypeInv'
<1>1. /\ UNCHANGED <<mode, knext, reg, moved_from, scan>>
      /\ ops' = ops + 1 /\ late' = [late EXCEPT ![d] = s]
  BY DEF Operation, toolvars
<1>2. ops' \in Nat /\ late' \in [Dirs -> Seq(Notices)] /\ loc' \in [Dirs -> Locations]
  BY <1>1 DEF TypeInv
<1>3. KernelOK(kmarks', knext', kq')
  BY <1>1 DEF TypeInv, KernelOK
<1> QED
  BY <1>1, <1>2, <1>3 DEF TypeInv

\* A directory of the tree is in a directory.
LEMMA TreePlace ==
  ASSUME TypeInv, NEW d \in Dirs, InTree(d)
  PROVE  loc[d][1] \in Dirs \cup {Root}
<1>1. Root \in AboveIn(loc, d) /\ loc \in [Dirs -> Locations]
  BY AboveNow DEF InTree, TypeInv
<1> QED
  BY <1>1, AboveInTree

\* It has a name there.
LEMMA NamedPlace ==
  ASSUME TypeInv, NEW d \in Dirs, loc[d][1] \in Dirs \cup {Root}
  PROVE  loc[d][2] \in Names /\ loc[d][2] # 0
<1>1. loc[d] \in Locations /\ loc[d][1] \notin {Fresh, Out, Dead}
  BY PlacesAssumption DEF TypeInv, Places
<1> QED
  BY <1>1, RecursiveNamesAssumption DEF Locations

\* A place in the tree.
LEMMA PlaceType ==
  ASSUME NEW p \in Dirs \cup {Root}, NEW n \in Names
  PROVE  n # 0 /\ <<p, n>> \in Locations /\ {p} \in SUBSET (Dirs \cup {Root})
BY RecursiveNamesAssumption DEF Locations

\* IN_MOVED_FROM and IN_MOVED_TO are notices.
LEMMA MovedType ==
  ASSUME TypeInv, NEW d \in Dirs, NEW locked \in SUBSET (Dirs \cup {Root})
  PROVE  /\ InTree(d) => MovedFrom(d, locked) \in Notices
         /\ \A p \in Dirs \cup {Root}, n \in Names : MovedTo(p, n, locked) \in Notices
<1>1. ASSUME InTree(d) PROVE MovedFrom(d, locked) \in Notices
  <2>1. loc[d][1] \in Dirs \cup {Root}
    BY <1>1, TreePlace
  <2>2. loc[d][2] \in Names /\ loc[d][2] # 0
    BY <2>1, NamedPlace
  <2> QED
    BY <2>1, <2>2, NoticeType DEF MovedFrom
<1>2. ASSUME NEW p \in Dirs \cup {Root}, NEW n \in Names PROVE MovedTo(p, n, locked) \in Notices
  BY RecursiveNamesAssumption, NoticeType DEF MovedTo
<1> QED
  BY <1>1, <1>2

\* mkdir keeps the types: the new place is one.
LEMMA MkdirType ==
  ASSUME TypeInv, NEW d \in Dirs, NEW p \in Dirs \cup {Root}, NEW n \in Names, mkdir(d, p, n)
  PROVE  TypeInv'
<1> DEFINE s == <<Notice(p, "create", n, {p})>>
<1>1. /\ Operation("mkdir", d, {p}, s) /\ UNCHANGED <<kmarks, kq>>
      /\ loc' = [loc EXCEPT ![d] = <<p, n>>]
  BY DEF mkdir
<1>2. n # 0 /\ <<p, n>> \in Locations
  BY PlaceType
<1>3. s \in Seq(Notices)
  BY <1>2, NoticeType
<1> HIDE DEF s
<1>4. kq' \in Seq(KernelEvents)
  BY <1>1 DEF TypeInv, KernelOK
<1> QED
  BY <1>1, <1>2, <1>3, <1>4, OperationType

\* rmdir keeps the types: the watch it drops takes nothing else along.
LEMMA RmdirType ==
  ASSUME TypeInv, NEW d \in Dirs, rmdir(d)
  PROVE  TypeInv'
<1> DEFINE a == OnDir(d, "other", 0)
           p == loc[d][1]
           s == <<Notice(p, "other", loc[d][2], {p})>>
<1>1. /\ kq' = (kq \o a) \o a /\ Operation("rmdir", d, {d, p}, s) /\ InTree(d)
      /\ kmarks' = Drop(kmarks, d) /\ loc' = [loc EXCEPT ![d] = <<Dead, 0>>]
  BY DEF rmdir
<1>2. a \in Seq(KernelEvents) /\ kq \in Seq(KernelEvents)
  BY OnDirType DEF TypeInv, KernelOK
<1>3. s \in Seq(Notices)
  <2>1. p \in Dirs \cup {Root}
    BY <1>1, TreePlace
  <2>2. loc[d][2] \in Names \cup {0}
    BY DEF TypeInv, Locations
  <2> QED
    BY <2>1, <2>2, NoticeType
<1> HIDE DEF a, s
<1>4. kq' \in Seq(KernelEvents)
  BY <1>1, <1>2, ConcatTypes
<1>5. <<Dead, 0>> \in Locations
  BY DEF Locations
<1>6. DOMAIN kmarks' \subseteq DOMAIN kmarks /\ \A e \in DOMAIN kmarks' : kmarks'[e] = kmarks[e]
  BY <1>1 DEF Drop
<1> QED
  BY <1>1, <1>3, <1>4, <1>5, <1>6, OperationType

\* rename keeps the types: the events of both places and of the directory.
LEMMA RenameType ==
  ASSUME TypeInv, NEW d \in Dirs, NEW p \in Dirs \cup {Root}, NEW n \in Names, rename(d, p, n)
  PROVE  TypeInv'
<1> DEFINE locked == {loc[d][1], p}
           s == <<MovedFrom(d, locked), MovedTo(p, n, locked)>>
<1>1. /\ Operation("rename", d, locked, WithSelf(d, locked, s)) /\ UNCHANGED <<kmarks, kq>>
      /\ loc' = [loc EXCEPT ![d] = <<p, n>>] /\ InTree(d)
  BY DEF rename
<1>2. locked \in SUBSET (Dirs \cup {Root})
  BY <1>1, TreePlace
<1> HIDE DEF locked
<1>3. s \in Seq(Notices)
  BY <1>1, <1>2, MovedType
<1>4. WithSelf(d, locked, s) \in Seq(Notices)
  BY <1>2, <1>3, WithSelfType
<1> HIDE DEF s
<1>5. kq' \in Seq(KernelEvents) /\ <<p, n>> \in Locations
  BY <1>1, PlaceType DEF TypeInv, KernelOK
<1> QED
  BY <1>1, <1>4, <1>5, OperationType

\* A move out of the tree keeps the types.
LEMMA MoveoutType ==
  ASSUME TypeInv, NEW d \in Dirs, moveout(d)
  PROVE  TypeInv'
<1> DEFINE locked == {loc[d][1]}
           s == <<MovedFrom(d, locked)>>
<1>1. /\ Operation("moveout", d, locked, WithSelf(d, locked, s)) /\ UNCHANGED <<kmarks, kq>>
      /\ loc' = [loc EXCEPT ![d] = <<Out, 0>>] /\ InTree(d)
  BY DEF moveout
<1>2. locked \in SUBSET (Dirs \cup {Root})
  BY <1>1, TreePlace
<1> HIDE DEF locked
<1>3. s \in Seq(Notices)
  BY <1>1, <1>2, MovedType
<1>4. WithSelf(d, locked, s) \in Seq(Notices)
  BY <1>2, <1>3, WithSelfType
<1> HIDE DEF s
<1>5. kq' \in Seq(KernelEvents) /\ <<Out, 0>> \in Locations
  BY <1>1 DEF TypeInv, KernelOK, Locations
<1> QED
  BY <1>1, <1>4, <1>5, OperationType

\* A move into the tree keeps the types.
LEMMA MoveinType ==
  ASSUME TypeInv, NEW d \in Dirs, NEW p \in Dirs \cup {Root}, NEW n \in Names, movein(d, p, n)
  PROVE  TypeInv'
<1> DEFINE s == <<MovedTo(p, n, {p})>>
<1>1. /\ Operation("movein", d, {p}, WithSelf(d, {p}, s)) /\ UNCHANGED <<kmarks, kq>>
      /\ loc' = [loc EXCEPT ![d] = <<p, n>>]
  BY DEF movein
<1>2. {p} \in SUBSET (Dirs \cup {Root}) /\ <<p, n>> \in Locations
  BY PlaceType
<1>3. s \in Seq(Notices)
  BY <1>2, MovedType
<1>4. WithSelf(d, {p}, s) \in Seq(Notices)
  BY <1>2, <1>3, WithSelfType
<1> HIDE DEF s
<1>5. kq' \in Seq(KernelEvents)
  BY <1>1 DEF TypeInv, KernelOK
<1> QED
  BY <1>1, <1>2, <1>4, <1>5, OperationType

\* The kernel tells of an operation: the events of a directory, and nothing
\* if it is not watched any more.
LEMMA NotifyType ==
  ASSUME TypeInv, NEW d \in Dirs, Notify(d)
  PROVE  TypeInv'
<1> DEFINE x == Head(late[d])
           q == OnDir(x.dir, x.kind, x.name)
<1>1. /\ UNCHANGED <<loc, ops, mode, kmarks, knext, reg, moved_from, scan>>
      /\ late[d] # << >> /\ kq' = kq \o q /\ late' = [late EXCEPT ![d] = Tail(@)]
  BY DEF Notify, toolvars
<1>2. late[d] \in Seq(Notices) /\ late \in [Dirs -> Seq(Notices)]
  BY DEF TypeInv
<1>3. x \in Notices /\ Tail(late[d]) \in Seq(Notices)
  BY <1>1, <1>2, HeadTailProperties
<1>4. late' \in [Dirs -> Seq(Notices)]
  BY <1>1, <1>2, <1>3
<1>5. kq \in Seq(KernelEvents) /\ KernelOK(kmarks, knext, kq)
  BY DEF TypeInv, KernelOK
<1> HIDE DEF x
<1>6. /\ x.kind \in {"create", "moved_from", "moved_to", "other"} /\ x.name \in Names \cup {0}
      /\ x.kind # "other" => x.name # 0
  BY <1>3 DEF Notices
<1>7. q \in Seq(KernelEvents)
  BY <1>5, <1>6, OnDirType
<1> HIDE DEF q
<1>8. kq' \in Seq(KernelEvents)
  BY <1>1, <1>5, <1>7, ConcatProperties
<1> QED
  BY <1>1, <1>4, <1>8 DEF TypeInv, KernelOK

\* The calls of watch_recursively: the innermost one, and those below it.
LEMMA ScanType ==
  ASSUME TypeInv, scan # << >>
  PROVE  /\ Top \in Calls /\ Below \in Seq(Calls) /\ IsPath(Top.path) /\ Top.todo \subseteq Names
         /\ Len(scan) \in Nat \ {0} /\ Len(Below) = Len(scan) - 1
         /\ \A k \in 1..(Len(scan) - 1) : Below[k] = scan[k]
<1>1. scan \in Seq(Calls)
  BY DEF TypeInv
<1>2. /\ Below \in Seq(Calls) /\ Len(scan) \in Nat \ {0} /\ Len(Below) = Len(scan) - 1
      /\ \A k \in 1..(Len(scan) - 1) : Below[k] = scan[k]
      /\ Top \in Calls
  BY <1>1, ButLast DEF Below, Top
<1> HIDE DEF TypeInv
<1> QED
  BY <1>2 DEF Calls

\* A new call.
LEMMA FrameType ==
  ASSUME NEW path, IsPath(path)
  PROVE  Frame(path) \in Calls /\ <<Frame(path)>> \in Seq(Calls)
<1>1. Frame(path) \in Calls
  BY DEF Frame, Calls, IsPath
<1> QED
  BY <1>1

\* The children of the directory a path leads to have names.
LEMMA ChildNames ==
  ASSUME loc \in [Dirs -> Locations], NEW x \in Dirs \cup {Root}
  PROVE  {loc[d][2] : d \in Children(x)} \subseteq Names
<1> SUFFICES ASSUME NEW d \in Dirs, loc[d][1] = x PROVE loc[d][2] \in Names
  BY DEF Children
<1>1. loc[d] \in Locations /\ x \notin {Fresh, Out, Dead}
  BY PlacesAssumption DEF Places
<1> QED
  BY <1>1 DEF Locations

\* opendir keeps the types: the entries listed have names.
LEMMA ScanOpenType ==
  ASSUME TypeInv, ScanOpen
  PROVE  TypeInv'
<1> DEFINE dir == Resolve(Top.path)
           next == [path |-> Top.path, opened |-> TRUE, todo |-> {loc[d][2] : d \in Children(dir)}]
<1>1. /\ scan # << >>
      /\ UNCHANGED <<loc, ops, late, mode, kmarks, knext, kq, reg, moved_from>>
      /\ scan' = Below \/ (dir # NoDir /\ scan' = Append(Below, next))
  BY DEF ScanOpen, Vanished, fsvars
<1>2. /\ Top \in Calls /\ Below \in Seq(Calls) /\ IsPath(Top.path)
      /\ Top.path \in Seq(Names \cup {RootName})
  BY <1>1, ScanType DEF Calls
<1>3. ASSUME dir # NoDir PROVE next \in Calls
  <2>1. dir \in Dirs \cup {Root}
    <3>1. dir = ResolveIn(loc, Top.path)
      BY ResolveNow
    <3> QED
      BY <1>2, <1>3, <3>1, ResolveType DEF NoDir
  <2>2. {loc[d][2] : d \in Children(dir)} \subseteq Names
    <3> HIDE DEF dir
    <3> QED
      BY <2>1, ChildNames DEF TypeInv
  <2> HIDE DEF dir
  <2> QED
    BY <1>2, <2>2 DEF Calls
<1> HIDE DEF dir, next
<1>4. scan' \in Seq(Calls)
  BY <1>1, <1>2, <1>3, AppendProperties
<1> QED
  BY <1>1, <1>4 DEF TypeInv

\* lstat keeps the types: an entry's path is a path.
LEMMA ScanEntryType ==
  ASSUME TypeInv, ScanEntry
  PROVE  TypeInv'
<1>1. PICK n \in Top.todo :
        LET path == Append(Top.path, n)
            rest == Append(Below, [Top EXCEPT !.todo = @ \ {n}])
        IN  scan' \in {Below, rest, Append(rest, Frame(path))}
  BY DEF ScanEntry
<1> DEFINE path == Append(Top.path, n)
           top == [Top EXCEPT !.todo = @ \ {n}]
           rest == Append(Below, top)
<1>2. /\ scan # << >>
      /\ UNCHANGED <<loc, ops, late, mode, kmarks, knext, kq, reg, moved_from>>
  BY DEF ScanEntry, fsvars
<1>3. Top \in Calls /\ Below \in Seq(Calls) /\ IsPath(Top.path) /\ n \in Names
  BY <1>1, <1>2, ScanType
<1>4. top \in Calls
  BY <1>3 DEF Calls
<1>5. IsPath(path)
  BY <1>3, PathAppend
<1>6. Frame(path) \in Calls
  <2> HIDE DEF path
  <2> QED
    BY <1>5, FrameType
<1>7. scan' \in {Below, rest, Append(rest, Frame(path))}
  BY <1>1
<1> HIDE DEF top, path
<1>8. rest \in Seq(Calls)
  BY <1>3, <1>4, AppendProperties
<1> HIDE DEF rest
<1>9. scan' \in Seq(Calls)
  BY <1>3, <1>6, <1>7, <1>8, AppendProperties, SMTT(30)
<1> QED
  BY <1>2, <1>9 DEF TypeInv

\* watch_file keeps the types: watch descriptors stay below the next one.
LEMMA ScanWatchType ==
  ASSUME TypeInv, ScanWatch
  PROVE  TypeInv'
<1> DEFINE dir == Resolve(Top.path)
           marked == dir \in DOMAIN kmarks
           wd == IF marked THEN kmarks[dir] ELSE knext
<1>1. scan # << >> /\ UNCHANGED <<loc, ops, late, mode, kq, moved_from>>
  BY DEF ScanWatch, fsvars
<1>2. Below \in Seq(Calls) /\ IsPath(Top.path)
  BY <1>1, ScanType
<1>3. CASE scan' \in {Below, << >>} /\ UNCHANGED <<kmarks, knext, reg>>
  <2>1. scan' \in Seq(Calls)
    BY <1>2, <1>3, EmptySeq
  <2> QED
    BY <1>1, <1>3, <2>1 DEF TypeInv
<1>4. CASE /\ dir # NoDir /\ scan' = Below
           /\ kmarks' = Put(kmarks, dir, wd)
           /\ knext' = IF marked THEN knext ELSE knext + 1
           /\ reg' = CreateInotifyWatch(reg, wd, Top.path)
  <2>1. dir \in Dirs \cup {Root}
    <3>1. dir = ResolveIn(loc, Top.path)
      BY ResolveNow
    <3> QED
      BY <1>2, <1>4, <3>1, ResolveType DEF NoDir
  <2> HIDE DEF dir
  <2>2. KernelOK(kmarks, knext, kq) /\ Sound(reg)
    BY DEF TypeInv
  <2>3. KernelOK(kmarks', knext', kq')
    <3>1. knext \in Nat \ {0} /\ \A d \in DOMAIN kmarks : kmarks[d] \in 1..(knext - 1)
      BY <2>2 DEF KernelOK
    <3>2. knext' \in Nat \ {0} /\ wd \in 1..(knext' - 1) /\ knext <= knext'
      BY <1>4, <3>1
    <3>3. DOMAIN kmarks' = DOMAIN kmarks \cup {dir} /\ \A d \in DOMAIN kmarks' : kmarks'[d] = IF d = dir THEN wd ELSE kmarks[d]
      BY <1>4 DEF Put
    <3> HIDE DEF wd, marked
    <3>4. \A d \in DOMAIN kmarks' : kmarks'[d] \in 1..(knext' - 1)
      <4>1. SUFFICES ASSUME NEW d \in DOMAIN kmarks'
                     PROVE  kmarks'[d] \in 1..(knext' - 1)
        OBVIOUS
      <4>2. CASE d = dir
        BY <3>2, <3>3, <4>2
      <4>3. CASE d # dir
        <5>1. d \in DOMAIN kmarks /\ kmarks'[d] = kmarks[d]
          BY <3>3, <4>3
        <5>2. kmarks[d] \in Int /\ 1 <= kmarks[d] /\ kmarks[d] <= knext - 1
          BY <3>1, <5>1
        <5>3. knext' \in Int /\ knext \in Int /\ knext <= knext'
          BY <3>1, <3>2
        <5>4. kmarks[d] <= knext' - 1
          BY <5>2, <5>3
        <5> QED
          BY <5>1, <5>2, <5>3, <5>4
      <4> QED
        BY <4>2, <4>3
    <3> QED
      BY <1>1, <2>1, <2>2, <3>2, <3>3, <3>4 DEF KernelOK
  <2> HIDE DEF wd, marked
  <2>4. /\ Sound(reg')
        /\ DOMAIN reg'.by_filename = DOMAIN reg.by_filename \cup {Top.path}
    BY <1>2, <1>4, <2>2, CreateSound
  <2> QED
    BY <1>1, <1>2, <1>4, <2>3, <2>4 DEF TypeInv
<1>5. \/ scan' \in {Below, << >>} /\ UNCHANGED <<kmarks, knext, reg>>
      \/ /\ dir # NoDir /\ scan' = Below
         /\ kmarks' = Put(kmarks, dir, wd)
         /\ knext' = IF marked THEN knext ELSE knext + 1
         /\ reg' = CreateInotifyWatch(reg, wd, Top.path)
  BY DEF ScanWatch, Vanished
<1> QED
  BY <1>3, <1>4, <1>5

\* The names events are given under are paths.
LEMMA DirPathType ==
  ASSUME NEW r, Sound(r), kq \in Seq(KernelEvents), kq # << >>, E.kind # "other"
  PROVE  DirPath(r) = << >> \/ IsPath(DirPath(r))
<1>1. E.name \in Names
  BY FirstEvent DEF E
<1>2. CASE E.wd \in DOMAIN r.by_wd
  <2>1. IsPath(r.watches[r.by_wd[E.wd]].filename)
    BY <1>2 DEF Sound
  <2>2. DirPath(r) = Append(r.watches[r.by_wd[E.wd]].filename, E.name)
    BY <1>2 DEF DirPath
  <2> DEFINE f == r.watches[r.by_wd[E.wd]].filename
             n == E.name
  <2>3. IsPath(f) /\ n \in Names /\ DirPath(r) = Append(f, n)
    BY <1>1, <2>1, <2>2
  <2> HIDE DEF f, n
  <2> QED
    BY <2>3, PathAppend
<1>3. CASE E.wd \notin DOMAIN r.by_wd
  BY <1>3 DEF DirPath
<1> QED
  BY <1>2, <1>3

\* The scan of a new directory starts with one call.
LEMMA StartScanType ==
  ASSUME NEW path, path = << >> \/ IsPath(path), StartScan(path)
  PROVE  scan' \in Seq(Calls)
<1>1. scan' = << >> \/ (path # << >> /\ scan' = <<Frame(path)>>)
  BY DEF StartScan
<1> QED
  BY <1>1, FrameType, EmptySeq

\* What is left of the kernel's and the tool's knowledge of a directory that
\* has left the tree.
LEMMA LeaveTreeType ==
  ASSUME TypeInv, kq # << >>, LeaveTree(reg'), knext' = knext
  PROVE  KernelOK(kmarks', knext', kq') /\ Sound(reg')
<1> DEFINE wd == reg.watches[LeftWatch].wd
<1>1. /\ kq' = Tail(kq) \o (IF LeftMarked THEN <<Event(wd, "other", 0)>> ELSE << >>)
      /\ kmarks' = IF LeftMarked
                     THEN [d \in {x \in DOMAIN kmarks : kmarks[x] # wd} |-> kmarks[d]]
                     ELSE kmarks
      /\ reg' = IF LeftMarked THEN DestroyWatch(reg, LeftWatch) ELSE reg
  BY DEF LeaveTree, RegAfterLeave
<1>2. /\ KernelOK(kmarks, knext, kq) /\ Sound(reg) /\ kq \in Seq(KernelEvents)
      /\ Tail(kq) \in Seq(KernelEvents)
  BY FirstEvent DEF TypeInv, KernelOK
<1>3. ASSUME LeftMarked PROVE wd \in Nat \ {0} /\ LeftWatch \in DOMAIN reg.watches
  <2>1. LeftWatch \in DOMAIN reg.watches
    BY <1>2, <1>3 DEF LeftMarked, LeftFiled, LeftWatch, Sound
  <2>2. PICK d \in DOMAIN kmarks : kmarks[d] = wd
    BY <1>3 DEF LeftMarked
  <2>3. wd \in 1..(knext - 1) /\ knext \in Nat
    BY <1>2, <2>2 DEF KernelOK
  <2> HIDE DEF wd
  <2> QED
    BY <2>1, <2>3
<1> HIDE DEF wd
<1>4. kq' \in Seq(KernelEvents)
  <2> DEFINE last == IF LeftMarked THEN <<Event(wd, "other", 0)>> ELSE << >>
  <2>1. last \in Seq(KernelEvents)
    BY <1>3, EventType, EmptySeq
  <2>2. kq' = Tail(kq) \o last
    BY <1>1
  <2> HIDE DEF last
  <2> QED
    BY <1>2, <2>1, <2>2, ConcatProperties
<1>5. DOMAIN kmarks' \subseteq DOMAIN kmarks /\ \A d \in DOMAIN kmarks' : kmarks'[d] = kmarks[d]
  BY <1>1
<1>6. KernelOK(kmarks', knext', kq')
  BY <1>2, <1>4, <1>5 DEF KernelOK
<1>7. Sound(reg')
  BY <1>1, <1>2, <1>3, DestroySound
<1> QED
  BY <1>6, <1>7

\* An event dropped by the filter changes the queue only.
LEMMA DropFilteredType ==
  ASSUME TypeInv, DropFiltered
  PROVE  TypeInv'
<1>1. kq # << >> /\ kq' = Tail(kq) /\ UNCHANGED <<loc, ops, late, mode, kmarks, knext, reg, moved_from, scan>>
  BY DEF DropFiltered, fsvars, toolvars
<1>2. kq' \in Seq(KernelEvents)
  BY <1>1, FirstEvent DEF TypeInv, KernelOK
<1> QED
  BY <1>1, <1>2 DEF TypeInv, KernelOK

\* IN_CREATE keeps the types.
LEMMA HandleCreateType ==
  ASSUME TypeInv, HandleCreate
  PROVE  TypeInv'
<1>1. /\ kq # << >> /\ E.kind = "create" /\ LeaveTree(reg') /\ moved_from' = << >>
      /\ StartScan(DirPath(reg')) /\ UNCHANGED <<loc, ops, late, mode, knext>>
  BY DEF HandleCreate, Receives, fsvars
<1>2. KernelOK(kmarks', knext', kq') /\ Sound(reg')
  BY <1>1, LeaveTreeType
<1>3. DirPath(reg') = << >> \/ IsPath(DirPath(reg'))
  BY <1>1, <1>2, DirPathType DEF TypeInv, KernelOK
<1>4. scan' \in Seq(Calls)
  BY <1>1, <1>3, StartScanType
<1> QED
  BY <1>1, <1>2, <1>4 DEF TypeInv

\* IN_MOVED_FROM keeps the types: what is remembered is filed.
LEMMA HandleMovedFromType ==
  ASSUME TypeInv, HandleMovedFrom
  PROVE  TypeInv'
<1>1. /\ kq # << >> /\ LeaveTree(reg') /\ UNCHANGED <<loc, ops, late, mode, knext, scan>>
      /\ moved_from' = << >> \/ moved_from' \in DOMAIN reg'.by_filename
  BY DEF HandleMovedFrom, Receives, fsvars
<1>2. KernelOK(kmarks', knext', kq') /\ Sound(reg')
  BY <1>1, LeaveTreeType
<1> QED
  BY <1>1, <1>2 DEF TypeInv

\* Other events keep the types.
LEMMA HandleOtherType ==
  ASSUME TypeInv, HandleOther
  PROVE  TypeInv'
<1>1. /\ kq # << >> /\ LeaveTree(reg') /\ UNCHANGED <<loc, ops, late, mode, knext, scan>>
      /\ moved_from' = << >>
  BY DEF HandleOther, Receives, fsvars
<1>2. KernelOK(kmarks', knext', kq') /\ Sound(reg')
  BY <1>1, LeaveTreeType
<1> QED
  BY <1>1, <1>2 DEF TypeInv

\* IN_MOVED_TO by itself keeps the types.
LEMMA HandleMovedInType ==
  ASSUME TypeInv, HandleMovedIn
  PROVE  TypeInv'
<1>1. /\ kq # << >> /\ E.kind = "moved_to" /\ kq' = Tail(kq) /\ StartScan(DirPath(reg))
      /\ UNCHANGED <<loc, ops, late, mode, kmarks, knext, reg, moved_from>>
  BY DEF HandleMovedIn, Receives, fsvars
<1>2. kq \in Seq(KernelEvents) /\ kq' \in Seq(KernelEvents) /\ Sound(reg)
  BY <1>1, FirstEvent DEF TypeInv, KernelOK
<1>3. DirPath(reg) = << >> \/ IsPath(DirPath(reg))
  BY <1>1, <1>2, DirPathType
<1>4. scan' \in Seq(Calls)
  BY <1>1, <1>3, StartScanType
<1> QED
  BY <1>1, <1>2, <1>4 DEF TypeInv, KernelOK

\* IN_MOVED_TO after IN_MOVED_FROM keeps the types: names are replaced by paths.
LEMMA HandleMovedToType ==
  ASSUME TypeInv, HandleMovedTo
  PROVE  TypeInv'
<1>1. /\ kq # << >> /\ E.kind = "moved_to" /\ kq' = Tail(kq) /\ moved_from # << >>
      /\ reg' \in Replaced(moved_from, DirPath(reg)) /\ moved_from' = << >>
      /\ UNCHANGED <<loc, ops, late, mode, kmarks, knext, scan>>
  BY DEF HandleMovedTo, Receives, fsvars
<1>2. kq \in Seq(KernelEvents) /\ kq' \in Seq(KernelEvents) /\ Sound(reg)
  BY <1>1, FirstEvent DEF TypeInv, KernelOK
<1>3. DirPath(reg) = << >> \/ IsPath(DirPath(reg))
  BY <1>1, <1>2, DirPathType
<1>4. IsPath(moved_from)
  BY <1>1, FiledByPaths DEF TypeInv
<1>5. Sound(reg')
  BY <1>1, <1>2, <1>3, <1>4, ReplacedSound
<1> QED
  BY <1>1, <1>2, <1>5 DEF TypeInv, KernelOK

\* Every step keeps the invariant.
LEMMA TypeStep ==
  ASSUME TypeInv, [Next]_vars
  PROVE  TypeInv'
<1>1. CASE ScanOpen
  BY <1>1, ScanOpenType
<1>2. CASE ScanEntry
  BY <1>2, ScanEntryType
<1>3. CASE ScanWatch
  BY <1>3, ScanWatchType
<1>4. CASE DropFiltered
  BY <1>4, DropFilteredType
<1>5. CASE HandleCreate
  BY <1>5, HandleCreateType
<1>6. CASE HandleMovedFrom
  BY <1>6, HandleMovedFromType
<1>7. CASE HandleOther
  BY <1>7, HandleOtherType
<1>8. CASE HandleMovedIn
  BY <1>8, HandleMovedInType
<1>9. CASE HandleMovedTo
  BY <1>9, HandleMovedToType
<1>10. ASSUME NEW d \in Dirs, NEW p \in Dirs \cup {Root}, NEW n \in Names,
              mkdir(d, p, n) \/ rename(d, p, n) \/ movein(d, p, n)
       PROVE  TypeInv'
  BY <1>10, MkdirType, RenameType, MoveinType
<1>11. ASSUME NEW d \in Dirs, rmdir(d) \/ moveout(d) \/ Notify(d)
       PROVE  TypeInv'
  BY <1>11, RmdirType, MoveoutType, NotifyType
<1>12. CASE UNCHANGED vars
  BY <1>12 DEF vars, TypeInv, KernelOK
<1> QED
  BY <1>1, <1>2, <1>3, <1>4, <1>5, <1>6, <1>7, <1>8, <1>9, <1>10, <1>11, <1>12 DEF Next, Tool

\* The invariant holds at first.
LEMMA TypeInit == Init => TypeInv
<1> SUFFICES ASSUME Init PROVE TypeInv
  OBVIOUS
<1>1. scan \in Seq(Calls)
  BY RootPath, FrameType DEF Init
<1>2. KernelOK(kmarks, knext, kq)
  BY EmptySeq DEF Init, KernelOK, EmptyMap
<1>3. Sound(reg)
  BY EmptySound DEF Init
<1>4. loc \in [Dirs -> Locations]
  BY InitialLocAssumption DEF Init
<1>5. late \in [Dirs -> Seq(Notices)]
  BY EmptySeq DEF Init
<1> QED
  BY <1>5, <1>1, <1>2, <1>3, <1>4 DEF Init, TypeInv

\* In every state the tree, the kernel's queue and marks, the registry and
\* the stack of watch_recursively have the shape of what they model, every
\* filename in the registry is a path, and the name MoveTracker keeps is that
\* of a watch: rename_watch, replace_filename and remove_watch_by_filename
\* leave no entry behind that leads to nothing.
THEOREM TypeCorrect == Spec => []TypeOK
<1>1. TypeInv /\ [Next]_vars => TypeInv'
  BY TypeStep
<1> QED
  BY <1>1, TypeInit, TypeFollows, PTL DEF Spec

(***************************************************************************)
(* Trees in which nothing that has a path is moved.                        *)
(***************************************************************************)

\* No two directories are in the same place.
Distinct(l) == \A d, e \in Dirs : l[d] = l[e] /\ l[d][2] # 0 => d = e

\* The directory in a place is the entry under its name.
LEMMA EntryIs ==
  ASSUME NEW l, Distinct(l), NEW p, NEW n \in Names, NEW d \in Dirs, l[d] = <<p, n>>
  PROVE  EntryIn(l, p, n) = d
<1>1. n # 0
  BY RecursiveNamesAssumption
<1>2. \A e \in Dirs : l[e] = <<p, n>> => e = d
  BY <1>1 DEF Distinct
<1> DEFINE e == CHOOSE e \in Dirs : l[e] = <<p, n>>
<1>3. e \in Dirs /\ l[e] = <<p, n>>
  OBVIOUS
<1>4. EntryIn(l, p, n) = e
  BY DEF EntryIn
<1> HIDE DEF e
<1> QED
  BY <1>2, <1>3, <1>4

\* A directory that a path leads to is in the one its prefix leads to.
LEMMA EntryAt ==
  ASSUME NEW l \in [Dirs -> Locations], NEW q, IsPath(q), NEW n \in Names, NEW d,
         ResolveIn(l, Append(q, n)) = d, d # Dead
  PROVE  d \in Dirs /\ l[d] = <<ResolveIn(l, q), n>> /\ ResolveIn(l, q) \in Dirs \cup {Root}
<1> DEFINE x == ResolveIn(l, q)
<1>1. d = EntryIn(l, x, n) /\ x \in Dirs \cup {Root, Dead}
  BY ResolveSteps, ResolveType
<1> HIDE DEF x
<1>2. d \in Dirs /\ l[d] = <<x, n>>
  BY <1>1, EntryType
<1>3. x # Dead
  <2>1. l[d] \in Locations /\ n # 0
    BY <1>2, RecursiveNamesAssumption
  <2> QED
    BY <1>2, <2>1, PlacesAssumption DEF Locations, Places
<1> QED
  BY <1>1, <1>2, <1>3 DEF x

\* A directory that a path leads to is in a directory.
LEMMA ReachedPlace ==
  ASSUME NEW l \in [Dirs -> Locations], NEW path, IsPath(path), ResolveIn(l, path) \in Dirs
  PROVE  l[ResolveIn(l, path)][1] \in Dirs \cup {Root}
<1> DEFINE d == ResolveIn(l, path)
<1>1. Root \notin Dirs /\ Dead \notin Dirs
  BY PlacesAssumption DEF Places
<1>2. CASE path = <<RootName>>
  BY <1>1, <1>2, ResolveSteps
<1>3. ASSUME NEW q, NEW n, IsPath(q), n \in Names, path = Append(q, n)
      PROVE  l[d][1] \in Dirs \cup {Root}
  BY <1>1, <1>3, EntryAt
<1> QED
  BY <1>2, <1>3, PathCases

\* A path leads to the same directory after one that it does not lead to,
\* and that no path leads through, was moved.
LEMMA ResolveKept ==
  ASSUME NEW l \in [Dirs -> Locations], NEW m, Distinct(m), NEW d \in Dirs,
         \A e \in Dirs : e # d => m[e] = l[e],
         l[d][1] \notin Dirs \cup {Root} \/ \A e \in Dirs : l[e][1] # d,
         NEW path, IsPath(path), ResolveIn(l, path) \notin {Dead, d}
  PROVE  ResolveIn(m, path) = ResolveIn(l, path)
<1> DEFINE S == {p \in Seq(Alphabet) : ResolveIn(l, p) \notin {Dead, d} => ResolveIn(m, p) = ResolveIn(l, p)}
<1>1. \A p : IsPath(p) => p \in Seq(Alphabet)
  BY DEF IsPath, Alphabet
<1>2. <<RootName>> \in S
  BY <1>1, RootPath, ResolveSteps
<1>3. ASSUME NEW q, IsPath(q), q \in S, NEW n \in Names PROVE Append(q, n) \in S
  <2>1. Append(q, n) \in Seq(Alphabet)
    BY <1>1, <1>3, PathAppend
  <2>2. SUFFICES ASSUME ResolveIn(l, Append(q, n)) \notin {Dead, d}
                 PROVE  ResolveIn(m, Append(q, n)) = ResolveIn(l, Append(q, n))
    BY <2>1
  <2> DEFINE x == ResolveIn(l, Append(q, n))
             y == ResolveIn(l, q)
  <2>3. x \in Dirs /\ x # d /\ l[x] = <<y, n>> /\ y \in Dirs \cup {Root}
    BY <1>3, <2>2, EntryAt
  <2>4. y # d
    <3>1. CASE l[d][1] \notin Dirs \cup {Root}
      BY <3>1, <1>3, <2>3, ReachedPlace
    <3>2. CASE \A e \in Dirs : l[e][1] # d
      BY <3>2, <2>3
    <3> QED
      BY <3>1, <3>2
  <2>5. y # Dead
    BY <2>3, PlacesAssumption DEF Places
  <2>6. ResolveIn(m, q) = y
    BY <1>3, <2>4, <2>5
  <2>7. ResolveIn(m, Append(q, n)) = EntryIn(m, y, n)
    <3>1. ResolveIn(m, Append(q, n)) = EntryIn(m, ResolveIn(m, q), n)
      BY <1>3, ResolveSteps, Zenon
    <3> QED
      BY <2>6, <3>1, Zenon
  <2> HIDE DEF x, y
  <2>8. m[x] = <<y, n>>
    BY <2>3
  <2>9. EntryIn(m, y, n) = x
    BY <2>3, <2>8, EntryIs
  <2> QED
    BY <2>7, <2>9 DEF x
<1> HIDE DEF S
<1>4. path \in S
  BY <1>2, <1>3, PathInduction, Zenon
<1> QED
  BY <1>4 DEF S

(***************************************************************************)
(* Names in step with the tree.                                            *)
(***************************************************************************)

\* As long as directories are made, removed and moved in, nothing the kernel
\* tells, or has still to tell, is of one that was moved away.
StillEvents == {e \in KernelEvents : e.kind # "moved_from"}
StillNotices == {x \in Notices : x.kind # "moved_from"}

\* Every kernel watch is filed, under a path that leads to its directory.
Named(l, km, r) ==
  \A d \in DOMAIN km :
    /\ km[d] \in DOMAIN r.by_wd
    /\ ResolveIn(l, r.watches[r.by_wd[km[d]]].filename) = d

\* What then holds from step to step.
Sync ==
  /\ moved_from = << >> /\ kq \in Seq(StillEvents) /\ late \in [Dirs -> Seq(StillNotices)]
  /\ DOMAIN reg.by_wd \subseteq 1..(knext - 1)
  /\ Distinct(loc) /\ Named(loc, kmarks, reg)

\* The filename of a kernel watch is a path.
LEMMA NameIsPath ==
  ASSUME TypeInv, Sync, NEW d \in DOMAIN kmarks
  PROVE  IsPath(reg.watches[reg.by_wd[kmarks[d]]].filename)
BY DEF TypeInv, Sync, Named, Sound

\* A directory that is watched has a place in the tree.
LEMMA WatchedReached ==
  ASSUME TypeInv, Sync, NEW d \in Dirs, d \in DOMAIN kmarks
  PROVE  loc[d][1] \in Dirs \cup {Root}
<1> DEFINE f == reg.watches[reg.by_wd[kmarks[d]]].filename
<1>1. IsPath(f)
  BY NameIsPath
<1>2. ResolveIn(loc, f) = d /\ loc \in [Dirs -> Locations]
  BY DEF Sync, Named, TypeInv
<1> HIDE DEF f
<1> QED
  BY <1>1, <1>2, ReachedPlace

\* Events that are not of a directory moved away.
LEMMA OnDirStill ==
  ASSUME KernelOK(kmarks, knext, kq), NEW d, NEW kind \in {"create", "moved_to", "other"}, NEW n,
         d \in DOMAIN kmarks => n \in Names \cup {0} /\ (kind # "other" => n # 0)
  PROVE  OnDir(d, kind, n) \in Seq(StillEvents)
<1>1. CASE d \in DOMAIN kmarks
  <2>1. kmarks[d] \in Nat \ {0}
    BY <1>1 DEF KernelOK
  <2>2. Event(kmarks[d], kind, n) \in KernelEvents
    BY <1>1, <2>1, EventType
  <2>3. Event(kmarks[d], kind, n).kind = kind
    BY DEF Event
  <2>4. Event(kmarks[d], kind, n) \in StillEvents
    BY <2>2, <2>3 DEF StillEvents
  <2> QED
    BY <1>1, <2>4 DEF OnDir
<1>2. CASE d \notin DOMAIN kmarks
  BY <1>2, EmptySeq DEF OnDir
<1> QED
  BY <1>1, <1>2

\* What is still to be told of one operation.
LEMMA LateStill ==
  ASSUME Sync, NEW d \in Dirs, NEW s \in Seq(StillNotices), NEW op, NEW locked, Operation(op, d, locked, s)
  PROVE  late' \in [Dirs -> Seq(StillNotices)]
BY DEF Sync, Operation

\* Notices that are not of a directory moved away, IN_MOVE_SELF among them.
LEMMA NoticeStill ==
  ASSUME NEW x \in Dirs \cup {Root}, NEW kind \in {"create", "moved_to", "other"},
         NEW n \in Names \cup {0}, kind # "other" => n # 0, NEW locked \in SUBSET (Dirs \cup {Root})
  PROVE  /\ <<Notice(x, kind, n, locked)>> \in Seq(StillNotices)
         /\ \A d \in Dirs : WithSelf(d, locked, <<Notice(x, kind, n, locked)>>) \in Seq(StillNotices)
<1>1. Notice(x, kind, n, locked) \in StillNotices
  <2>1. Notice(x, kind, n, locked).kind = kind
    BY DEF Notice
  <2> QED
    BY <2>1, NoticeType DEF StillNotices
<1>2. ASSUME NEW d \in Dirs PROVE Notice(d, "other", 0, locked) \in StillNotices
  <2>1. Notice(d, "other", 0, locked).kind = "other"
    BY DEF Notice
  <2> QED
    BY <2>1, NoticeType DEF StillNotices
<1> DEFINE s == <<Notice(x, kind, n, locked)>>
<1>3. s \in Seq(StillNotices)
  BY <1>1
<1> HIDE DEF s
<1>4. \A d \in Dirs : WithSelf(d, locked, s) \in Seq(StillNotices)
  BY <1>2, <1>3, AppendProperties DEF WithSelf
<1> QED
  BY <1>3, <1>4 DEF s

\* Moving one directory that no name of a watch leads to or through leaves
\* the names of the others right.
LEMMA NamedKept ==
  ASSUME TypeInv, Sync, NEW d \in Dirs,
         NEW m, Distinct(m), \A e \in Dirs : e # d => m[e] = loc[e],
         loc[d][1] \notin Dirs \cup {Root} \/ \A e \in Dirs : loc[e][1] # d,
         NEW km, d \notin DOMAIN km, DOMAIN km \subseteq DOMAIN kmarks,
         \A e \in DOMAIN km : km[e] = kmarks[e]
  PROVE  Named(m, km, reg)
<1> SUFFICES ASSUME NEW e \in DOMAIN km
             PROVE  /\ km[e] \in DOMAIN reg.by_wd
                    /\ ResolveIn(m, reg.watches[reg.by_wd[km[e]]].filename) = e
  BY DEF Named
<1>1. e \in DOMAIN kmarks /\ km[e] = kmarks[e] /\ e # d
  OBVIOUS
<1> DEFINE f == reg.watches[reg.by_wd[kmarks[e]]].filename
<1>2. IsPath(f)
  BY <1>1, NameIsPath
<1>3. kmarks[e] \in DOMAIN reg.by_wd /\ ResolveIn(loc, f) = e
  BY <1>1 DEF Sync, Named
<1>4. e \in Dirs \cup {Root} /\ loc \in [Dirs -> Locations]
  BY <1>1 DEF TypeInv, KernelOK
<1>5. e # Dead
  BY <1>4, PlacesAssumption DEF Places
<1> HIDE DEF f
<1>6. ResolveIn(m, f) = ResolveIn(loc, f)
  BY <1>1, <1>2, <1>3, <1>4, <1>5, ResolveKept
<1> QED
  BY <1>1, <1>3, <1>6 DEF f

\* A vacant place is taken by one directory only.
LEMMA DistinctKept ==
  ASSUME loc \in [Dirs -> Locations], Distinct(loc), NEW d \in Dirs, NEW p, NEW n,
         n = 0 \/ Vacant(p, n)
  PROVE  Distinct([loc EXCEPT ![d] = <<p, n>>])
BY DEF Distinct, Vacant, IsAt

\* A directory appears in the tree.
LEMMA AppearSync ==
  ASSUME TypeInv, Sync, NEW d \in Dirs, NEW p \in Dirs \cup {Root}, NEW n \in Names,
         loc' = [loc EXCEPT ![d] = <<p, n>>], loc[d][1] \in {Fresh, Out}, Vacant(p, n),
         UNCHANGED <<kmarks, knext, reg, moved_from>>,
         kq' \in Seq(StillEvents), late' \in [Dirs -> Seq(StillNotices)]
  PROVE  Sync'
<1>1. loc[d][1] \notin Dirs \cup {Root}
  BY PlacesAssumption DEF Places
<1>2. loc \in [Dirs -> Locations] /\ Distinct(loc)
  BY DEF TypeInv, Sync
<1>3. Distinct(loc')
  BY <1>2, DistinctKept
<1>4. d \notin DOMAIN kmarks
  BY <1>1, WatchedReached
<1>5. \A e \in Dirs : e # d => loc'[e] = loc[e]
  BY <1>2
<1>6. Named(loc', kmarks, reg)
  BY <1>1, <1>3, <1>4, <1>5, NamedKept
<1> QED
  BY <1>3, <1>6 DEF Sync

\* A new directory does not disturb the names of the others.
LEMMA MkdirSync ==
  ASSUME TypeInv, Sync, NEW d \in Dirs, NEW p \in Dirs \cup {Root}, NEW n \in Names, mkdir(d, p, n)
  PROVE  Sync'
<1> DEFINE s == <<Notice(p, "create", n, {p})>>
<1>1. /\ UNCHANGED <<kmarks, kq, knext, reg, moved_from>> /\ Operation("mkdir", d, {p}, s)
      /\ loc' = [loc EXCEPT ![d] = <<p, n>>] /\ loc[d][1] \in {Fresh, Out} /\ Vacant(p, n)
  BY DEF mkdir, Operation, toolvars
<1>2. s \in Seq(StillNotices)
  BY PlaceType, NoticeStill
<1> HIDE DEF s
<1>3. kq' \in Seq(StillEvents) /\ late' \in [Dirs -> Seq(StillNotices)]
  BY <1>1, <1>2, LateStill DEF Sync
<1> QED
  BY <1>1, <1>3, AppearSync

\* Nor does one that is moved in.
LEMMA MoveinSync ==
  ASSUME TypeInv, Sync, NEW d \in Dirs, NEW p \in Dirs \cup {Root}, NEW n \in Names, movein(d, p, n)
  PROVE  Sync'
<1> DEFINE s == WithSelf(d, {p}, <<MovedTo(p, n, {p})>>)
<1>1. /\ UNCHANGED <<kmarks, kq, knext, reg, moved_from>> /\ Operation("movein", d, {p}, s)
      /\ loc' = [loc EXCEPT ![d] = <<p, n>>] /\ loc[d][1] \in {Fresh, Out} /\ Vacant(p, n)
  BY DEF movein, Operation, toolvars
<1>2. s \in Seq(StillNotices)
  BY PlaceType, NoticeStill DEF MovedTo
<1> HIDE DEF s
<1>3. kq' \in Seq(StillEvents) /\ late' \in [Dirs -> Seq(StillNotices)]
  BY <1>1, <1>2, LateStill DEF Sync
<1> QED
  BY <1>1, <1>3, AppearSync

\* rmdir: the directory has no others in it, and is not watched any more.
LEMMA RmdirSync ==
  ASSUME TypeInv, Sync, NEW d \in Dirs, rmdir(d)
  PROVE  Sync'
<1> DEFINE a == OnDir(d, "other", 0)
           p == loc[d][1]
           s == <<Notice(p, "other", loc[d][2], {p})>>
<1>1. /\ kq' = (kq \o a) \o a /\ UNCHANGED <<knext, reg, moved_from>>
      /\ Operation("rmdir", d, {d, p}, s) /\ InTree(d)
      /\ kmarks' = Drop(kmarks, d) /\ loc' = [loc EXCEPT ![d] = <<Dead, 0>>]
      /\ \A e \in Dirs : loc[e][1] # d
  BY DEF rmdir, Operation, toolvars, Children
<1>2. a \in Seq(StillEvents) /\ kq \in Seq(StillEvents)
  BY OnDirStill DEF TypeInv, Sync
<1>3. s \in Seq(StillNotices)
  <2>1. p \in Dirs \cup {Root} /\ loc[d][2] \in Names
    BY <1>1, TreePlace, NamedPlace
  <2> QED
    BY <2>1, NoticeStill
<1> HIDE DEF a, s
<1>4. kq' \in Seq(StillEvents) /\ late' \in [Dirs -> Seq(StillNotices)]
  BY <1>1, <1>2, <1>3, ConcatTypes, LateStill
<1>5. loc \in [Dirs -> Locations] /\ Distinct(loc)
  BY DEF TypeInv, Sync
<1>6. Distinct(loc')
  BY <1>1, <1>5, DistinctKept
<1>7. /\ d \notin DOMAIN kmarks' /\ DOMAIN kmarks' \subseteq DOMAIN kmarks
      /\ \A e \in DOMAIN kmarks' : kmarks'[e] = kmarks[e]
  BY <1>1 DEF Drop
<1>8. \A e \in Dirs : e # d => loc'[e] = loc[e]
  BY <1>1, <1>5
<1>9. Named(loc', kmarks', reg)
  BY <1>1, <1>6, <1>7, <1>8, NamedKept
<1> QED
  BY <1>1, <1>4, <1>6, <1>9 DEF Sync

\* The kernel tells of an operation.
LEMMA NotifySync ==
  ASSUME TypeInv, Sync, NEW d \in Dirs, Notify(d)
  PROVE  Sync'
<1> DEFINE x == Head(late[d])
           q == OnDir(x.dir, x.kind, x.name)
<1>1. /\ UNCHANGED <<loc, kmarks, knext, reg, moved_from>>
      /\ late[d] # << >> /\ kq' = kq \o q /\ late' = [late EXCEPT ![d] = Tail(@)]
  BY DEF Notify, toolvars
<1>2. late[d] \in Seq(StillNotices) /\ late \in [Dirs -> Seq(StillNotices)] /\ kq \in Seq(StillEvents)
  BY DEF Sync
<1>3. x \in StillNotices /\ Tail(late[d]) \in Seq(StillNotices)
  BY <1>1, <1>2, HeadTailProperties
<1>4. late' \in [Dirs -> Seq(StillNotices)]
  BY <1>1, <1>2, <1>3
<1> HIDE DEF x
<1>5. /\ x.kind \in {"create", "moved_to", "other"} /\ x.name \in Names \cup {0}
      /\ x.kind # "other" => x.name # 0
  BY <1>3 DEF StillNotices, Notices
<1>6. q \in Seq(StillEvents)
  BY <1>5, OnDirStill DEF TypeInv
<1> HIDE DEF q
<1>7. kq' \in Seq(StillEvents)
  BY <1>1, <1>2, <1>6, ConcatProperties
<1> QED
  BY <1>1, <1>4, <1>7 DEF Sync

\* watch_file: a directory that is watched already keeps its descriptor and
\* name, another one is filed under a new descriptor.
LEMMA ScanWatchSync ==
  ASSUME TypeInv, Sync, ScanWatch
  PROVE  Sync'
<1> DEFINE dir == Resolve(Top.path)
           marked == dir \in DOMAIN kmarks
           wd == IF marked THEN kmarks[dir] ELSE knext
<1>1. UNCHANGED <<loc, late, kq, moved_from>> /\ scan # << >>
  BY DEF ScanWatch, fsvars
<1>2. CASE UNCHANGED <<kmarks, knext, reg>>
  BY <1>1, <1>2 DEF Sync
<1>3. CASE /\ kmarks' = Put(kmarks, dir, wd)
           /\ knext' = IF marked THEN knext ELSE knext + 1
           /\ reg' = CreateInotifyWatch(reg, wd, Top.path)
  <2> DEFINE Name(r, w) == r.watches[r.by_wd[w]].filename
             path == Top.path
  <2>1. IsPath(path) /\ Sound(reg) /\ dir = ResolveIn(loc, path)
    BY <1>1, ScanType, ResolveNow DEF TypeInv
  <2>2. /\ DOMAIN reg.by_wd \subseteq 1..(knext - 1) /\ knext \in Nat \ {0}
        /\ \A d \in DOMAIN kmarks : kmarks[d] \in DOMAIN reg.by_wd /\ ResolveIn(loc, Name(reg, kmarks[d])) = d
    BY DEF Sync, Named, TypeInv, KernelOK
  <2> HIDE DEF path
  <2>3. /\ DOMAIN reg'.by_wd = DOMAIN reg.by_wd \cup {wd}
        /\ \A w \in DOMAIN reg.by_wd : Name(reg', w) = Name(reg, w)
        /\ wd \notin DOMAIN reg.by_wd => Name(reg', wd) = path
    <3>1. reg' = CreateInotifyWatch(reg, wd, path)
      BY <1>3 DEF path
    <3> HIDE DEF wd
    <3> QED
      BY <2>1, <3>1, CreateSound
  <2> HIDE DEF Name, dir
  <2>4. marked => wd \in DOMAIN reg.by_wd /\ ResolveIn(loc, Name(reg, wd)) = dir /\ wd = kmarks[dir] /\ knext' = knext
    BY <1>3, <2>2
  <2>5. ~marked => wd \notin DOMAIN reg.by_wd /\ wd = knext /\ knext' = knext + 1
    BY <1>3, <2>2
  <2>6. DOMAIN kmarks' = DOMAIN kmarks \cup {dir} /\ \A d \in DOMAIN kmarks' : kmarks'[d] = IF d = dir THEN wd ELSE kmarks[d]
    BY <1>3 DEF Put
  <2> HIDE DEF marked, wd
  <2>7. DOMAIN reg'.by_wd \subseteq 1..(knext' - 1)
    BY <2>2, <2>3, <2>4, <2>5
  <2>8. wd \in DOMAIN reg'.by_wd /\ ResolveIn(loc, Name(reg', wd)) = dir
    BY <2>1, <2>3, <2>4, <2>5
  <2>9. ASSUME NEW d \in DOMAIN kmarks'
        PROVE  kmarks'[d] \in DOMAIN reg'.by_wd /\ ResolveIn(loc, Name(reg', kmarks'[d])) = d
    <3>1. CASE d = dir
      BY <2>6, <2>8, <3>1
    <3>2. CASE d # dir
      BY <2>2, <2>3, <2>6, <3>2
    <3> QED
      BY <3>1, <3>2
  <2>10. Named(loc, kmarks', reg')
    BY <2>9 DEF Named, Name
  <2> QED
    BY <1>1, <2>7, <2>10 DEF Sync
<1>4. \/ UNCHANGED <<kmarks, knext, reg>>
      \/ /\ kmarks' = Put(kmarks, dir, wd)
         /\ knext' = IF marked THEN knext ELSE knext + 1
         /\ reg' = CreateInotifyWatch(reg, wd, Top.path)
  BY DEF ScanWatch, Vanished
<1> QED
  BY <1>2, <1>3, <1>4

\* No directory has left the tree when an event is handled.
LEMMA LeaveNothing ==
  ASSUME TypeInv, Sync, kq # << >>, LeaveTree(reg')
  PROVE  reg' = reg /\ kmarks' = kmarks /\ kq' = Tail(kq)
<1>1. ~LeftMarked
  BY DEF Sync, LeftMarked, LeftFiled
<1>2. kq' = Tail(kq) \o << >> /\ kmarks' = kmarks /\ reg' = reg
  BY <1>1 DEF LeaveTree, RegAfterLeave
<1>3. Tail(kq) \in Seq(KernelEvents)
  BY FirstEvent DEF TypeInv, KernelOK
<1> QED
  BY <1>2, <1>3, ConcatEmptySeq

\* The first event, and the ones after it.
LEMMA FirstStill ==
  ASSUME Sync, kq # << >>
  PROVE  Tail(kq) \in Seq(StillEvents) /\ E.kind # "moved_from"
<1>1. Head(kq) \in StillEvents /\ Tail(kq) \in Seq(StillEvents)
  BY HeadTailProperties DEF Sync
<1> QED
  BY <1>1 DEF StillEvents, E

\* Every step of the tool keeps the names in step.
LEMMA SyncTool ==
  ASSUME TypeInv, Sync, Tool
  PROVE  Sync'
<1>1. CASE ScanOpen \/ ScanEntry
  BY <1>1 DEF ScanOpen, Vanished, ScanEntry, fsvars, Sync
<1>2. CASE ScanWatch
  BY <1>2, ScanWatchSync
<1>3. CASE DropFiltered
  BY <1>3, FirstStill DEF DropFiltered, fsvars, toolvars, Sync
<1>4. CASE HandleCreate \/ HandleOther
  <2>1. kq # << >> /\ LeaveTree(reg') /\ moved_from' = << >> /\ UNCHANGED <<loc, late, knext>>
    BY <1>4 DEF HandleCreate, HandleOther, Receives, fsvars
  <2> QED
    BY <2>1, LeaveNothing, FirstStill DEF Sync
<1>5. CASE HandleMovedFrom
  BY <1>5, FirstStill DEF HandleMovedFrom, Receives
<1>6. CASE HandleMovedIn
  BY <1>6, FirstStill DEF HandleMovedIn, Receives, fsvars, Sync
<1>7. CASE HandleMovedTo
  BY <1>7 DEF HandleMovedTo, Sync
<1> QED
  BY <1>1, <1>2, <1>3, <1>4, <1>5, <1>6, <1>7 DEF Tool

\* Every step keeps the names in step.
LEMMA SyncStep ==
  ASSUME TypeInv, Sync, Growing, [Next]_vars
  PROVE  Sync'
<1>1. CASE Tool
  BY <1>1, SyncTool
<1>2. ASSUME NEW d \in Dirs, NEW p \in Dirs \cup {Root}, NEW n \in Names,
             mkdir(d, p, n) \/ rename(d, p, n) \/ movein(d, p, n)
      PROVE  Sync'
  <2>1. ~rename(d, p, n)
    BY DEF rename, Operation, Growing
  <2> QED
    BY <1>2, <2>1, MkdirSync, MoveinSync
<1>3. ASSUME NEW d \in Dirs, rmdir(d) \/ moveout(d) \/ Notify(d)
      PROVE  Sync'
  <2>1. ~moveout(d)
    BY DEF moveout, Operation, Growing
  <2> QED
    BY <1>3, <2>1, RmdirSync, NotifySync
<1>4. CASE UNCHANGED vars
  BY <1>4 DEF vars, Sync
<1> QED
  BY <1>1, <1>2, <1>3, <1>4 DEF Next

\* At first nothing is watched, and the names are in step.
LEMMA SyncInit == Init => Sync
<1> SUFFICES ASSUME Init PROVE Sync
  OBVIOUS
<1>1. Distinct(loc)
  BY InitialLocAssumption DEF Init, Distinct
<1>2. kmarks = EmptyMap /\ reg.by_wd = EmptyMap /\ kq = << >> /\ moved_from = << >>
  BY DEF Init, EmptyRegistry
<1>3. DOMAIN kmarks = {} /\ DOMAIN reg.by_wd = {}
  BY <1>2 DEF EmptyMap
<1>4. Named(loc, kmarks, reg)
  BY <1>3 DEF Named
<1>5. late \in [Dirs -> Seq(StillNotices)]
  BY EmptySeq DEF Init
<1> QED
  BY <1>5, <1>1, <1>2, <1>3, <1>4, EmptySeq DEF Sync

\* The mode is chosen once.
LEMMA ModeKept ==
  ASSUME [Next]_vars
  PROVE  mode' = mode
<1>1. CASE Tool
  BY <1>1 DEF Tool, ScanOpen, ScanEntry, ScanWatch, DropFiltered, HandleCreate, HandleMovedFrom,
              HandleOther, HandleMovedIn, HandleMovedTo
<1>2. ASSUME NEW op, NEW d, NEW locked, NEW s, Operation(op, d, locked, s) PROVE mode' = mode
  BY <1>2 DEF Operation
<1>3. ASSUME NEW d \in Dirs, NEW p \in Dirs \cup {Root}, NEW n \in Names,
             mkdir(d, p, n) \/ rename(d, p, n) \/ movein(d, p, n)
      PROVE  mode' = mode
  BY <1>2, <1>3 DEF mkdir, rename, movein
<1>4. ASSUME NEW d \in Dirs, rmdir(d) \/ moveout(d) \/ Notify(d)
      PROVE  mode' = mode
  BY <1>2, <1>4 DEF rmdir, moveout, Notify
<1>5. CASE UNCHANGED vars
  BY <1>5 DEF vars
<1> QED
  BY <1>1, <1>3, <1>4, <1>5 DEF Next

\* As long as directories are only made, removed and moved in, from the first
\* system call of the first scan on and any number at a time, the events of
\* every watched directory in the tree are reported under its current path,
\* whether or not the tool has caught up: watches of removed directories that
\* are still filed, names used again and the scans that run meanwhile never
\* give a watch the name of another directory.
THEOREM NamesStayInSync == Spec => [](Growing => NamesInSync)
<1> DEFINE Inv == TypeInv /\ (Growing => Sync)
<1>1. Init => Inv
  BY TypeInit, SyncInit
<1>2. Inv /\ [Next]_vars => Inv'
  <2> SUFFICES ASSUME Inv, [Next]_vars PROVE Inv'
    OBVIOUS
  <2>1. TypeInv'
    BY TypeStep
  <2>2. Growing' = Growing
    BY ModeKept DEF Growing
  <2>3. Growing => Sync'
    BY SyncStep
  <2> QED
    BY <2>1, <2>2, <2>3
<1>3. Inv => (Growing => NamesInSync)
  <2> SUFFICES ASSUME TypeInv, Sync PROVE NamesInSync
    OBVIOUS
  <2>1. ASSUME NEW d \in DOMAIN kmarks
        PROVE  /\ kmarks[d] \in DOMAIN reg.by_wd
               /\ Resolve(reg.watches[reg.by_wd[kmarks[d]]].filename) = d
    <3>1. Resolve(reg.watches[reg.by_wd[kmarks[d]]].filename)
            = ResolveIn(loc, reg.watches[reg.by_wd[kmarks[d]]].filename)
      BY ResolveNow
    <3> QED
      BY <3>1 DEF Sync, Named
  <2> QED
    BY <2>1 DEF NamesInSync
<1> HIDE DEF Inv
<1> QED
  BY <1>1, <1>2, <1>3, PTL DEF Spec

(***************************************************************************)
(* The whole tree is watched, when others wait for the tool.               *)
(***************************************************************************)

\* Others wait, and there is room for a watch on every directory.
Roomy == Growing /\ mode.quiet /\ HasRoom

\* A directory is watched, or passed over on purpose.
Handled(d) ==
  \/ d \in DOMAIN kmarks
  \/ d \in mode.denied
  \/ \E path \in mode.excluded : ResolveIn(loc, path) = d

\* A call of watch_recursively is at it, or has read its name already, or
\* an event that tells of it waits or is still to be queued.
Begun(d) == \E f \in ToSet(scan) : ResolveIn(loc, f.path) = d
Passed(d) ==
  \E f \in ToSet(scan) :
    f.opened /\ ResolveIn(loc, f.path) = loc[d][1] /\ loc[d][2] \notin f.todo
Tells(e, d) == e.wd = kmarks[loc[d][1]] /\ e.name = loc[d][2] /\ e.kind \in {"create", "moved_to"}
Pends(x, d) == x.dir = loc[d][1] /\ x.name = loc[d][2] /\ x.kind \in {"create", "moved_to"}
Announced(d) ==
  /\ loc[d][1] \in DOMAIN kmarks
  /\ (\E e \in ToSet(kq) : Tells(e, d)) \/ (\E x \in ToSet(late[d]) : Pends(x, d))

\* No directory is forgotten, and no call is at one that has gone.
Cover ==
  /\ \A d \in Dirs :
       loc[d][1] \in DOMAIN kmarks \/ Passed(d) => Handled(d) \/ Begun(d) \/ Announced(d)
  /\ \A f \in ToSet(scan) :
       ResolveIn(loc, f.path) # Dead /\ \A n \in f.todo : ResolveIn(loc, Append(f.path, n)) # Dead

\* The calls under way, and the events that wait.
LEMMA ScanParts ==
  ASSUME TypeInv, scan # << >>
  PROVE  /\ ToSet(scan) = ToSet(Below) \cup {Top}
         /\ \A f \in Calls : ToSet(Append(Below, f)) = ToSet(Below) \cup {f}
         /\ \A f \in Calls, g \in Calls : ToSet(Append(Append(Below, f), g)) = ToSet(Below) \cup {f, g}
<1>1. Top \in Calls /\ Below \in Seq(Calls) /\ scan = Append(Below, Top)
  <2>1. scan \in Seq(Calls)
    BY DEF TypeInv
  <2> QED
    BY <2>1, ButLast DEF Top, Below
<1>2. \A f \in Calls : ToSet(Append(Below, f)) = ToSet(Below) \cup {f}
  BY <1>1, ToSetFacts
<1>3. ToSet(scan) = ToSet(Below) \cup {Top}
  <2>1. ToSet(Append(Below, Top)) = ToSet(Below) \cup {Top}
    BY <1>1, <1>2
  <2> QED
    BY <1>1, <2>1, Zenon
<1>4. ASSUME NEW f \in Calls, NEW g \in Calls
      PROVE  ToSet(Append(Append(Below, f), g)) = ToSet(Below) \cup {f, g}
  <2>1. Append(Below, f) \in Seq(Calls)
    BY <1>1, AppendProperties
  <2>2. \A s \in Seq(Calls), e \in Calls : ToSet(Append(s, e)) = ToSet(s) \cup {e}
    BY ToSetFacts
  <2>3. ToSet(Append(Append(Below, f), g)) = ToSet(Append(Below, f)) \cup {g}
    BY <2>1, <2>2, Zenon
  <2> QED
    BY <1>2, <2>3
<1> QED
  BY <1>2, <1>3, <1>4

\* The queue is its first event and the others.
LEMMA QueueParts ==
  ASSUME TypeInv, kq # << >>
  PROVE  ToSet(kq) = {E} \cup ToSet(Tail(kq))
BY ToSetFacts DEF TypeInv, KernelOK, E

\* A directory is where the path of its parent and its name lead.
LEMMA ChildPath ==
  ASSUME TypeInv, Sync, NEW q, IsPath(q), NEW n \in Names, NEW d \in Dirs,
         loc[d][1] = ResolveIn(loc, q), loc[d][2] = n
  PROVE  ResolveIn(loc, Append(q, n)) = d
<1>1. loc[d] = <<ResolveIn(loc, q), n>>
  <2>1. loc[d] \in Locations
    BY DEF TypeInv
  <2> QED
    BY <2>1 DEF Locations
<1>2. EntryIn(loc, ResolveIn(loc, q), n) = d
  BY <1>1, EntryIs DEF Sync
<1> QED
  BY <1>2, ResolveSteps

\* Excluded paths lead to the same directories after another one was moved.
LEMMA ExcludedKept ==
  ASSUME TypeInv, NEW m, Distinct(m), NEW d \in Dirs,
         \A e \in Dirs : e # d => m[e] = loc[e],
         loc[d][1] \notin Dirs \cup {Root} \/ \A e \in Dirs : loc[e][1] # d,
         NEW e \in Dirs, e # d
  PROVE  \A path \in mode.excluded : ResolveIn(loc, path) = e => ResolveIn(m, path) = e
<1> SUFFICES ASSUME NEW path \in mode.excluded, ResolveIn(loc, path) = e
             PROVE  ResolveIn(m, path) = e
  OBVIOUS
<1>1. IsPath(path) /\ loc \in [Dirs -> Locations]
  BY ModesAssumption DEF TypeInv
<1>2. ResolveIn(loc, path) \notin {Dead, d}
  BY PlacesAssumption DEF Places
<1>3. ResolveIn(m, path) = ResolveIn(loc, path)
  BY <1>1, <1>2, ResolveKept
<1> QED
  BY <1>3

\* Operations on the tree while nothing is under way.
LEMMA AppearCover ==
  ASSUME TypeInv, Sync, Cover, NEW d \in Dirs, NEW p \in Dirs \cup {Root}, NEW n \in Names,
         loc' = [loc EXCEPT ![d] = <<p, n>>], loc[d][1] \in {Fresh, Out}, Vacant(p, n),
         UNCHANGED <<mode, kmarks, scan>>, Quiescent,
         \E x \in ToSet(late'[d]) : x.dir = p /\ x.name = n /\ x.kind \in {"create", "moved_to"}
  PROVE  Cover'
<1>1. ToSet(scan) = {} /\ ToSet(scan') = {} /\ ToSet(kq) = {} /\ \A e \in Dirs : ToSet(late[e]) = {}
  BY ToSetFacts DEF Quiescent, Idle
<1>2. loc \in [Dirs -> Locations] /\ Distinct(loc) /\ loc[d][1] \notin Dirs \cup {Root}
  BY PlacesAssumption DEF TypeInv, Sync, Places
<1>3. Distinct(loc')
  BY <1>2, DistinctKept
<1>4. \A e \in Dirs : e # d => loc'[e] = loc[e]
  BY <1>2
<1>5. loc'[d] = <<p, n>>
  BY <1>2
<1>6. ASSUME NEW e \in Dirs, loc'[e][1] \in DOMAIN kmarks'
      PROVE  Handled(e)' \/ Announced(e)'
  <2>1. CASE e = d
    <3>1. loc'[d][1] \in DOMAIN kmarks' /\ loc'[d][1] = p /\ loc'[d][2] = n
      BY <1>5, <1>6, <2>1
    <3> QED
      BY <2>1, <3>1 DEF Announced, Pends
  <2>2. CASE e # d
    <3>1. loc[e][1] \in DOMAIN kmarks
      BY <1>4, <1>6, <2>2
    <3>2. Handled(e)
      BY <1>1, <3>1 DEF Cover, Begun, Announced
    <3>3. \A path \in mode.excluded : ResolveIn(loc, path) = e => ResolveIn(loc', path) = e
      <4>1. loc[d][1] \notin Dirs \cup {Root} \/ \A x \in Dirs : loc[x][1] # d
        BY <1>2
      <4>2. \A x \in Dirs : x # d => loc'[x] = loc[x]
        BY <1>4
      <4> QED
        BY <1>3, <2>2, <4>1, <4>2, ExcludedKept, ZenonT(30)
    <3> QED
      BY <3>2, <3>3 DEF Handled
  <2> QED
    BY <2>1, <2>2
<1> QED
  BY <1>1, <1>6 DEF Cover, Passed

\* A directory that is made is announced.
LEMMA MkdirCover ==
  ASSUME TypeInv, Sync, Cover, mode.quiet,
         NEW d \in Dirs, NEW p \in Dirs \cup {Root}, NEW n \in Names, mkdir(d, p, n)
  PROVE  Cover'
<1> DEFINE x == Notice(p, "create", n, {p})
<1>1. /\ UNCHANGED <<mode, kmarks, scan>> /\ Quiescent /\ late' = [late EXCEPT ![d] = <<x>>]
      /\ loc' = [loc EXCEPT ![d] = <<p, n>>] /\ loc[d][1] \in {Fresh, Out} /\ Vacant(p, n)
  BY DEF mkdir, Operation, toolvars
<1>2. x.dir = p /\ x.name = n /\ x.kind = "create"
  BY DEF Notice
<1> HIDE DEF x
<1>3. late'[d] = <<x>>
  BY <1>1 DEF TypeInv
<1>4. x \in ToSet(late'[d])
  BY <1>3 DEF ToSet
<1> QED
  BY <1>1, <1>2, <1>4, AppearCover

\* So is one that is moved in.
LEMMA MoveinCover ==
  ASSUME TypeInv, Sync, Cover, mode.quiet,
         NEW d \in Dirs, NEW p \in Dirs \cup {Root}, NEW n \in Names, movein(d, p, n)
  PROVE  Cover'
<1> DEFINE x == MovedTo(p, n, {p})
           s == WithSelf(d, {p}, <<x>>)
<1>1. /\ UNCHANGED <<mode, kmarks, scan>> /\ Quiescent /\ late' = [late EXCEPT ![d] = s]
      /\ loc' = [loc EXCEPT ![d] = <<p, n>>] /\ loc[d][1] \in {Fresh, Out} /\ Vacant(p, n)
  BY DEF movein, Operation, toolvars
<1>2. x.dir = p /\ x.name = n /\ x.kind = "moved_to"
  BY DEF MovedTo, Notice
<1>3. x \in Notices
  BY MovedType
<1> HIDE DEF x
<1>4. x \in ToSet(s)
  <2> DEFINE t == <<x>>
             y == Notice(d, "other", 0, {p})
  <2>1. t \in Seq(Notices) /\ x \in ToSet(t) /\ y \in Notices
    BY <1>3, NoticeType DEF ToSet
  <2> HIDE DEF t, y
  <2>2. x \in ToSet(Append(t, y))
    BY <2>1, ToSetFacts
  <2> QED
    BY <2>1, <2>2 DEF WithSelf, t, y
<1> HIDE DEF s
<1>5. late'[d] = s
  BY <1>1 DEF TypeInv
<1> QED
  BY <1>1, <1>2, <1>4, <1>5, AppearCover

\* The removal of a directory loses no other one.
LEMMA RmdirCover ==
  ASSUME TypeInv, Sync, Cover, mode.quiet, NEW d \in Dirs, rmdir(d)
  PROVE  Cover'
<1>1. /\ UNCHANGED <<mode, scan>> /\ Quiescent
      /\ kmarks' = Drop(kmarks, d) /\ loc' = [loc EXCEPT ![d] = <<Dead, 0>>]
      /\ \A e \in Dirs : loc[e][1] # d
  BY DEF rmdir, Operation, toolvars, Children
<1>2. ToSet(scan) = {} /\ ToSet(scan') = {} /\ ToSet(kq) = {} /\ \A e \in Dirs : ToSet(late[e]) = {}
  BY <1>1, ToSetFacts DEF Quiescent, Idle
<1>3. loc \in [Dirs -> Locations] /\ Distinct(loc) /\ DOMAIN kmarks \subseteq Dirs \cup {Root}
  BY DEF TypeInv, Sync, KernelOK
<1>4. Distinct(loc')
  BY <1>1, <1>3, DistinctKept
<1>5. /\ \A e \in Dirs : e # d => loc'[e] = loc[e]
      /\ loc'[d] = <<Dead, 0>>
  BY <1>1, <1>3
<1>6. DOMAIN kmarks' = DOMAIN kmarks \ {d} /\ Dead \notin DOMAIN kmarks
  BY <1>1, <1>3, PlacesAssumption DEF Drop, Places
<1>7. ASSUME NEW e \in Dirs, loc'[e][1] \in DOMAIN kmarks'
      PROVE  Handled(e)'
  <2>1. e # d
    BY <1>5, <1>6, <1>7
  <2>2. loc[e][1] \in DOMAIN kmarks
    BY <1>5, <1>6, <1>7, <2>1
  <2>3. Handled(e)
    BY <1>2, <2>2 DEF Cover, Begun, Announced
  <2>4. \A path \in mode.excluded : ResolveIn(loc, path) = e => ResolveIn(loc', path) = e
    <3>1. \A x \in Dirs : x # d => loc'[x] = loc[x]
      BY <1>5
    <3>2. \A x \in Dirs : loc[x][1] # d
      BY <1>1
    <3> QED
      BY <1>4, <2>1, <3>1, <3>2, ExcludedKept, ZenonT(30)
  <2> QED
    BY <1>1, <1>6, <2>1, <2>3, <2>4 DEF Handled
<1> QED
  BY <1>2, <1>7 DEF Cover, Passed

\* What was still to be told of a directory that appeared waits in the queue.
LEMMA NotifyCover ==
  ASSUME TypeInv, Cover, NEW d \in Dirs, Notify(d)
  PROVE  Cover'
<1> DEFINE x == Head(late[d])
           q == OnDir(x.dir, x.kind, x.name)
<1>1. /\ UNCHANGED <<loc, mode, kmarks, scan>>
      /\ late[d] # << >> /\ kq' = kq \o q /\ late' = [late EXCEPT ![d] = Tail(@)]
  BY DEF Notify, toolvars
<1>2. /\ late[d] \in Seq(Notices) /\ late \in [Dirs -> Seq(Notices)]
      /\ kq \in Seq(KernelEvents) /\ KernelOK(kmarks, knext, kq)
  BY DEF TypeInv, KernelOK
<1>3. x \in Notices /\ ToSet(late[d]) = {x} \cup ToSet(Tail(late[d]))
  BY <1>1, <1>2, HeadTailProperties, ToSetFacts
<1> HIDE DEF x
<1>4. q \in Seq(KernelEvents)
  BY <1>2, <1>3, OnDirType DEF Notices
<1>5. ToSet(kq') = ToSet(kq) \cup ToSet(q)
  <2> HIDE DEF q
  <2> QED
    BY <1>1, <1>2, <1>4, ToSetFacts
<1>6. x.dir \in DOMAIN kmarks => ToSet(q) = {Event(kmarks[x.dir], x.kind, x.name)}
  BY ToSetFacts DEF OnDir
<1> HIDE DEF q
<1>7. \A e \in Dirs : late'[e] = IF e = d THEN Tail(late[d]) ELSE late[e]
  BY <1>1, <1>2
<1>8. ASSUME NEW e \in Dirs, Announced(e) PROVE Announced(e)'
  <2>1. loc[e][1] \in DOMAIN kmarks
    BY <1>8 DEF Announced
  <2>2. ASSUME NEW v \in ToSet(kq), Tells(v, e) PROVE Announced(e)'
    BY <1>1, <1>5, <2>1, <2>2 DEF Announced, Tells
  <2>3. ASSUME NEW y \in ToSet(late[e]), Pends(y, e) PROVE Announced(e)'
    <3>1. CASE e = d /\ y = x
      <4> DEFINE v == Event(kmarks[x.dir], x.kind, x.name)
      <4>1. v \in ToSet(kq') /\ Tells(v, e)
        BY <1>5, <1>6, <2>1, <2>3, <3>1 DEF Pends, Tells, Event
      <4> QED
        BY <1>1, <2>1, <4>1 DEF Announced, Tells
    <3>2. CASE ~(e = d /\ y = x)
      <4>1. y \in ToSet(late'[e])
        BY <1>3, <1>7, <2>3, <3>2
      <4> QED
        BY <1>1, <2>1, <2>3, <4>1 DEF Announced, Pends
    <3> QED
      BY <3>1, <3>2
  <2> QED
    BY <1>8, <2>2, <2>3 DEF Announced
<1>9. ASSUME NEW e \in Dirs
      PROVE  Passed(e)' = Passed(e) /\ Begun(e)' = Begun(e) /\ Handled(e)' = Handled(e)
  BY <1>1 DEF Passed, Begun, Handled
<1> QED
  BY <1>1, <1>8, <1>9 DEF Cover

\* opendir and readdir
LEMMA ScanOpenCover ==
  ASSUME TypeInv, Sync, Cover, ScanOpen
  PROVE  Cover'
<1> DEFINE dir == Resolve(Top.path)
           next == [path |-> Top.path, opened |-> TRUE, todo |-> {loc[d][2] : d \in Children(dir)}]
<1>1. /\ scan # << >> /\ UNCHANGED <<loc, late, mode, kmarks, kq>>
      /\ dir = NoDir \/ dir \in mode.denied => scan' = Below
      /\ ~(dir = NoDir \/ dir \in mode.denied) => scan' = Append(Below, next)
  BY DEF ScanOpen, Vanished, fsvars
<1>2. Top \in Calls /\ IsPath(Top.path) /\ Top.path \in Seq(Names \cup {RootName})
  BY <1>1, ScanType DEF Calls
<1>3. ToSet(scan) = ToSet(Below) \cup {Top}
  BY <1>1, ScanParts
<1>4. dir = ResolveIn(loc, Top.path) /\ dir # Dead
  <2>1. dir = ResolveIn(loc, Top.path)
    BY ResolveNow
  <2> HIDE DEF dir
  <2> QED
    BY <2>1, <1>3 DEF Cover
<1>5. dir \in Dirs \cup {Root}
  <2> HIDE DEF dir
  <2> QED
    BY <1>2, <1>4, ResolveType
<1>6. next.path = Top.path /\ next.todo = {loc[d][2] : d \in Children(dir)}
  OBVIOUS
<1> HIDE DEF dir, next
<1>7. CASE dir \in mode.denied
  <2>1. ToSet(scan') = ToSet(Below)
    BY <1>1, <1>7
  <2>2. ASSUME NEW d \in Dirs PROVE (Passed(d)' => Passed(d)) /\ (Begun(d) => Begun(d)' \/ d = dir)
    BY <1>1, <1>3, <1>4, <2>1 DEF Passed, Begun
  <2>3. ASSUME NEW d \in Dirs PROVE Handled(d)' = (Handled(d) \/ d = dir) /\ Announced(d)' = Announced(d)
    BY <1>1, <1>7 DEF Handled, Announced, Tells, Pends
  <2> QED
    BY <1>1, <1>3, <2>1, <2>2, <2>3 DEF Cover
<1>8. CASE dir \notin mode.denied
  <2>1. next \in Calls
    <3>1. {loc[d][2] : d \in Children(dir)} \subseteq Names
      BY <1>5, ChildNames DEF TypeInv
    <3> QED
      BY <1>2, <3>1 DEF Calls, next
  <2>2. ToSet(scan') = ToSet(Below) \cup {next}
    <3>1. scan' = Append(Below, next)
      BY <1>1, <1>4, <1>8 DEF NoDir
    <3> QED
      BY <1>1, <2>1, <3>1, ScanParts
  <2>3. ASSUME NEW d \in Dirs PROVE Passed(d)' => Passed(d)
    <3>1. SUFFICES ASSUME NEW f \in ToSet(scan'), f.opened, ResolveIn(loc, f.path) = loc[d][1],
                          loc[d][2] \notin f.todo
                   PROVE  Passed(d)
      BY <1>1 DEF Passed
    <3>2. CASE f = next
      <4>1. loc[d][1] = dir
        BY <1>4, <1>6, <3>1, <3>2
      <4>2. loc[d][2] \in next.todo
        BY <1>6, <4>1 DEF Children
      <4> QED
        BY <3>1, <3>2, <4>2
    <3>3. CASE f \in ToSet(Below)
      BY <1>3, <3>1, <3>3 DEF Passed
    <3> QED
      BY <2>2, <3>2, <3>3
  <2>4. ASSUME NEW d \in Dirs PROVE Begun(d) => Begun(d)'
    BY <1>1, <1>3, <1>6, <2>2 DEF Begun
  <2>5. ASSUME NEW d \in Dirs PROVE Handled(d)' = Handled(d) /\ Announced(d)' = Announced(d)
    BY <1>1 DEF Handled, Announced, Tells, Pends
  <2>6. ASSUME NEW n \in next.todo PROVE ResolveIn(loc, Append(next.path, n)) # Dead
    <3>1. PICK d \in Dirs : loc[d][1] = dir /\ loc[d][2] = n
      BY <1>6 DEF Children
    <3>2. n \in Names
      BY <2>1 DEF Calls
    <3>3. ResolveIn(loc, Append(Top.path, n)) = d
      BY <1>2, <1>4, <3>1, <3>2, ChildPath
    <3> QED
      BY <1>6, <3>3, PlacesAssumption DEF Places
  <2>7. ASSUME NEW f \in ToSet(scan')
        PROVE  ResolveIn(loc', f.path) # Dead /\ \A n \in f.todo : ResolveIn(loc', Append(f.path, n)) # Dead
    <3>1. CASE f = next
      BY <1>1, <1>4, <1>6, <2>6, <3>1
    <3>2. CASE f \in ToSet(Below)
      BY <1>1, <1>3, <3>2 DEF Cover
    <3> QED
      BY <2>2, <3>1, <3>2
  <2>8. ASSUME NEW d \in Dirs, loc'[d][1] \in DOMAIN kmarks' \/ Passed(d)'
        PROVE  Handled(d)' \/ Begun(d)' \/ Announced(d)'
    BY <1>1, <2>3, <2>4, <2>5, <2>8 DEF Cover
  <2> QED
    BY <2>7, <2>8 DEF Cover
<1> QED
  BY <1>7, <1>8

\* An entry is passed: it is scanned, or excluded.
LEMMA ScanEntryCover ==
  ASSUME TypeInv, Sync, Cover, ScanEntry
  PROVE  Cover'
<1>1. PICK n \in Top.todo :
        LET path == Append(Top.path, n)
            rest == Append(Below, [Top EXCEPT !.todo = @ \ {n}])
        IN  scan' = CASE Resolve(path) = NoDir -> Below
                      [] Resolve(path) # NoDir /\ is_excluded(path) -> rest
                      [] OTHER -> Append(rest, Frame(path))
  BY DEF ScanEntry
<1> DEFINE path == Append(Top.path, n)
           top == [Top EXCEPT !.todo = @ \ {n}]
           new == Frame(path)
           x == ResolveIn(loc, path)
<1>2. scan # << >> /\ UNCHANGED <<loc, late, mode, kmarks, kq>>
  BY DEF ScanEntry, fsvars
<1>3. Top \in Calls /\ IsPath(Top.path) /\ n \in Names /\ Top.opened
  BY <1>1, <1>2, ScanType DEF ScanEntry
<1>4. ToSet(scan) = ToSet(Below) \cup {Top}
  BY <1>2, ScanParts
<1>5. top \in Calls /\ top.path = Top.path /\ top.opened /\ top.todo = Top.todo \ {n}
  BY <1>3 DEF Calls
<1>6. IsPath(path)
  BY <1>3, PathAppend
<1>7. new \in Calls /\ new.path = path /\ ~new.opened /\ new.todo = {}
  <2> HIDE DEF path
  <2> QED
    BY <1>6, FrameType DEF Frame
<1>8. x # Dead /\ x = Resolve(path)
  <2>1. x = Resolve(path)
    BY ResolveNow
  <2>2. x # Dead
    BY <1>1, <1>4 DEF Cover
  <2> QED
    BY <2>1, <2>2
<1>9. \/ path \in mode.excluded /\ scan' = Append(Below, top)
      \/ scan' = Append(Append(Below, top), new)
  BY <1>1, <1>8 DEF is_excluded, NoDir
<1> HIDE DEF top, new, path, x
<1>10. \/ path \in mode.excluded /\ ToSet(scan') = ToSet(Below) \cup {top}
       \/ ToSet(scan') = ToSet(Below) \cup {top, new}
  BY <1>2, <1>5, <1>7, <1>9, ScanParts
<1>11. ASSUME NEW d \in Dirs, loc[d][1] = ResolveIn(loc, Top.path), loc[d][2] = n
       PROVE  Handled(d) \/ Begun(d)'
  <2>1. x = d
    BY <1>3, <1>11, ChildPath DEF x, path
  <2>2. CASE path \in mode.excluded
    BY <2>1, <2>2 DEF Handled, x
  <2>3. CASE ToSet(scan') = ToSet(Below) \cup {top, new}
    BY <1>2, <1>7, <2>1, <2>3 DEF Begun, x
  <2> QED
    BY <1>10, <2>2, <2>3
<1>12. ASSUME NEW d \in Dirs, Passed(d)' PROVE Passed(d) \/ Handled(d) \/ Begun(d)'
  <2>1. PICK f \in ToSet(scan') : f.opened /\ ResolveIn(loc, f.path) = loc[d][1] /\ loc[d][2] \notin f.todo
    BY <1>2, <1>12 DEF Passed
  <2>2. CASE f \in ToSet(Below)
    BY <1>4, <2>1, <2>2 DEF Passed
  <2>3. CASE f = top
    <3>1. CASE loc[d][2] = n
      BY <1>5, <1>11, <2>1, <2>3, <3>1
    <3>2. CASE loc[d][2] # n
      BY <1>3, <1>4, <1>5, <2>1, <2>3, <3>2 DEF Passed
    <3> QED
      BY <3>1, <3>2
  <2>4. CASE f = new
    BY <1>7, <2>1, <2>4
  <2> QED
    BY <1>10, <2>1, <2>2, <2>3, <2>4
<1>13. ASSUME NEW d \in Dirs PROVE /\ Begun(d) => Begun(d)'
                                   /\ Handled(d)' = Handled(d) /\ Announced(d)' = Announced(d)
  <2>1. Begun(d) => Begun(d)'
    BY <1>2, <1>4, <1>5, <1>10 DEF Begun
  <2> QED
    BY <2>1, <1>2 DEF Handled, Announced, Tells, Pends
<1>14. ASSUME NEW f \in ToSet(scan')
       PROVE  ResolveIn(loc', f.path) # Dead /\ \A m \in f.todo : ResolveIn(loc', Append(f.path, m)) # Dead
  <2>1. CASE f \in ToSet(Below)
    BY <1>2, <1>4, <2>1 DEF Cover
  <2>2. CASE f = top
    BY <1>2, <1>4, <1>5, <2>2 DEF Cover
  <2>3. CASE f = new
    BY <1>2, <1>7, <1>8, <2>3 DEF x
  <2> QED
    BY <1>10, <2>1, <2>2, <2>3
<1>15. ASSUME NEW d \in Dirs, loc'[d][1] \in DOMAIN kmarks' \/ Passed(d)'
       PROVE  Handled(d)' \/ Begun(d)' \/ Announced(d)'
  BY <1>2, <1>12, <1>13, <1>15 DEF Cover
<1> QED
  BY <1>14, <1>15 DEF Cover

\* watch_file: all entries of the directory have been passed, and there is
\* room for a watch.
LEMMA ScanWatchCover ==
  ASSUME TypeInv, Sync, Cover, HasRoom, ScanWatch
  PROVE  Cover'
<1> DEFINE dir == Resolve(Top.path)
           marked == dir \in DOMAIN kmarks
           wd == IF marked THEN kmarks[dir] ELSE knext
           full == ~marked /\ Cardinality(DOMAIN kmarks) >= mode.max_watches
<1>1. /\ scan # << >> /\ Top.opened /\ Top.todo = {} /\ UNCHANGED <<loc, late, mode, kq>>
      /\ dir # NoDir /\ ~full => kmarks' = Put(kmarks, dir, wd) /\ scan' = Below
  BY DEF ScanWatch, fsvars
<1>2. IsPath(Top.path)
  BY <1>1, ScanType
<1>3. ToSet(scan) = ToSet(Below) \cup {Top}
  BY <1>1, ScanParts
<1>4. dir = ResolveIn(loc, Top.path) /\ dir # Dead
  <2>1. dir = ResolveIn(loc, Top.path)
    BY ResolveNow
  <2> HIDE DEF dir
  <2> QED
    BY <2>1, <1>3 DEF Cover
<1> HIDE DEF dir
<1>5. dir \in Dirs \cup {Root}
  BY <1>2, <1>4, ResolveType
<1>6. ~full
  <2> SUFFICES ASSUME full PROVE FALSE
    OBVIOUS
  <2>a. dir \notin DOMAIN kmarks /\ Cardinality(DOMAIN kmarks) >= mode.max_watches
    OBVIOUS
  <2> DEFINE D == (Dirs \cup {Root}) \ {dir}
  <2>1. IsFiniteSet(Dirs) /\ Root \notin Dirs /\ DOMAIN kmarks \subseteq D
    BY <2>a, PlacesAssumption DEF Places, TypeInv, KernelOK
  <2>2. IsFiniteSet(Dirs \cup {Root}) /\ Cardinality(Dirs \cup {Root}) = Cardinality(Dirs) + 1
    BY <2>1, FS_AddElement
  <2>3. IsFiniteSet(D) /\ Cardinality(D) = Cardinality(Dirs \cup {Root}) - 1
    BY <1>5, <2>2, FS_RemoveElement
  <2> HIDE DEF D
  <2>4. IsFiniteSet(DOMAIN kmarks) /\ Cardinality(DOMAIN kmarks) <= Cardinality(D)
    BY <2>1, <2>3, FS_Subset
  <2>5. Cardinality(Dirs) \in Nat /\ Cardinality(DOMAIN kmarks) \in Nat
    BY <2>1, <2>4, FS_CardinalityType
  <2>6. Cardinality(Dirs) < mode.max_watches /\ mode.max_watches \in Nat
    BY ModesAssumption DEF HasRoom, TypeInv
  <2> QED
    BY <2>a, <2>2, <2>3, <2>4, <2>5, <2>6
<1>7. scan' = Below /\ DOMAIN kmarks' = DOMAIN kmarks \cup {dir} /\ \A d \in DOMAIN kmarks : kmarks'[d] = kmarks[d]
  <2>1. scan' = Below /\ kmarks' = Put(kmarks, dir, wd)
    BY <1>1, <1>4, <1>6 DEF NoDir
  <2>2. marked => wd = kmarks[dir]
    OBVIOUS
  <2> HIDE DEF wd
  <2> QED
    BY <2>1, <2>2 DEF Put
<1>8. ASSUME NEW d \in Dirs, loc'[d][1] \in DOMAIN kmarks' \/ Passed(d)'
      PROVE  loc[d][1] \in DOMAIN kmarks \/ Passed(d)
  <2>1. CASE loc[d][1] = dir
    <3>1. Top \in ToSet(scan) /\ loc[d][2] \notin Top.todo
      BY <1>1, <1>3
    <3> QED
      BY <1>1, <1>4, <2>1, <3>1 DEF Passed
  <2>2. CASE loc[d][1] # dir
    BY <1>1, <1>3, <1>7, <1>8, <2>2 DEF Passed
  <2> QED
    BY <2>1, <2>2
<1>9. ASSUME NEW d \in Dirs
      PROVE  /\ Begun(d) => Begun(d)' \/ Handled(d)'
             /\ Handled(d) => Handled(d)'
             /\ Announced(d) => Announced(d)'
  <2>1. Handled(d) => Handled(d)'
    BY <1>1, <1>7 DEF Handled
  <2>2. Announced(d) => Announced(d)'
    BY <1>1, <1>7 DEF Announced, Tells, Pends
  <2>3. Begun(d) => Begun(d)' \/ Handled(d)'
    <3>1. d = dir => Handled(d)'
      BY <1>7 DEF Handled
    <3> QED
      BY <1>1, <1>3, <1>4, <1>7, <3>1 DEF Begun
  <2> QED
    BY <2>1, <2>2, <2>3
<1>10. ASSUME NEW d \in Dirs, loc'[d][1] \in DOMAIN kmarks' \/ Passed(d)'
       PROVE  Handled(d)' \/ Begun(d)' \/ Announced(d)'
  <2>a. loc[d][1] \in DOMAIN kmarks \/ Passed(d)
    BY <1>8, <1>10
  <2>1. Handled(d) \/ Begun(d) \/ Announced(d)
    BY <2>a DEF Cover
  <2> QED
    BY <2>1, <1>9
<1>11. ASSUME NEW f \in ToSet(scan')
       PROVE  ResolveIn(loc', f.path) # Dead /\ \A m \in f.todo : ResolveIn(loc', Append(f.path, m)) # Dead
  BY <1>1, <1>3, <1>7 DEF Cover
<1> QED
  BY <1>10, <1>11 DEF Cover

\* An event that tells of no new directory.
LEMMA OtherEventCover ==
  ASSUME TypeInv, Cover, kq # << >>, E.kind \notin {"create", "moved_to"}, kq' = Tail(kq),
         UNCHANGED <<loc, late, mode, kmarks, scan>>
  PROVE  Cover'
<1>1. ToSet(kq) = {E} \cup ToSet(kq')
  BY QueueParts
<1>2. ASSUME NEW d \in Dirs
      PROVE  Passed(d)' = Passed(d) /\ Begun(d)' = Begun(d) /\ Handled(d)' = Handled(d)
  BY DEF Passed, Begun, Handled
<1>3. ASSUME NEW d \in Dirs PROVE Announced(d) => Announced(d)'
  BY <1>1 DEF Announced, Tells, Pends
<1> QED
  BY <1>2, <1>3 DEF Cover

\* An event that tells of a new directory: it is scanned.
LEMMA NewDirCover ==
  ASSUME TypeInv, Sync, Cover, scan = << >>, kq # << >>, E.kind \in {"create", "moved_to"},
         kq' = Tail(kq), UNCHANGED <<loc, late, mode, kmarks>>, StartScan(DirPath(reg))
  PROVE  Cover'
<1> DEFINE path == DirPath(reg)
           new == Frame(path)
<1>1. ToSet(scan) = {} /\ ToSet(kq) = {E} \cup ToSet(kq')
  BY QueueParts, ToSetFacts
<1>2. new.path = path /\ ~new.opened /\ new.todo = {}
  BY DEF Frame
<1>3. Resolve(path) = ResolveIn(loc, path)
  BY ResolveNow
<1>4. scan' = IF path # << >> /\ Resolve(path) # NoDir THEN <<new>> ELSE << >>
  BY DEF StartScan
<1> HIDE DEF new, path
<1>5. ToSet(scan') = IF path # << >> /\ ResolveIn(loc, path) # Dead THEN {new} ELSE {}
  <2>1. ToSet(<<new>>) = {new} /\ ToSet(<< >>) = {}
    BY DEF ToSet
  <2> QED
    BY <1>3, <1>4, <2>1 DEF NoDir
<1>6. ASSUME NEW d \in Dirs PROVE ~Passed(d)' /\ ~Begun(d) /\ Handled(d)' = Handled(d)
  BY <1>1, <1>2, <1>5 DEF Passed, Begun, Handled
<1>7. ASSUME NEW d \in Dirs, Announced(d) PROVE Announced(d)' \/ Begun(d)'
  <2>0. CASE \E x \in ToSet(late[d]) : Pends(x, d)
    BY <1>7, <2>0 DEF Announced, Pends
  <2> SUFFICES ASSUME NEW e \in ToSet(kq), loc[d][1] \in DOMAIN kmarks, Tells(e, d)
               PROVE  Announced(d)' \/ Begun(d)'
    BY <1>7, <2>0 DEF Announced
  <2>1. loc[d][1] \in DOMAIN kmarks /\ Tells(e, d)
    OBVIOUS
  <2>2. CASE e \in ToSet(kq')
    BY <2>1, <2>2 DEF Announced, Tells
  <2>3. CASE e = E
    <3> DEFINE x == loc[d][1]
               f == reg.watches[reg.by_wd[kmarks[x]]].filename
               n == E.name
    <3>1. /\ x \in DOMAIN kmarks /\ E.wd = kmarks[x] /\ n = loc[d][2]
          /\ kmarks[x] \in DOMAIN reg.by_wd /\ ResolveIn(loc, f) = x
      BY <2>1, <2>3 DEF Tells, Sync, Named
    <3>2. IsPath(f)
      BY <3>1, NameIsPath
    <3>3. n \in Names
      BY FirstEvent DEF TypeInv, KernelOK, E
    <3>4. path = Append(f, n)
      BY <3>1 DEF DirPath, path
    <3> HIDE DEF x, f, n
    <3>5. ResolveIn(loc, Append(f, n)) = d
      BY <3>1, <3>2, <3>3, ChildPath DEF x
    <3>6. path # << >>
      <4>1. IsPath(Append(f, n))
        BY <3>2, <3>3, PathAppend
      <4> QED
        BY <3>4, <4>1 DEF IsPath
    <3>7. ToSet(scan') = {new} /\ ResolveIn(loc, new.path) = d
      <4>1. d # Dead
        BY PlacesAssumption DEF Places
      <4> QED
        BY <1>2, <1>5, <3>4, <3>5, <3>6, <4>1
    <3> QED
      BY <3>7 DEF Begun
  <2> QED
    BY <1>1, <2>1, <2>2, <2>3
<1>8. ASSUME NEW d \in Dirs, loc'[d][1] \in DOMAIN kmarks' \/ Passed(d)'
      PROVE  Handled(d)' \/ Begun(d)' \/ Announced(d)'
  <2>1. Handled(d) \/ Announced(d)
    BY <1>6, <1>8 DEF Cover
  <2> QED
    BY <1>6, <1>7, <2>1
<1>9. ASSUME NEW f \in ToSet(scan')
      PROVE  ResolveIn(loc', f.path) # Dead /\ \A n \in f.todo : ResolveIn(loc', Append(f.path, n)) # Dead
  BY <1>2, <1>5
<1> QED
  BY <1>8, <1>9 DEF Cover

\* Every step of the tool keeps track of every directory.
LEMMA CoverTool ==
  ASSUME TypeInv, Sync, Cover, HasRoom, Tool
  PROVE  Cover'
<1>1. CASE ScanOpen
  BY <1>1, ScanOpenCover
<1>2. CASE ScanEntry
  BY <1>2, ScanEntryCover
<1>3. CASE ScanWatch
  BY <1>3, ScanWatchCover
<1>4. CASE DropFiltered
  <2>1. /\ kq # << >> /\ E.kind \notin {"create", "moved_to"} /\ kq' = Tail(kq)
        /\ UNCHANGED <<loc, late, mode, kmarks, scan>>
    BY <1>4 DEF DropFiltered, Filtered, fsvars, toolvars
  <2> QED
    BY <2>1, OtherEventCover
<1>5. CASE HandleCreate
  <2>1. /\ scan = << >> /\ kq # << >> /\ E.kind = "create" /\ LeaveTree(reg')
        /\ StartScan(DirPath(reg')) /\ UNCHANGED <<loc, late, mode>>
    BY <1>5 DEF HandleCreate, Receives, fsvars
  <2>2. reg' = reg /\ kmarks' = kmarks /\ kq' = Tail(kq)
    BY <2>1, LeaveNothing
  <2>3. StartScan(DirPath(reg))
    BY <2>1, <2>2
  <2> QED
    BY <2>1, <2>2, <2>3, NewDirCover
<1>6. CASE HandleMovedFrom
  BY <1>6, FirstStill DEF HandleMovedFrom, Receives
<1>7. CASE HandleOther
  <2>1. kq # << >> /\ E.kind = "other" /\ LeaveTree(reg') /\ UNCHANGED <<loc, late, mode, scan>>
    BY <1>7 DEF HandleOther, Receives, fsvars
  <2> QED
    BY <2>1, LeaveNothing, OtherEventCover
<1>8. CASE HandleMovedIn
  <2>1. /\ scan = << >> /\ kq # << >> /\ E.kind = "moved_to" /\ kq' = Tail(kq)
        /\ StartScan(DirPath(reg)) /\ UNCHANGED <<loc, late, mode, kmarks>>
    BY <1>8 DEF HandleMovedIn, Receives, fsvars
  <2> QED
    BY <2>1, NewDirCover
<1>9. CASE HandleMovedTo
  BY <1>9 DEF HandleMovedTo, Sync
<1> QED
  BY <1>1, <1>2, <1>3, <1>4, <1>5, <1>6, <1>7, <1>8, <1>9 DEF Tool

\* Every step keeps track of every directory.
LEMMA CoverStep ==
  ASSUME TypeInv, Sync, Cover, Roomy, [Next]_vars
  PROVE  Cover'
<1> mode.quiet /\ HasRoom
  BY DEF Roomy
<1>1. CASE Tool
  BY <1>1, CoverTool
<1>2. ASSUME NEW d \in Dirs, NEW p \in Dirs \cup {Root}, NEW n \in Names,
             mkdir(d, p, n) \/ rename(d, p, n) \/ movein(d, p, n)
      PROVE  Cover'
  <2>1. ~rename(d, p, n)
    BY DEF rename, Operation, Growing, Roomy
  <2> QED
    BY <1>2, <2>1, MkdirCover, MoveinCover
<1>3. ASSUME NEW d \in Dirs, rmdir(d) \/ moveout(d) \/ Notify(d)
      PROVE  Cover'
  <2>1. ~moveout(d)
    BY DEF moveout, Operation, Growing, Roomy
  <2> QED
    BY <1>3, <2>1, RmdirCover, NotifyCover
<1>4. CASE UNCHANGED vars
  BY <1>4 DEF vars, Cover, Passed, Begun, Handled, Announced, Tells, Pends
<1> QED
  BY <1>1, <1>2, <1>3, <1>4 DEF Next

\* At first the root is being scanned.
LEMMA CoverInit == Init => Cover
<1> SUFFICES ASSUME Init PROVE Cover
  OBVIOUS
<1> DEFINE f == Frame(<<RootName>>)
<1>1. f.path = <<RootName>> /\ ~f.opened /\ f.todo = {} /\ kmarks = EmptyMap /\ scan = <<f>>
  BY DEF Init, Frame
<1> HIDE DEF f
<1>2. ToSet(scan) = {f} /\ DOMAIN kmarks = {}
  BY <1>1 DEF ToSet, EmptyMap
<1>3. ResolveIn(loc, f.path) # Dead
  BY <1>1, ResolveSteps, PlacesAssumption
<1> QED
  BY <1>1, <1>2, <1>3 DEF Cover, Passed

\* When nothing is under way and the root is watched, what is passed over
\* on purpose is all that is not.
LEMMA CoverFollows ==
  ASSUME TypeInv, Sync, Cover, Quiescent, NEW d \in Dirs,
         InTree(d), ~Unreadable(d), ~Excluded(d)
  PROVE  d \in DOMAIN kmarks
<1>1. Root \in DOMAIN kmarks /\ ToSet(scan) = {} /\ ToSet(kq) = {} /\ \A e \in Dirs : ToSet(late[e]) = {}
  BY ToSetFacts DEF Quiescent, Started, Idle
<1>2. ASSUME NEW e \in Dirs, loc[e][1] \in DOMAIN kmarks PROVE Handled(e)
  BY <1>1, <1>2 DEF Cover, Begun, Announced
<1> DEFINE c == Cardinality(Dirs)
<1>3. c \in Nat
  BY PlacesAssumption, FS_CardinalityType
<1>4. PICK up : IsClimb(up, loc, d)
  BY Climb DEF TypeInv, Nodes
<1>5. /\ up \in [0..c -> Nodes] /\ up[0] = d /\ Above(d) = {up[k] : k \in 0..c}
      /\ \A k \in 1..c : up[k] = ParentIn(loc, up[k - 1])
  BY <1>4, AboveNow DEF IsClimb
<1> HIDE DEF c
<1>6. PICK m \in 0..c : up[m] = Root
  BY <1>5 DEF InTree
<1> DEFINE T == {j \in Nat : j <= m => up[m - j] \in DOMAIN kmarks}
<1>7. 0 \in T
  BY <1>1, <1>3, <1>6
<1>8. ASSUME NEW j \in Nat, j \in T PROVE j + 1 \in T
  <2> DEFINE x == up[m - j]
             y == up[m - (j + 1)]
  <2> SUFFICES ASSUME j + 1 <= m PROVE y \in DOMAIN kmarks
    OBVIOUS
  <2>1. m - j \in 1..c /\ (m - j) - 1 = m - (j + 1) /\ m - (j + 1) \in 0..c /\ j <= m
    BY <1>3, <1>6
  <2>2. x \in DOMAIN kmarks /\ x = ParentIn(loc, y) /\ y \in Above(d) /\ y \in Nodes
    BY <1>5, <1>8, <2>1
  <2> HIDE DEF x, y
  <2>3. CASE y \in Dirs
    <3>1. loc[y][1] \in DOMAIN kmarks
      BY <2>2, <2>3 DEF ParentIn
    <3>2. Handled(y)
      BY <1>2, <2>3, <3>1
    <3>3. y \notin mode.denied
      BY <2>2 DEF Unreadable
    <3>4. ASSUME NEW path \in mode.excluded, ResolveIn(loc, path) = y PROVE FALSE
      <4>1. y # Root
        BY <2>3, PlacesAssumption DEF Places
      <4>2. Resolve(path) = y
        BY <3>4, ResolveNow
      <4> QED
        BY <2>2, <4>1, <4>2 DEF Excluded
    <3> QED
      BY <3>2, <3>3, <3>4 DEF Handled
  <2>4. CASE y \notin Dirs
    BY <2>2, <2>4 DEF ParentIn
  <2> QED
    BY <2>3, <2>4
<1> HIDE DEF T
<1>9. Nat \subseteq T
  BY <1>7, <1>8, NatSetInduction
<1>10. m \in T /\ m \in Nat
  BY <1>3, <1>6, <1>9
<1>11. up[m - m] \in DOMAIN kmarks /\ m - m = 0
  BY <1>10 DEF T
<1> QED
  BY <1>5, <1>11

\* When others wait for the tool between two changes, and the kernel has
\* room for a watch on every directory, the tool that has caught up watches
\* the whole tree but what it may not open or was told to exclude: every
\* directory made, and everything in a directory moved in, however deep,
\* after any number of them.  The scans lose none: an entry that the listing
\* has passed is watched, or excluded, or being scanned.
THEOREM WholeTreeWatched == Spec => [](Roomy => AllWatched)
<1> DEFINE Inv == TypeInv /\ (Growing => Sync) /\ (Roomy => Cover)
<1>1. Init => Inv
  BY TypeInit, SyncInit, CoverInit
<1>2. Inv /\ [Next]_vars => Inv'
  <2> SUFFICES ASSUME Inv, [Next]_vars PROVE Inv'
    OBVIOUS
  <2>1. TypeInv'
    BY TypeStep
  <2>2. Growing' = Growing /\ Roomy' = Roomy /\ (Roomy => Growing)
    BY ModeKept DEF Growing, Roomy, HasRoom
  <2>3. Growing => Sync'
    BY SyncStep
  <2>4. Roomy => Cover'
    BY <2>2, CoverStep
  <2> QED
    BY <2>1, <2>2, <2>3, <2>4
<1>3. Inv => (Roomy => AllWatched)
  <2> SUFFICES ASSUME TypeInv, Sync, Cover PROVE AllWatched
    BY DEF Roomy
  <2> QED
    BY CoverFollows DEF AllWatched, CaughtUp
<1> HIDE DEF Inv
<1> QED
  BY <1>1, <1>2, <1>3, PTL DEF Spec

(***************************************************************************)
(* What was excluded at first.                                             *)
(***************************************************************************)

\* Going up from a directory is going up from the one it is in, a step later.
LEMMA ClimbChild ==
  ASSUME NEW l, NEW d \in Dirs, NEW up, IsClimb(up, l, d), NEW vp, IsClimb(vp, l, l[d][1])
  PROVE  \A k \in Nat : k + 1 <= Cardinality(Dirs) => up[k + 1] = vp[k]
<1> DEFINE c == Cardinality(Dirs)
           x == l[d][1]
<1>1. c \in Nat
  BY PlacesAssumption, FS_CardinalityType
<1>2. /\ up[0] = d /\ vp[0] = x
      /\ \A k \in 1..c : up[k] = ParentIn(l, up[k - 1]) /\ vp[k] = ParentIn(l, vp[k - 1])
  BY DEF IsClimb
<1> HIDE DEF c, x
<1> DEFINE T == {k \in Nat : k + 1 <= c => up[k + 1] = vp[k]}
<1>3. 0 \in T
  <2> SUFFICES ASSUME 1 <= c PROVE up[1] = vp[0]
    OBVIOUS
  <2>1. 1 \in 1..c /\ 1 - 1 = 0
    BY <1>1
  <2>2. up[1] = ParentIn(l, d)
    BY <1>2, <2>1
  <2> QED
    BY <1>2, <2>2 DEF ParentIn, x
<1>4. ASSUME NEW k \in Nat, k \in T PROVE k + 1 \in T
  <2> SUFFICES ASSUME (k + 1) + 1 <= c PROVE up[(k + 1) + 1] = vp[k + 1]
    OBVIOUS
  <2>1. (k + 1) + 1 \in 1..c /\ ((k + 1) + 1) - 1 = k + 1 /\ k + 1 \in 1..c /\ (k + 1) - 1 = k /\ k + 1 <= c
    BY <1>1
  <2>2. up[k + 1] = vp[k]
    BY <1>4, <2>1
  <2>3. up[(k + 1) + 1] = ParentIn(l, up[k + 1]) /\ vp[k + 1] = ParentIn(l, vp[k])
    BY <1>2, <2>1
  <2> QED
    BY <2>2, <2>3
<1> HIDE DEF T
<1>5. Nat \subseteq T
  BY <1>3, <1>4, NatSetInduction
<1> QED
  BY <1>5 DEF T, c

\* Above a directory is itself and what is above the one it is in.
LEMMA AboveChild ==
  ASSUME NEW l \in [Dirs -> Locations], NEW d \in Dirs
  PROVE  AboveIn(l, d) \subseteq {d} \cup AboveIn(l, l[d][1])
<1> DEFINE c == Cardinality(Dirs)
           x == l[d][1]
<1>1. c \in Nat
  BY PlacesAssumption, FS_CardinalityType
<1>2. x \in Nodes
  BY DEF Locations, Nodes, Places
<1>3. PICK up : IsClimb(up, l, d)
  BY Climb DEF Nodes
<1>4. PICK vp : IsClimb(vp, l, x)
  BY <1>2, Climb
<1>5. \A k \in Nat : k + 1 <= c => up[k + 1] = vp[k]
  BY <1>3, <1>4, ClimbChild
<1> HIDE DEF x
<1>6. /\ up[0] = d /\ AboveIn(l, d) = {up[k] : k \in 0..c}
      /\ vp[0] = x /\ AboveIn(l, x) = {vp[k] : k \in 0..c}
  BY <1>3, <1>4 DEF IsClimb
<1> HIDE DEF c
<1>7. ASSUME NEW k \in 0..c PROVE up[k] \in {d} \cup AboveIn(l, x)
  <2>1. CASE k = 0
    BY <1>6, <2>1
  <2>2. CASE k # 0
    <3>1. k - 1 \in Nat /\ (k - 1) + 1 = k /\ k - 1 \in 0..c /\ k <= c
      BY <1>1, <2>2
    <3>2. up[k] = vp[k - 1]
      BY <1>5, <3>1
    <3> QED
      BY <1>6, <3>1, <3>2
  <2> QED
    BY <2>1, <2>2
<1> QED
  BY <1>6, <1>7 DEF x

\* Above a place that is not a directory is that place.
LEMMA AbovePlace ==
  ASSUME NEW l \in [Dirs -> Locations], NEW x \in Places
  PROVE  AboveIn(l, x) = {x}
<1> DEFINE c == Cardinality(Dirs)
<1>1. c \in Nat
  BY PlacesAssumption, FS_CardinalityType
<1>2. PICK up : IsClimb(up, l, x)
  BY Climb DEF Nodes, Places
<1>3. up[0] = x /\ AboveIn(l, x) = {up[k] : k \in 0..c}
  BY <1>2 DEF IsClimb
<1>4. \A k \in 0..c : up[k] = x
  <2>1. x \notin Dirs /\ 0 \in 0..c
    BY <1>1, PlacesAssumption DEF Places
  <2>2. \A k \in 0..c : up[k] = up[0]
    BY <1>2, <1>3, <2>1, PlaceStays
  <2> QED
    BY <1>3, <2>2
<1> QED
  BY <1>1, <1>3, <1>4

\* Two paths do not lead to the same directory.
LEMMA OnePath ==
  ASSUME NEW l \in [Dirs -> Locations], NEW p, IsPath(p), NEW q, IsPath(q),
         ResolveIn(l, p) = ResolveIn(l, q), ResolveIn(l, p) # Dead
  PROVE  p = q
<1> DEFINE S == {r \in Seq(Alphabet) : \A t \in Seq(Alphabet) :
                   IsPath(t) /\ ResolveIn(l, r) = ResolveIn(l, t) /\ ResolveIn(l, r) # Dead => r = t}
<1>1. \A r : IsPath(r) => r \in Seq(Alphabet)
  BY DEF IsPath, Alphabet
<1>r. Root \notin Dirs
  BY PlacesAssumption DEF Places
<1>2. <<RootName>> \in S
  <2>1. SUFFICES ASSUME NEW t, IsPath(t), ResolveIn(l, t) = Root PROVE t = <<RootName>>
    BY <1>1, RootPath, ResolveSteps
  <2>2. ASSUME NEW r, NEW n, IsPath(r), n \in Names, t = Append(r, n) PROVE FALSE
    <3>1. Root # Dead
      BY PlacesAssumption
    <3> QED
      BY <1>r, <2>1, <2>2, <3>1, EntryAt
  <2> QED
    BY <2>1, <2>2, PathCases, Zenon
<1>3. ASSUME NEW r, IsPath(r), r \in S, NEW n \in Names PROVE Append(r, n) \in S
  <2>0. Append(r, n) \in Seq(Alphabet)
    BY <1>1, <1>3, PathAppend
  <2>1. SUFFICES ASSUME NEW t, IsPath(t), ResolveIn(l, Append(r, n)) = ResolveIn(l, t),
                        ResolveIn(l, t) # Dead
                 PROVE  Append(r, n) = t
    BY <2>0
  <2> DEFINE x == ResolveIn(l, t)
  <2>2. x \in Dirs /\ l[x] = <<ResolveIn(l, r), n>> /\ ResolveIn(l, r) \in Dirs \cup {Root}
    BY <1>3, <2>1, EntryAt
  <2>3. CASE t = <<RootName>>
    BY <1>r, <2>2, <2>3, ResolveSteps
  <2>4. ASSUME NEW v, NEW m, IsPath(v), m \in Names, t = Append(v, m) PROVE Append(r, n) = t
    <3>1. l[x] = <<ResolveIn(l, v), m>>
      BY <2>1, <2>4, EntryAt
    <3>2. m = n /\ ResolveIn(l, r) = ResolveIn(l, v)
      BY <2>2, <3>1
    <3>3. ResolveIn(l, r) # Dead
      BY <2>2, PlacesAssumption DEF Places
    <3>4. r = v
      BY <1>1, <1>3, <2>4, <3>2, <3>3
    <3> QED
      BY <2>4, <3>2, <3>4
  <2> QED
    BY <2>1, <2>3, <2>4, PathCases, Zenon
<1> HIDE DEF S
<1>4. p \in S
  BY <1>2, <1>3, PathInduction, Zenon
<1> QED
  BY <1>1, <1>4 DEF S

\* Directories are made and removed, and nothing else.
Calm == mode.ops \subseteq {"mkdir", "rmdir"}

\* A directory that was excluded when the tool started, or one below it.
ExcludedAtFirst(d) ==
  \E path \in mode.excluded : ResolveIn(InitialLoc, path) \in AboveIn(InitialLoc, d) \ {Root}

\* A directory that was made later keeps its place until it is removed, and
\* one that is removed has none in it.
Aged(l) ==
  /\ \A d \in Dirs : l[d] = InitialLoc[d] \/ InitialLoc[d][1] = Fresh \/ l[d][1] = Dead
  /\ \A d, e \in Dirs : l[d][1] = e => l[e][1] # Dead

\* At first the path led nowhere, or to a directory that is not there now.
New(l, path) ==
  \/ ResolveIn(InitialLoc, path) = Dead
  \/ /\ ResolveIn(InitialLoc, path) \in Dirs
     /\ l[ResolveIn(InitialLoc, path)] # InitialLoc[ResolveIn(InitialLoc, path)]

\* Only the first call is at the root.
OneRoot(s) == \A k \in 2..Len(s) : s[k].path # <<RootName>>

\* What is still to be told of d is that it was made where it is now.
Made(l, s, d) ==
  \A x \in ToSet(s) :
    x.kind \in {"create", "moved_to"} => l[d] = <<x.dir, x.name>> /\ l[d] # InitialLoc[d]

NameOf(r, wd) == r.watches[r.by_wd[wd]].filename

\* Where a call may go: on the first scan not to what is excluded.
Open(l, path) ==
  New(l, path) \/ (~Started /\ ~ExcludedAtFirst(ResolveIn(InitialLoc, path)))

\* What then holds from step to step.
Keep ==
  /\ Aged(loc) /\ OneRoot(scan)
  /\ \A f \in ToSet(scan) : Open(loc, f.path)
  /\ \A d \in Dirs : d \in DOMAIN kmarks /\ loc[d] = InitialLoc[d] => ~ExcludedAtFirst(d)
  /\ \A e \in ToSet(kq) :
       e.kind \in {"create", "moved_to"} =>
         e.wd \in DOMAIN reg.by_wd /\ New(loc, Append(NameOf(reg, e.wd), e.name))
  /\ \A d \in Dirs : Made(loc, late[d], d)

\* A directory that is in its first place is in one that is, too.
LEMMA FirstParent ==
  ASSUME NEW l, Aged(l), NEW d \in Dirs, l[d] = InitialLoc[d], l[d][1] \in Dirs
  PROVE  l[l[d][1]] = InitialLoc[l[d][1]]
<1>1. InitialLoc[l[d][1]][1] # Fresh
  BY InitialLocAssumption
<1>2. l[l[d][1]][1] # Dead
  BY DEF Aged
<1> QED
  BY <1>1, <1>2 DEF Aged

\* A path that leads to a directory in its first place led there at first.
LEMMA LedThere ==
  ASSUME NEW l \in [Dirs -> Locations], Aged(l), NEW path, IsPath(path),
         ResolveIn(l, path) \in Dirs, l[ResolveIn(l, path)] = InitialLoc[ResolveIn(l, path)]
  PROVE  ResolveIn(InitialLoc, path) = ResolveIn(l, path)
<1> DEFINE First(x) == x = Root \/ (x \in Dirs /\ l[x] = InitialLoc[x])
           S == {p \in Seq(Alphabet) : First(ResolveIn(l, p)) => ResolveIn(InitialLoc, p) = ResolveIn(l, p)}
<1>1. \A p : IsPath(p) => p \in Seq(Alphabet)
  BY DEF IsPath, Alphabet
<1>2. <<RootName>> \in S
  BY <1>1, RootPath, ResolveSteps
<1>3. ASSUME NEW q, IsPath(q), q \in S, NEW n \in Names PROVE Append(q, n) \in S
  <2>1. Append(q, n) \in Seq(Alphabet)
    BY <1>1, <1>3, PathAppend
  <2> DEFINE x == ResolveIn(l, Append(q, n))
             y == ResolveIn(l, q)
  <2>2. SUFFICES ASSUME First(x) PROVE ResolveIn(InitialLoc, Append(q, n)) = x
    BY <2>1
  <2>3. x # Dead
    BY <2>2, PlacesAssumption DEF Places
  <2>4. x \in Dirs /\ l[x] = <<y, n>> /\ y \in Dirs \cup {Root}
    BY <1>3, <2>3, EntryAt
  <2>5. l[x] = InitialLoc[x]
    BY <2>2, <2>4, PlacesAssumption DEF Places
  <2> HIDE DEF x, y
  <2>6. First(y)
    BY <2>4, <2>5, FirstParent
  <2>7. ResolveIn(InitialLoc, q) = y
    BY <1>3, <2>6 DEF y
  <2>8. EntryIn(InitialLoc, y, n) = x
    <3>1. Distinct(InitialLoc)
      BY InitialLocAssumption DEF Distinct
    <3>2. InitialLoc[x] = <<y, n>>
      BY <2>4, <2>5
    <3> QED
      BY <2>4, <3>1, <3>2, EntryIs
  <2>9. ResolveIn(InitialLoc, Append(q, n)) = EntryIn(InitialLoc, ResolveIn(InitialLoc, q), n)
    BY <1>3, ResolveSteps, Zenon
  <2> QED
    BY <2>7, <2>8, <2>9, Zenon
<1> HIDE DEF S
<1>4. path \in S
  BY <1>2, <1>3, PathInduction, Zenon
<1> QED
  BY <1>4 DEF S

\* And a path that led to such a directory still does.
LEMMA StillLeads ==
  ASSUME NEW l \in [Dirs -> Locations], Aged(l), Distinct(l), NEW path, IsPath(path),
         ResolveIn(InitialLoc, path) \in Dirs \cup {Root},
         ResolveIn(InitialLoc, path) \in Dirs =>
           l[ResolveIn(InitialLoc, path)] = InitialLoc[ResolveIn(InitialLoc, path)]
  PROVE  ResolveIn(l, path) = ResolveIn(InitialLoc, path)
<1> DEFINE First(x) == x = Root \/ (x \in Dirs /\ l[x] = InitialLoc[x])
           S == {p \in Seq(Alphabet) : First(ResolveIn(InitialLoc, p)) => ResolveIn(l, p) = ResolveIn(InitialLoc, p)}
<1>1. \A p : IsPath(p) => p \in Seq(Alphabet)
  BY DEF IsPath, Alphabet
<1>2. <<RootName>> \in S
  BY <1>1, RootPath, ResolveSteps
<1>3. ASSUME NEW q, IsPath(q), q \in S, NEW n \in Names PROVE Append(q, n) \in S
  <2>1. Append(q, n) \in Seq(Alphabet)
    BY <1>1, <1>3, PathAppend
  <2> DEFINE x == ResolveIn(InitialLoc, Append(q, n))
             y == ResolveIn(InitialLoc, q)
  <2>2. SUFFICES ASSUME First(x) PROVE ResolveIn(l, Append(q, n)) = x
    BY <2>1
  <2>3. x # Dead
    BY <2>2, PlacesAssumption DEF Places
  <2>4. x \in Dirs /\ InitialLoc[x] = <<y, n>> /\ y \in Dirs \cup {Root}
    BY <1>3, <2>3, EntryAt, InitialLocAssumption
  <2>5. l[x] = InitialLoc[x]
    BY <2>2, <2>4, PlacesAssumption DEF Places
  <2> HIDE DEF x, y
  <2>6. First(y)
    BY <2>4, <2>5, FirstParent
  <2>7. ResolveIn(l, q) = y
    BY <1>3, <2>6 DEF y
  <2>8. EntryIn(l, y, n) = x
    <3>1. l[x] = <<y, n>>
      BY <2>4, <2>5
    <3> QED
      BY <2>4, <3>1, EntryIs
  <2>9. ResolveIn(l, Append(q, n)) = EntryIn(l, ResolveIn(l, q), n)
    BY <1>3, ResolveSteps, Zenon
  <2> QED
    BY <2>7, <2>8, <2>9, Zenon
<1> HIDE DEF S
<1>4. path \in S
  BY <1>2, <1>3, PathInduction, Zenon
<1> QED
  BY <1>4 DEF S

\* A path that goes on from a new one is new.
LEMMA NewAppend ==
  ASSUME NEW l, Aged(l), NEW q, IsPath(q), New(l, q), NEW n \in Names
  PROVE  New(l, Append(q, n))
<1> DEFINE x == ResolveIn(InitialLoc, Append(q, n))
           y == ResolveIn(InitialLoc, q)
<1>1. SUFFICES ASSUME x # Dead PROVE x \in Dirs /\ l[x] # InitialLoc[x]
  BY DEF New
<1>2. x \in Dirs /\ InitialLoc[x] = <<y, n>> /\ y \in Dirs \cup {Root}
  BY <1>1, EntryAt, InitialLocAssumption
<1>3. y \in Dirs /\ l[y] # InitialLoc[y]
  <2>1. y # Dead
    BY <1>2, PlacesAssumption DEF Places
  <2> QED
    BY <2>1 DEF New
<1> HIDE DEF x, y
<1>4. ASSUME l[x] = InitialLoc[x] PROVE FALSE
  <2>1. l[x][1] = y
    BY <1>2, <1>4
  <2>2. l[y] = InitialLoc[y]
    BY <1>2, <1>3, <1>4, <2>1, FirstParent
  <2> QED
    BY <1>3, <2>2
<1> QED
  BY <1>2, <1>4

\* Nothing goes back to its first place.
NeverBack(l, m) == \A d \in Dirs : l[d] # InitialLoc[d] => m[d] # InitialLoc[d]

\* What is new stays new.
LEMMA NewKept ==
  ASSUME NEW l, NEW m, NeverBack(l, m), NEW path, New(l, path)
  PROVE  New(m, path)
BY DEF New, NeverBack

\* Below a directory that was not excluded, what is excluded is excluded by
\* its own path.
LEMMA ExcludedBelow ==
  ASSUME mode \in Modes, NEW q, IsPath(q), NEW n \in Names,
         ~ExcludedAtFirst(ResolveIn(InitialLoc, q)),
         ResolveIn(InitialLoc, Append(q, n)) # Dead, Append(q, n) \notin mode.excluded
  PROVE  ~ExcludedAtFirst(ResolveIn(InitialLoc, Append(q, n)))
<1> DEFINE x == ResolveIn(InitialLoc, Append(q, n))
           y == ResolveIn(InitialLoc, q)
           p == Append(q, n)
<1>0. InitialLoc \in [Dirs -> Locations]
  BY InitialLocAssumption
<1>1. x \in Dirs /\ InitialLoc[x] = <<y, n>> /\ IsPath(p)
  BY <1>0, EntryAt, PathAppend
<1> SUFFICES ASSUME NEW path \in mode.excluded,
                    ResolveIn(InitialLoc, path) \in AboveIn(InitialLoc, x) \ {Root}
             PROVE  FALSE
  BY DEF ExcludedAtFirst
<1>2. IsPath(path)
  BY ModesAssumption
<1>3. InitialLoc[x][1] = y
  BY <1>1
<1>4. ResolveIn(InitialLoc, path) \notin AboveIn(InitialLoc, y) \ {Root}
  BY DEF ExcludedAtFirst
<1>5. ResolveIn(InitialLoc, path) = x
  <2> HIDE DEF x, y
  <2>1. AboveIn(InitialLoc, x) \subseteq {x} \cup AboveIn(InitialLoc, InitialLoc[x][1])
    BY <1>0, <1>1, AboveChild
  <2> QED
    BY <1>3, <1>4, <2>1
<1>6. path = p
  <2>1. ResolveIn(InitialLoc, p) = ResolveIn(InitialLoc, path) /\ ResolveIn(InitialLoc, p) # Dead
    BY <1>5
  <2> HIDE DEF p, x, y
  <2> QED
    BY <1>0, <1>1, <1>2, <2>1, OnePath
<1> QED
  BY <1>6

\* Operations on the tree.
LEMMA OperationKeep ==
  ASSUME Keep, Started' = Started, Aged(loc'), NeverBack(loc, loc'),
         DOMAIN kmarks' \subseteq DOMAIN kmarks, UNCHANGED <<mode, reg, scan>>,
         \A e \in ToSet(kq') : e \in ToSet(kq) \/ e.kind = "other",
         NEW d \in Dirs, \A e \in Dirs : e # d => loc'[e] = loc[e] /\ late'[e] = late[e],
         Made(loc', late'[d], d)
  PROVE  Keep'
<1>1. ASSUME NEW f \in ToSet(scan') PROVE Open(loc, f.path)'
  <2>1. Open(loc, f.path)
    BY <1>1 DEF Keep
  <2>2. New(loc, f.path) => New(loc', f.path)
    BY NewKept
  <2> QED
    BY <2>1, <2>2 DEF Open, ExcludedAtFirst
<1>2. \A e \in Dirs : e \in DOMAIN kmarks' /\ loc'[e] = InitialLoc[e] => ~ExcludedAtFirst(e)'
  BY DEF Keep, NeverBack, ExcludedAtFirst
<1>3. ASSUME NEW e \in ToSet(kq'), e.kind \in {"create", "moved_to"}
      PROVE  e.wd \in DOMAIN reg'.by_wd /\ New(loc', Append(NameOf(reg', e.wd), e.name))
  <2>1. e.wd \in DOMAIN reg.by_wd /\ New(loc, Append(NameOf(reg, e.wd), e.name))
    BY <1>3 DEF Keep
  <2> QED
    BY <2>1, NewKept
<1>4. OneRoot(scan') /\ \A e \in Dirs : Made(loc', late'[e], e)
  BY DEF Keep, Made
<1> QED
  BY <1>1, <1>2, <1>3, <1>4 DEF Keep

\* The name under which a directory appeared is a new one.
LEMMA AppearsNew ==
  ASSUME TypeInv, Sync, Aged(loc), NEW d \in Dirs, NEW p \in DOMAIN kmarks, NEW n \in Names,
         loc[d] = <<p, n>>, loc[d] # InitialLoc[d]
  PROVE  /\ kmarks[p] \in DOMAIN reg.by_wd
         /\ New(loc, Append(NameOf(reg, kmarks[p]), n))
<1> DEFINE f == NameOf(reg, kmarks[p])
           x == ResolveIn(InitialLoc, Append(f, n))
           y == ResolveIn(InitialLoc, f)
<1>1. kmarks[p] \in DOMAIN reg.by_wd /\ ResolveIn(loc, f) = p
  BY DEF Sync, Named, NameOf
<1>2. IsPath(f)
  BY NameIsPath DEF NameOf
<1> HIDE DEF f
<1>3. SUFFICES ASSUME x # Dead PROVE x \in Dirs /\ loc[x] # InitialLoc[x]
  BY <1>1 DEF New, f
<1>4. x \in Dirs /\ InitialLoc[x] = <<y, n>> /\ y \in Dirs \cup {Root}
  BY <1>2, <1>3, EntryAt, InitialLocAssumption
<1> HIDE DEF x
<1>5. ASSUME loc[x] = InitialLoc[x] PROVE FALSE
  <2>1. x # d /\ loc[x] = InitialLoc[x]
    BY <1>5
  <2>2. loc[x] = <<y, n>> /\ loc[x][1] = y
    BY <1>4, <2>1
  <2>3. y \in Dirs => loc[y] = InitialLoc[y]
    <3> HIDE DEF y
    <3> QED
      BY <1>4, <2>1, <2>2, FirstParent
  <2>4. loc \in [Dirs -> Locations] /\ Distinct(loc)
    BY DEF TypeInv, Sync
  <2>5. ResolveIn(loc, f) = y
    BY <1>2, <1>4, <2>3, <2>4, StillLeads
  <2>6. loc[x] = loc[d] /\ loc[d][2] # 0
    BY <1>1, <2>2, <2>5, RecursiveNamesAssumption
  <2> QED
    BY <1>4, <2>1, <2>4, <2>6 DEF Distinct
<1> QED
  BY <1>4, <1>5

\* A directory that is made keeps old directories out.
LEMMA MkdirKeep ==
  ASSUME TypeInv, Keep, NEW d \in Dirs, NEW p \in Dirs \cup {Root}, NEW n \in Names, mkdir(d, p, n)
  PROVE  Keep'
<1> DEFINE v == Notice(p, "create", n, {p})
<1>1. /\ UNCHANGED <<mode, kmarks, kq, reg, scan>> /\ late' = [late EXCEPT ![d] = <<v>>]
      /\ loc' = [loc EXCEPT ![d] = <<p, n>>] /\ loc[d][1] = Fresh /\ InTree(p) /\ Vacant(p, n)
  BY DEF mkdir, Operation, toolvars
<1>2. n # 0 /\ loc \in [Dirs -> Locations] /\ Aged(loc) /\ late \in [Dirs -> Seq(Notices)]
  BY RecursiveNamesAssumption DEF TypeInv, Keep
<1>p. Fresh \notin Dirs \cup {Root} /\ Dead \notin Dirs \cup {Root} /\ Fresh # Dead /\ Root \notin Dirs
  BY PlacesAssumption DEF Places
<1>3. p \in Dirs => loc[p][1] \in Dirs \cup {Root}
  BY <1>1, TreePlace
<1>4. loc'[d] = <<p, n>> /\ loc'[d][1] = p /\ \A e \in Dirs : e # d => loc'[e] = loc[e]
  BY <1>1, <1>2
<1>5. InitialLoc[d][1] = Fresh
  BY <1>1, <1>2, <1>p DEF Aged
<1>6. loc'[d] # InitialLoc[d]
  BY <1>4, <1>5, <1>p
<1>7. Aged(loc')
  <2>1. ASSUME NEW e \in Dirs
        PROVE  loc'[e] = InitialLoc[e] \/ InitialLoc[e][1] = Fresh \/ loc'[e][1] = Dead
    BY <1>2, <1>4, <1>5 DEF Aged
  <2>2. ASSUME NEW x \in Dirs, NEW e \in Dirs, loc'[x][1] = e PROVE loc'[e][1] # Dead
    <3>1. CASE e = d
      BY <1>4, <1>p, <3>1
    <3>2. CASE e # d /\ x = d
      BY <1>3, <1>4, <1>p, <2>2, <3>2
    <3>3. CASE e # d /\ x # d
      BY <1>2, <1>4, <2>2, <3>3 DEF Aged
    <3> QED
      BY <3>1, <3>2, <3>3
  <2> QED
    BY <2>1, <2>2 DEF Aged
<1>8. NeverBack(loc, loc')
  BY <1>4, <1>6 DEF NeverBack
<1>9. v.dir = p /\ v.name = n
  BY DEF Notice
<1> HIDE DEF v
<1>10. late'[d] = <<v>> /\ \A e \in Dirs : e # d => late'[e] = late[e]
  BY <1>1, <1>2
<1>11. Made(loc', late'[d], d)
  <2>1. ToSet(late'[d]) = {v}
    BY <1>10, ToSetFacts
  <2> QED
    BY <1>4, <1>6, <1>9, <2>1 DEF Made
<1>12. Started' = Started /\ DOMAIN kmarks' \subseteq DOMAIN kmarks
  BY <1>1 DEF Started
<1>13. \A e \in ToSet(kq') : e \in ToSet(kq)
  BY <1>1
<1> QED
  BY <1>1, <1>4, <1>7, <1>8, <1>10, <1>11, <1>12, <1>13, OperationKeep

\* The removal of a directory brings none back.
LEMMA RmdirKeep ==
  ASSUME TypeInv, Keep, NEW d \in Dirs, rmdir(d)
  PROVE  Keep'
<1> DEFINE a == OnDir(d, "other", 0)
           v == Notice(loc[d][1], "other", loc[d][2], {loc[d][1]})
<1>1. /\ kq' = (kq \o a) \o a /\ UNCHANGED <<mode, reg, scan>> /\ late' = [late EXCEPT ![d] = <<v>>]
      /\ kmarks' = Drop(kmarks, d) /\ loc' = [loc EXCEPT ![d] = <<Dead, 0>>]
      /\ InTree(d) /\ \A e \in Dirs : loc[e][1] # d
  BY DEF rmdir, Operation, toolvars, Children
<1>2. loc \in [Dirs -> Locations] /\ Aged(loc) /\ late \in [Dirs -> Seq(Notices)]
  BY DEF TypeInv, Keep
<1>p. Fresh \notin Dirs \cup {Root} /\ Dead \notin Dirs \cup {Root} /\ Fresh # Dead /\ Root \notin Dirs
  BY PlacesAssumption DEF Places
<1>3. loc[d][1] \in Dirs \cup {Root}
  BY <1>1, TreePlace
<1>4. loc'[d][1] = Dead /\ \A e \in Dirs : e # d => loc'[e] = loc[e]
  BY <1>1, <1>2
<1>5. loc'[d] # InitialLoc[d]
  BY <1>2, <1>3, <1>4, <1>p DEF Aged
<1>6. Aged(loc')
  <2>1. ASSUME NEW e \in Dirs
        PROVE  loc'[e] = InitialLoc[e] \/ InitialLoc[e][1] = Fresh \/ loc'[e][1] = Dead
    BY <1>2, <1>4 DEF Aged
  <2>2. ASSUME NEW x \in Dirs, NEW e \in Dirs, loc'[x][1] = e PROVE loc'[e][1] # Dead
    <3>1. x # d
      BY <1>4, <1>p, <2>2
    <3>2. e # d
      BY <1>1, <1>4, <2>2, <3>1
    <3> QED
      BY <1>2, <1>4, <2>2, <3>1, <3>2 DEF Aged
  <2> QED
    BY <2>1, <2>2 DEF Aged
<1>7. NeverBack(loc, loc')
  BY <1>4, <1>5 DEF NeverBack
<1>8. a \in Seq(KernelEvents) /\ kq \in Seq(KernelEvents)
  BY OnDirType DEF TypeInv, KernelOK
<1>9. \A e \in ToSet(a) : e.kind = "other"
  <2>1. CASE d \in DOMAIN kmarks
    BY <2>1 DEF OnDir, ToSet, Event
  <2>2. CASE d \notin DOMAIN kmarks
    BY <2>2 DEF OnDir, ToSet
  <2> QED
    BY <2>1, <2>2
<1> HIDE DEF a
<1>10. ToSet(kq') = ToSet(kq) \cup ToSet(a)
  <2> DEFINE u == kq \o a
  <2>1. u \in Seq(KernelEvents) /\ ToSet(u) = ToSet(kq) \cup ToSet(a)
    BY <1>8, ConcatProperties, ToSetFacts
  <2> HIDE DEF u
  <2>2. ToSet(u \o a) = ToSet(u) \cup ToSet(a)
    BY <1>8, <2>1, ToSetFacts
  <2>3. kq' = u \o a
    BY <1>1 DEF u
  <2> QED
    BY <2>1, <2>2, <2>3
<1>11. v.kind = "other"
  BY DEF Notice
<1> HIDE DEF v
<1>12. late'[d] = <<v>> /\ \A e \in Dirs : e # d => late'[e] = late[e]
  BY <1>1, <1>2
<1>13. Made(loc', late'[d], d)
  <2>1. ToSet(late'[d]) = {v}
    BY <1>12, ToSetFacts
  <2> QED
    BY <1>11, <2>1 DEF Made
<1>14. Started' = Started /\ DOMAIN kmarks' \subseteq DOMAIN kmarks
  BY <1>1, <1>p DEF Started, Drop
<1> QED
  BY <1>1, <1>4, <1>6, <1>7, <1>9, <1>10, <1>12, <1>13, <1>14, OperationKeep

\* The kernel tells of a directory that was made: under a new name.
LEMMA NotifyKeep ==
  ASSUME TypeInv, Sync, Keep, NEW d \in Dirs, Notify(d)
  PROVE  Keep'
<1> DEFINE x == Head(late[d])
           q == OnDir(x.dir, x.kind, x.name)
<1>1. /\ UNCHANGED <<loc, mode, kmarks, reg, scan>>
      /\ late[d] # << >> /\ kq' = kq \o q /\ late' = [late EXCEPT ![d] = Tail(@)]
  BY DEF Notify, toolvars
<1>2. /\ late[d] \in Seq(Notices) /\ late \in [Dirs -> Seq(Notices)]
      /\ kq \in Seq(KernelEvents) /\ KernelOK(kmarks, knext, kq)
  BY DEF TypeInv, KernelOK
<1>3. x \in Notices /\ ToSet(late[d]) = {x} \cup ToSet(Tail(late[d]))
  BY <1>1, <1>2, HeadTailProperties, ToSetFacts
<1> HIDE DEF x
<1>4. /\ x.kind \in {"create", "moved_from", "moved_to", "other"} /\ x.name \in Names \cup {0}
      /\ x.kind # "other" => x.name # 0
  BY <1>3 DEF Notices
<1>5. q \in Seq(KernelEvents)
  BY <1>2, <1>4, OnDirType
<1>6. ToSet(kq') = ToSet(kq) \cup ToSet(q)
  <2> HIDE DEF q
  <2> QED
    BY <1>1, <1>2, <1>5, ToSetFacts
<1>7. ASSUME NEW e \in ToSet(q), e.kind \in {"create", "moved_to"}
      PROVE  e.wd \in DOMAIN reg.by_wd /\ New(loc, Append(NameOf(reg, e.wd), e.name))
  <2>1. x.dir \in DOMAIN kmarks /\ e = Event(kmarks[x.dir], x.kind, x.name)
    <3>1. x.dir \in DOMAIN kmarks
      BY <1>7, ToSetFacts DEF OnDir
    <3>2. ToSet(q) = {Event(kmarks[x.dir], x.kind, x.name)}
      BY <3>1, ToSetFacts DEF OnDir
    <3> HIDE DEF q
    <3> QED
      BY <1>7, <3>1, <3>2
  <2>2. e.wd = kmarks[x.dir] /\ e.kind = x.kind /\ e.name = x.name
    BY <2>1 DEF Event
  <2>3. loc[d] = <<x.dir, x.name>> /\ loc[d] # InitialLoc[d]
    BY <1>3, <1>7, <2>2 DEF Keep, Made
  <2>4. x.name \in Names /\ Aged(loc)
    BY <1>4, <1>7, <2>2 DEF Keep
  <2> QED
    BY <2>1, <2>2, <2>3, <2>4, AppearsNew
<1> HIDE DEF q
<1>8. ASSUME NEW e \in Dirs PROVE Made(loc', late'[e], e)
  <2>1. ToSet(late'[e]) \subseteq ToSet(late[e])
    BY <1>1, <1>2, <1>3
  <2> QED
    BY <1>1, <2>1 DEF Keep, Made
<1>9. Started' = Started /\ \A y : ExcludedAtFirst(y)' = ExcludedAtFirst(y)
  BY <1>1 DEF Started, ExcludedAtFirst
<1>10. \A f \in ToSet(scan') : Open(loc, f.path)'
  BY <1>1, <1>9 DEF Keep, Open
<1> QED
  BY <1>1, <1>6, <1>7, <1>8, <1>9, <1>10 DEF Keep

\* Only the first call is at the root.
LEMMA OneRootCall ==
  ASSUME TypeInv, scan # << >>, OneRoot(scan)
  PROVE  /\ OneRoot(Below)
         /\ \A f \in Calls : f.path = Top.path =>
              /\ OneRoot(Append(Below, f))
              /\ \A g \in Calls : g.path # <<RootName>> => OneRoot(Append(Append(Below, f), g))
<1> DEFINE n == Len(scan)
           b == Below
<1>1. /\ b \in Seq(Calls) /\ n \in Nat \ {0} /\ Len(b) = n - 1
      /\ \A k \in 1..(n - 1) : b[k] = scan[k]
      /\ Top = scan[n]
  BY ScanType DEF Top
<1>2. \A k \in 2..n : scan[k].path # <<RootName>>
  BY DEF OneRoot
<1> HIDE DEF b, n
<1>3. \A k \in 2..(n - 1) : b[k].path # <<RootName>>
  BY <1>1, <1>2
<1>4. ASSUME NEW f \in Calls, f.path = Top.path
      PROVE  /\ OneRoot(Append(b, f))
             /\ \A g \in Calls : g.path # <<RootName>> => OneRoot(Append(Append(b, f), g))
  <2> DEFINE bf == Append(b, f)
  <2>1. /\ bf \in Seq(Calls) /\ Len(bf) = (n - 1) + 1 /\ bf[(n - 1) + 1] = f
        /\ \A k \in 1..(n - 1) : bf[k] = b[k]
    BY <1>1, AppendProperties
  <2> HIDE DEF bf
  <2>2. ASSUME NEW k \in 2..n PROVE bf[k].path # <<RootName>>
    <3>1. CASE k = n
      <4>1. bf[k] = f /\ scan[k] = Top
        BY <1>1, <2>1, <3>1
      <4> QED
        BY <1>2, <1>4, <4>1
    <3>2. CASE k # n
      <4>1. k \in 2..(n - 1) /\ k \in 1..(n - 1)
        BY <1>1, <3>2
      <4> QED
        BY <1>3, <2>1, <4>1
    <3> QED
      BY <3>1, <3>2
  <2>3. Len(bf) = n
    BY <1>1, <2>1
  <2>4. ASSUME NEW g \in Calls, g.path # <<RootName>> PROVE OneRoot(Append(bf, g))
    <3> DEFINE s == Append(bf, g)
    <3>1. /\ Len(s) = n + 1 /\ s[n + 1] = g
          /\ \A k \in 1..n : s[k] = bf[k]
      BY <2>1, <2>3, AppendProperties
    <3> HIDE DEF s
    <3>2. ASSUME NEW k \in 2..(n + 1) PROVE s[k].path # <<RootName>>
      <4>1. CASE k = n + 1
        BY <2>4, <3>1, <4>1
      <4>2. CASE k # n + 1
        <5>1. k \in 2..n /\ k \in 1..n
          BY <1>1, <4>2
        <5> QED
          BY <2>2, <3>1, <5>1
      <4> QED
        BY <4>1, <4>2
    <3>3. OneRoot(s)
      BY <3>1, <3>2 DEF OneRoot
    <3> QED
      BY <3>3 DEF s
  <2>5. OneRoot(bf)
    BY <2>2, <2>3 DEF OneRoot
  <2> QED
    BY <2>4, <2>5 DEF bf
<1>5. OneRoot(b)
  BY <1>1, <1>3 DEF OneRoot
<1> QED
  BY <1>4, <1>5 DEF b

\* The calls go on: those that are new are at no excluded or old directory.
LEMMA ScanKeep ==
  ASSUME Keep, UNCHANGED <<loc, late, mode, kmarks, kq, reg>>, OneRoot(scan'),
         \A h \in ToSet(scan') : (\E f \in ToSet(scan) : f.path = h.path) \/ Open(loc, h.path)
  PROVE  Keep'
<1>1. Started' = Started /\ \A x : ExcludedAtFirst(x)' = ExcludedAtFirst(x)
  BY DEF Started, ExcludedAtFirst
<1>2. \A h \in ToSet(scan') : Open(loc, h.path)
  BY DEF Keep
<1>3. \A h \in ToSet(scan') : Open(loc, h.path)'
  BY <1>1, <1>2 DEF Open
<1> QED
  BY <1>1, <1>3 DEF Keep

\* opendir starts no call.
LEMMA ScanOpenKeep ==
  ASSUME TypeInv, Keep, ScanOpen
  PROVE  Keep'
<1> DEFINE dir == Resolve(Top.path)
           next == [path |-> Top.path, opened |-> TRUE, todo |-> {loc[d][2] : d \in Children(dir)}]
<1>1. /\ scan # << >> /\ UNCHANGED <<loc, late, mode, kmarks, kq, reg>>
      /\ \/ scan' = Below
         \/ dir # NoDir /\ scan' = Append(Below, next)
  BY DEF ScanOpen, Vanished, fsvars
<1>2. Top \in Calls /\ IsPath(Top.path) /\ Top.path \in Seq(Names \cup {RootName})
  BY <1>1, ScanType DEF Calls
<1>3. ASSUME dir # NoDir PROVE next \in Calls
  <2>1. dir \in Dirs \cup {Root}
    <3>1. dir = ResolveIn(loc, Top.path)
      BY ResolveNow
    <3> QED
      BY <1>2, <1>3, <3>1, ResolveType DEF NoDir
  <2>2. {loc[d][2] : d \in Children(dir)} \subseteq Names
    <3> HIDE DEF dir
    <3> QED
      BY <2>1, ChildNames DEF TypeInv
  <2> HIDE DEF dir
  <2> QED
    BY <1>2, <2>2 DEF Calls
<1>4. next.path = Top.path
  OBVIOUS
<1> HIDE DEF next, dir
<1>5. OneRoot(scan) /\ ToSet(scan) = ToSet(Below) \cup {Top}
  BY <1>1, ScanParts DEF Keep
<1>6. CASE scan' = Below
  <2>1. OneRoot(scan')
    BY <1>1, <1>5, <1>6, OneRootCall
  <2> QED
    BY <1>1, <1>5, <1>6, <2>1, ScanKeep
<1>7. CASE dir # NoDir /\ scan' = Append(Below, next)
  <2>1. next \in Calls
    BY <1>3, <1>7
  <2>2. OneRoot(scan')
    BY <1>1, <1>4, <1>5, <1>7, <2>1, OneRootCall
  <2>3. ToSet(scan') = ToSet(Below) \cup {next}
    BY <1>1, <1>7, <2>1, ScanParts
  <2> QED
    BY <1>1, <1>4, <1>5, <2>2, <2>3, ScanKeep
<1> QED
  BY <1>1, <1>6, <1>7

\* lstat starts a call on an entry: a new path, or one that is not excluded.
LEMMA ScanEntryKeep ==
  ASSUME TypeInv, Keep, ScanEntry
  PROVE  Keep'
<1>1. PICK n \in Top.todo :
        LET path == Append(Top.path, n)
            rest == Append(Below, [Top EXCEPT !.todo = @ \ {n}])
        IN  scan' = CASE Resolve(path) = NoDir -> Below
                      [] Resolve(path) # NoDir /\ is_excluded(path) -> rest
                      [] OTHER -> Append(rest, Frame(path))
  BY DEF ScanEntry
<1> DEFINE path == Append(Top.path, n)
           top == [Top EXCEPT !.todo = @ \ {n}]
           new == Frame(path)
           x == Resolve(path)
<1>2. scan # << >> /\ UNCHANGED <<loc, late, mode, kmarks, kq, reg>>
  BY DEF ScanEntry, fsvars
<1>3. Top \in Calls /\ IsPath(Top.path) /\ n \in Names
  BY <1>1, <1>2, ScanType
<1>4. top \in Calls /\ top.path = Top.path
  BY <1>3 DEF Calls
<1>5. IsPath(path) /\ path # <<RootName>>
  <2>1. IsPath(path) /\ Len(path) = Len(Top.path) + 1 /\ Len(Top.path) \in Nat \ {0}
    BY <1>3, PathAppend
  <2>2. Len(path) # Len(<<RootName>>)
    <3> DEFINE m == Len(Top.path)
    <3>1. m \in Nat \ {0} /\ Len(path) = m + 1
      BY <2>1
    <3> HIDE DEF m, path
    <3>2. m + 1 # 1
      BY <3>1
    <3> QED
      BY <3>1, <3>2, RootPath
  <2> HIDE DEF path
  <2> QED
    BY <2>1, <2>2
<1>6. new \in Calls /\ new.path = path
  <2> HIDE DEF path
  <2> QED
    BY <1>5, FrameType DEF Frame
<1>7. \/ scan' = Below
      \/ scan' = Append(Below, top)
      \/ x # Dead /\ ~is_excluded(path) /\ scan' = Append(Append(Below, top), new)
  BY <1>1 DEF NoDir
<1> HIDE DEF top, new, x
<1>9. OneRoot(scan) /\ ToSet(scan) = ToSet(Below) \cup {Top}
  BY <1>2, ScanParts DEF Keep
<1>10. CASE scan' = Below
  <2>1. OneRoot(scan')
    BY <1>2, <1>9, <1>10, OneRootCall
  <2> QED
    BY <1>2, <1>9, <1>10, <2>1, ScanKeep
<1>11. CASE scan' = Append(Below, top)
  <2>1. OneRoot(scan')
    BY <1>2, <1>4, <1>9, <1>11, OneRootCall
  <2>2. ToSet(scan') = ToSet(Below) \cup {top}
    BY <1>2, <1>4, <1>11, ScanParts
  <2> QED
    BY <1>2, <1>4, <1>9, <2>1, <2>2, ScanKeep
<1>12. CASE x # Dead /\ ~is_excluded(path) /\ scan' = Append(Append(Below, top), new)
  <2>1. OneRoot(scan')
    <3> HIDE DEF path
    <3> QED
      BY <1>2, <1>4, <1>5, <1>6, <1>9, <1>12, OneRootCall
  <2>2. ToSet(scan') = ToSet(Below) \cup {top, new}
    BY <1>2, <1>4, <1>6, <1>12, ScanParts
  <2>3. Open(loc, path)
    <3>1. Open(loc, Top.path) /\ Aged(loc)
      BY <1>9 DEF Keep
    <3>2. CASE New(loc, Top.path)
      <4>1. New(loc, path)
        BY <1>3, <3>1, <3>2, NewAppend
      <4> QED
        BY <4>1 DEF Open
    <3>3. CASE ~Started /\ ~ExcludedAtFirst(ResolveIn(InitialLoc, Top.path))
      <4>1. path \notin mode.excluded /\ mode \in Modes
        BY <1>12, <3>3 DEF is_excluded, TypeInv
      <4>2. CASE ResolveIn(InitialLoc, path) = Dead
        BY <4>2 DEF Open, New
      <4>3. CASE ResolveIn(InitialLoc, path) # Dead
        <5>1. ~ExcludedAtFirst(ResolveIn(InitialLoc, path))
          BY <1>3, <3>3, <4>1, <4>3, ExcludedBelow
        <5> QED
          BY <3>3, <5>1 DEF Open
      <4> QED
        BY <4>2, <4>3
    <3> QED
      BY <3>1, <3>2, <3>3 DEF Open
  <2> HIDE DEF path
  <2> QED
    BY <1>2, <1>4, <1>6, <1>9, <2>1, <2>2, <2>3, ScanKeep
<1> QED
  BY <1>7, <1>10, <1>11, <1>12

\* A directory that is marked is not an excluded one that was there at
\* first.
LEMMA MarkedKeep ==
  ASSUME TypeInv, Keep, scan # << >>, ResolveIn(loc, Top.path) \in Dirs,
         loc[ResolveIn(loc, Top.path)] = InitialLoc[ResolveIn(loc, Top.path)]
  PROVE  ~ExcludedAtFirst(ResolveIn(loc, Top.path))
<1> DEFINE path == Top.path
           x == ResolveIn(loc, path)
<1>1. IsPath(path) /\ Top \in ToSet(scan) /\ Aged(loc) /\ loc \in [Dirs -> Locations]
  BY ScanType, ScanParts DEF Keep, TypeInv
<1> HIDE DEF path
<1>2. ResolveIn(InitialLoc, path) = x
  BY <1>1, LedThere DEF path
<1>3. x # Dead
  BY PlacesAssumption DEF Places, path
<1>4. Open(loc, path)
  BY <1>1 DEF Keep, path
<1>5. ~New(loc, path)
  <2>1. loc[x] = InitialLoc[x]
    BY DEF path
  <2> HIDE DEF x
  <2> QED
    BY <1>2, <1>3, <2>1 DEF New
<1>6. ~ExcludedAtFirst(ResolveIn(InitialLoc, path))
  BY <1>4, <1>5 DEF Open
<1> QED
  BY <1>2, <1>6 DEF path

\* When the call is at the root it is the only one.
LEMMA RootIsLast ==
  ASSUME TypeInv, scan # << >>, OneRoot(scan), ResolveIn(loc, Top.path) = Root
  PROVE  Below = << >>
<1> DEFINE n == Len(scan)
<1>1. n \in Nat \ {0} /\ Below \in Seq(Calls) /\ Len(Below) = n - 1 /\ IsPath(Top.path) /\ Top = scan[n]
  BY ScanType DEF Top
<1>2. Top.path = <<RootName>>
  <2>1. Root # Dead /\ ResolveIn(loc, <<RootName>>) = Root /\ IsPath(<<RootName>>)
    BY PlacesAssumption, RootPath, ResolveSteps
  <2>2. loc \in [Dirs -> Locations]
    BY DEF TypeInv
  <2> QED
    BY <1>1, <2>1, <2>2, OnePath
<1> HIDE DEF n
<1>3. n \notin 2..n
  BY <1>1, <1>2 DEF OneRoot, n
<1>4. n - 1 = 0
  BY <1>1, <1>3
<1> QED
  BY <1>1, <1>4, EmptySeq

\* watch_file marks a directory that is new or not excluded.
LEMMA ScanWatchKeep ==
  ASSUME TypeInv, Sync, Keep, ScanWatch
  PROVE  Keep'
<1> DEFINE dir == Resolve(Top.path)
           marked == dir \in DOMAIN kmarks
           wd == IF marked THEN kmarks[dir] ELSE knext
<1>1. UNCHANGED <<loc, late, mode, kq>> /\ scan # << >>
  BY DEF ScanWatch, fsvars
<1>2. \/ scan' \in {Below, << >>} /\ UNCHANGED <<kmarks, knext, reg>>
      \/ /\ kmarks' = Put(kmarks, dir, wd) /\ dir # NoDir
         /\ reg' = CreateInotifyWatch(reg, wd, Top.path)
         /\ scan' = Below
  BY DEF ScanWatch, Vanished
<1>3. OneRoot(scan') /\ ToSet(scan') \subseteq ToSet(scan)
  <2>1. OneRoot(Below) /\ ToSet(Below) \subseteq ToSet(scan)
    BY <1>1, OneRootCall, ScanParts DEF Keep
  <2>2. OneRoot(<< >>) /\ ToSet(<< >>) = {}
    BY DEF OneRoot, ToSet
  <2>3. scan' \in {Below, << >>}
    BY <1>2
  <2> QED
    BY <2>1, <2>2, <2>3
<1>4. CASE UNCHANGED <<kmarks, knext, reg>>
  BY <1>1, <1>3, <1>4, ScanKeep
<1>5. CASE /\ kmarks' = Put(kmarks, dir, wd) /\ dir # NoDir
           /\ reg' = CreateInotifyWatch(reg, wd, Top.path)
           /\ scan' = Below
  <2> DEFINE path == Top.path
  <2>1. IsPath(path) /\ Sound(reg) /\ dir = ResolveIn(loc, path)
    BY <1>1, ScanType, ResolveNow DEF TypeInv
  <2> HIDE DEF dir, marked, wd
  <2>2. DOMAIN kmarks' = DOMAIN kmarks \cup {dir}
    BY <1>5 DEF Put
  <2>3. \A w \in DOMAIN reg.by_wd : w \in DOMAIN reg'.by_wd /\ NameOf(reg', w) = NameOf(reg, w)
    <3>1. reg' = CreateInotifyWatch(reg, wd, path)
      BY <1>5
    <3> HIDE DEF path
    <3> QED
      BY <2>1, <3>1, CreateSound DEF NameOf
  <2>4. \A x : ExcludedAtFirst(x)' = ExcludedAtFirst(x)
    BY <1>1 DEF ExcludedAtFirst
  <2>5. \A d \in Dirs : d \in DOMAIN kmarks' /\ loc'[d] = InitialLoc[d] => ~ExcludedAtFirst(d)'
    <3> SUFFICES ASSUME NEW d \in Dirs, d \in DOMAIN kmarks', loc'[d] = InitialLoc[d]
                 PROVE  ~ExcludedAtFirst(d)
      BY <2>4
    <3>1. CASE d \in DOMAIN kmarks
      BY <1>1, <3>1 DEF Keep
    <3>2. CASE d = dir
      BY <1>1, <2>1, <3>2, MarkedKeep
    <3> QED
      BY <2>2, <3>1, <3>2
  <2>6. Started => Started'
    BY <2>2 DEF Started
  <2>7. ASSUME Started', ~Started PROVE ToSet(scan') = {}
    <3>1. dir = Root
      BY <2>2, <2>7 DEF Started
    <3>2. scan' = << >>
      BY <1>1, <1>5, <2>1, <3>1, RootIsLast DEF Keep
    <3> QED
      BY <3>2 DEF ToSet
  <2>8. ASSUME NEW f \in ToSet(scan') PROVE Open(loc, f.path)'
    <3>0. Started' = Started
      BY <2>6, <2>7, <2>8 DEF Started
    <3>1. Open(loc, f.path)
      BY <1>3, <2>8 DEF Keep
    <3> QED
      BY <1>1, <2>4, <3>0, <3>1 DEF Open
  <2>10. \A e \in ToSet(kq') :
           e.kind \in {"create", "moved_to"} =>
             e.wd \in DOMAIN reg'.by_wd /\ New(loc', Append(NameOf(reg', e.wd), e.name))
    BY <1>1, <2>3 DEF Keep
  <2>11. Aged(loc') /\ \A d \in Dirs : Made(loc', late'[d], d)
    BY <1>1 DEF Keep
  <2> QED
    BY <1>3, <2>5, <2>8, <2>10, <2>11 DEF Keep
<1> QED
  BY <1>2, <1>4, <1>5

\* An event that tells of no new directory.
LEMMA OtherEventKeep ==
  ASSUME TypeInv, Keep, kq # << >>, kq' = Tail(kq), UNCHANGED <<loc, late, mode, kmarks, reg, scan>>
  PROVE  Keep'
<1>1. ToSet(kq') \subseteq ToSet(kq) /\ Started' = Started
  BY QueueParts DEF Started
<1>2. \A x : ExcludedAtFirst(x)' = ExcludedAtFirst(x)
  BY DEF ExcludedAtFirst
<1>3. \A f \in ToSet(scan') : Open(loc, f.path)'
  BY <1>1, <1>2 DEF Keep, Open
<1> QED
  BY <1>1, <1>2, <1>3 DEF Keep

\* An event that tells of a new directory: the path scanned is a new one.
LEMMA NewDirKeep ==
  ASSUME TypeInv, Keep, kq # << >>, E.kind \in {"create", "moved_to"}, kq' = Tail(kq),
         UNCHANGED <<loc, late, mode, kmarks, reg>>, StartScan(DirPath(reg))
  PROVE  Keep'
<1> DEFINE path == DirPath(reg)
<1>1. ToSet(kq) = {E} \cup ToSet(kq') /\ Started' = Started
  BY QueueParts DEF Started
<1>2. \A x : ExcludedAtFirst(x)' = ExcludedAtFirst(x)
  BY DEF ExcludedAtFirst
<1>3. E.wd \in DOMAIN reg.by_wd /\ New(loc, Append(NameOf(reg, E.wd), E.name))
  BY <1>1 DEF Keep
<1>4. path = Append(NameOf(reg, E.wd), E.name)
  BY <1>3 DEF DirPath, NameOf
<1> HIDE DEF path
<1> DEFINE new == Frame(path)
<1>5. new.path = path
  BY DEF Frame
<1>6. scan' = <<new>> \/ scan' = << >>
  BY DEF StartScan, path
<1> HIDE DEF new
<1>7. OneRoot(scan') /\ ToSet(scan') \subseteq {new}
  <2>1. Len(<<new>>) = 1 /\ Len(<< >>) = 0 /\ ToSet(<<new>>) = {new} /\ ToSet(<< >>) = {}
    BY DEF ToSet
  <2> QED
    BY <1>6, <2>1 DEF OneRoot
<1>8. \A f \in ToSet(scan') : Open(loc, f.path)'
  BY <1>3, <1>4, <1>5, <1>7 DEF Open
<1> QED
  BY <1>1, <1>2, <1>7, <1>8 DEF Keep

\* Every step keeps what was excluded out.
LEMMA KeepStep ==
  ASSUME TypeInv, Sync, Keep, Calm, [Next]_vars
  PROVE  Keep'
<1>1. CASE ScanOpen \/ ScanEntry \/ ScanWatch
  BY <1>1, ScanOpenKeep, ScanEntryKeep, ScanWatchKeep
<1>2. CASE DropFiltered
  BY <1>2, OtherEventKeep DEF DropFiltered, fsvars, toolvars
<1>3. CASE HandleCreate
  <2>1. /\ kq # << >> /\ E.kind = "create" /\ LeaveTree(reg')
        /\ StartScan(DirPath(reg')) /\ UNCHANGED <<loc, late, mode>>
    BY <1>3 DEF HandleCreate, Receives, fsvars
  <2>2. reg' = reg /\ kmarks' = kmarks /\ kq' = Tail(kq)
    BY <2>1, LeaveNothing
  <2>3. StartScan(DirPath(reg))
    BY <2>1, <2>2
  <2> QED
    BY <2>1, <2>2, <2>3, NewDirKeep
<1>4. CASE HandleMovedFrom
  BY <1>4, FirstStill DEF HandleMovedFrom, Receives
<1>5. CASE HandleOther
  <2>1. kq # << >> /\ LeaveTree(reg') /\ UNCHANGED <<loc, late, mode, scan>>
    BY <1>5 DEF HandleOther, Receives, fsvars
  <2> QED
    BY <2>1, LeaveNothing, OtherEventKeep
<1>6. CASE HandleMovedIn
  <2>1. /\ kq # << >> /\ E.kind = "moved_to" /\ kq' = Tail(kq)
        /\ StartScan(DirPath(reg)) /\ UNCHANGED <<loc, late, mode, kmarks, reg>>
    BY <1>6 DEF HandleMovedIn, Receives, fsvars
  <2> QED
    BY <2>1, NewDirKeep
<1>7. CASE HandleMovedTo
  BY <1>7 DEF HandleMovedTo, Sync
<1>8. ASSUME NEW d \in Dirs, NEW p \in Dirs \cup {Root}, NEW n \in Names,
             mkdir(d, p, n) \/ rename(d, p, n) \/ movein(d, p, n)
      PROVE  Keep'
  <2>1. ~rename(d, p, n) /\ ~movein(d, p, n)
    BY DEF rename, movein, Operation, Calm
  <2> QED
    BY <1>8, <2>1, MkdirKeep
<1>9. ASSUME NEW d \in Dirs, rmdir(d) \/ moveout(d) \/ Notify(d)
      PROVE  Keep'
  <2>1. ~moveout(d)
    BY DEF moveout, Operation, Calm
  <2> QED
    BY <1>9, <2>1, RmdirKeep, NotifyKeep
<1>10. CASE UNCHANGED vars
  BY <1>10 DEF vars, Keep, Open, Started, ExcludedAtFirst
<1> QED
  BY <1>1, <1>2, <1>3, <1>4, <1>5, <1>6, <1>7, <1>8, <1>9, <1>10 DEF Next, Tool

\* At first the only call is at the root, which nothing excludes.
LEMMA KeepInit == Init => Keep
<1> SUFFICES ASSUME Init PROVE Keep
  OBVIOUS
<1> DEFINE f == Frame(<<RootName>>)
<1>1. f.path = <<RootName>> /\ kmarks = EmptyMap /\ scan = <<f>> /\ kq = << >> /\ loc = InitialLoc
      /\ late = [d \in Dirs |-> << >>]
  BY DEF Init, Frame
<1> HIDE DEF f
<1>2. ToSet(scan) = {f} /\ Len(scan) = 1 /\ DOMAIN kmarks = {} /\ ToSet(kq) = {}
  BY <1>1 DEF ToSet, EmptyMap
<1>3. Aged(loc) /\ OneRoot(scan) /\ ~Started
  BY <1>1, <1>2, InitialLocAssumption DEF Aged, OneRoot, Started
<1>4. ~ExcludedAtFirst(ResolveIn(InitialLoc, f.path))
  <2>1. ResolveIn(InitialLoc, f.path) = Root
    BY <1>1, ResolveSteps
  <2>2. AboveIn(InitialLoc, Root) \ {Root} = {}
    BY AbovePlace, InitialLocAssumption DEF Places
  <2> QED
    BY <2>1, <2>2 DEF ExcludedAtFirst
<1>5. \A d \in Dirs : Made(loc, late[d], d)
  BY <1>1, ToSetFacts DEF Made
<1> QED
  BY <1>1, <1>2, <1>3, <1>4, <1>5 DEF Keep, Open

\* Above a directory in its first place are the directories that were above
\* it at first, in their first places.
LEMMA AboveAtFirst ==
  ASSUME NEW l \in [Dirs -> Locations], Aged(l), NEW d \in Dirs, l[d] = InitialLoc[d]
  PROVE  \A x \in AboveIn(l, d) :
           x \in AboveIn(InitialLoc, d) /\ (x \in Dirs => l[x] = InitialLoc[x])
<1> DEFINE c == Cardinality(Dirs)
<1>1. c \in Nat
  BY PlacesAssumption, FS_CardinalityType
<1>2. PICK up : IsClimb(up, l, d)
  BY Climb DEF Nodes
<1>3. PICK vp : IsClimb(vp, InitialLoc, d)
  BY Climb, InitialLocAssumption DEF Nodes
<1>4. /\ up[0] = d /\ AboveIn(l, d) = {up[k] : k \in 0..c}
      /\ \A k \in 1..c : up[k] = ParentIn(l, up[k - 1])
  BY <1>2 DEF IsClimb
<1>5. /\ vp[0] = d /\ AboveIn(InitialLoc, d) = {vp[k] : k \in 0..c}
      /\ \A k \in 1..c : vp[k] = ParentIn(InitialLoc, vp[k - 1])
  BY <1>3 DEF IsClimb
<1> HIDE DEF c
<1> DEFINE First(x) == x \in Dirs => l[x] = InitialLoc[x]
           T == {k \in Nat : k <= c => up[k] = vp[k] /\ First(up[k])}
<1>6. ASSUME NEW x, First(x)
      PROVE  ParentIn(l, x) = ParentIn(InitialLoc, x) /\ First(ParentIn(l, x))
  BY <1>6, FirstParent DEF ParentIn
<1>7. 0 \in T
  BY <1>4, <1>5
<1>8. ASSUME NEW k \in Nat, k \in T PROVE k + 1 \in T
  <2> SUFFICES ASSUME k + 1 <= c PROVE up[k + 1] = vp[k + 1] /\ First(up[k + 1])
    OBVIOUS
  <2>1. k + 1 \in 1..c /\ (k + 1) - 1 = k /\ k <= c
    BY <1>1
  <2>2. up[k] = vp[k] /\ First(up[k])
    BY <1>8, <2>1
  <2>3. up[k + 1] = ParentIn(l, up[k]) /\ vp[k + 1] = ParentIn(InitialLoc, vp[k])
    BY <1>4, <1>5, <2>1
  <2> HIDE DEF First
  <2> QED
    BY <1>6, <2>2, <2>3
<1> HIDE DEF T
<1>9. Nat \subseteq T
  BY <1>7, <1>8, NatSetInduction
<1>10. \A k \in 0..c : up[k] = vp[k] /\ First(up[k])
  BY <1>1, <1>9 DEF T
<1> QED
  BY <1>4, <1>5, <1>10

\* What is excluded now, and was there at first, was excluded then.
LEMMA KeepFollows ==
  ASSUME TypeInv, Keep, NEW d \in Dirs, loc[d] = InitialLoc[d], InTree(d), Excluded(d)
  PROVE  d \notin DOMAIN kmarks
<1>1. loc \in [Dirs -> Locations] /\ Aged(loc) /\ mode \in Modes
  BY DEF TypeInv, Keep
<1>2. PICK path \in mode.excluded : Resolve(path) \in Above(d) \ {Root}
  BY DEF Excluded
<1>3. IsPath(path)
  BY <1>1, ModesAssumption
<1> DEFINE x == ResolveIn(loc, path)
<1>4. x \in AboveIn(loc, d) /\ x # Root /\ Root \in AboveIn(loc, d)
  BY <1>2, AboveNow, ResolveNow DEF InTree
<1> HIDE DEF x
<1>5. x \in Dirs
  BY <1>1, <1>4, AboveInTree
<1>6. x \in AboveIn(InitialLoc, d) /\ loc[x] = InitialLoc[x]
  BY <1>1, <1>4, <1>5, AboveAtFirst
<1>7. ResolveIn(InitialLoc, path) = x
  BY <1>1, <1>3, <1>5, <1>6, LedThere DEF x
<1>8. ExcludedAtFirst(d)
  BY <1>4, <1>6, <1>7 DEF ExcludedAtFirst
<1> QED
  BY <1>8 DEF Keep

\* What the list of excluded paths keeps from being watched stays out: the
\* list is given to the first scan only, but as long as directories are only
\* made and removed, at whatever moment, no event and no scan that follows
\* ever leads to a directory that was there, and excluded, at first.
THEOREM ExcludedNeverWatched == Spec => []ExcludedStaysOut
<1> DEFINE Inv == TypeInv /\ (Calm => Sync /\ Keep)
<1>1. Init => Inv
  BY TypeInit, SyncInit, KeepInit
<1>2. Inv /\ [Next]_vars => Inv'
  <2> SUFFICES ASSUME Inv, [Next]_vars PROVE Inv'
    OBVIOUS
  <2>1. TypeInv'
    BY TypeStep
  <2>2. Calm' = Calm /\ (Calm => Growing)
    BY ModeKept DEF Calm, Growing
  <2>3. Calm => Sync' /\ Keep'
    BY <2>2, SyncStep, KeepStep
  <2> QED
    BY <2>1, <2>2, <2>3
<1>3. Inv => ExcludedStaysOut
  BY KeepFollows DEF ExcludedStaysOut, Calm
<1> HIDE DEF Inv
<1> QED
  BY <1>1, <1>2, <1>3, PTL DEF Spec
=============================================================================
