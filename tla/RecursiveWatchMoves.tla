------------------------- MODULE RecursiveWatchMoves -------------------------
(***************************************************************************)
(* Proofs about RecursiveWatch: directories that are renamed, by one who   *)
(* does not wait for the tool, and ones that are moved out of the tree.    *)
(***************************************************************************)
EXTENDS RecursiveWatchProofs

(***************************************************************************)
(* Directories that move.                                                  *)
(***************************************************************************)

\* The path that old becomes when new takes the place of its beginning.
Onto(new, old, s) == new \o SubSeq(s, Len(old) + 1, Len(s))

\* A path starts with another one when it begins with the same names.
LEMMA StartsIs ==
  ASSUME NEW s \in Seq(Nat), NEW p \in Seq(Nat)
  PROVE  StartsWith(s, p) <=> Len(p) <= Len(s) /\ \A k \in 1..Len(p) : s[k] = p[k]
<1> DEFINE l == Len(s)
           m == Len(p)
<1>1. l \in Nat /\ m \in Nat /\ DOMAIN p = 1..m
  BY LenProperties
<1> SUFFICES ASSUME m <= l PROVE SubSeq(s, 1, m) = p <=> \A k \in 1..m : s[k] = p[k]
  BY DEF StartsWith
<1> DEFINE q == SubSeq(s, 1, m)
<1>2. q \in Seq(Nat) /\ Len(q) = m /\ \A k \in 1..m : q[k] = s[k]
  <2>1. \A k \in 1..m : s[k] \in Nat
    <3>1. \A k \in 1..l : s[k] \in Nat
      BY ElementOfSeq
    <3> HIDE DEF l, m
    <3> QED
      BY <1>1, <3>1
  <2>2. 1 \in Int /\ m \in Int
    BY <1>1
  <2> HIDE DEF l, m
  <2>3. /\ q \in Seq(Nat) /\ Len(q) = IF 1 <= m THEN m - 1 + 1 ELSE 0
        /\ \A i \in 1..(m - 1 + 1) : q[i] = s[1 + i - 1]
    BY <2>1, <2>2, SubSeqProperties
  <2>4. m - 1 + 1 = m /\ (IF 1 <= m THEN m - 1 + 1 ELSE 0) = m
    BY <1>1
  <2>5. \A k \in 1..m : 1 + k - 1 = k
    BY <1>1
  <2> HIDE DEF q
  <2> QED
    BY <2>3, <2>4, <2>5
<1> HIDE DEF q, l
<1>3. p \in Seq(Nat) /\ Len(p) = m
  OBVIOUS
<1> HIDE DEF m
<1>4. ASSUME \A k \in 1..m : q[k] = p[k] PROVE q = p
  BY <1>2, <1>3, <1>4, SeqEqual
<1> QED
  BY <1>2, <1>4 DEF q

\* Prefixes of a path that goes on.
LEMMA StartsAppend ==
  ASSUME NEW q, IsPath(q), NEW old, IsPath(old), NEW n \in Names
  PROVE  /\ StartsWith(q, q)
         /\ StartsWith(q, old) => StartsWith(Append(q, n), old)
         /\ StartsWith(Append(q, n), old) => StartsWith(q, old) \/ Append(q, n) = old
<1> DEFINE a == Append(q, n)
           l == Len(q)
           m == Len(old)
<1>1. /\ q \in Seq(Nat) /\ old \in Seq(Nat) /\ a \in Seq(Nat) /\ l \in Nat /\ m \in Nat
      /\ Len(a) = l + 1 /\ a[l + 1] = n /\ \A k \in 1..l : a[k] = q[k]
  BY PathsAreLists, PathAppend
<1>2. /\ StartsWith(q, q)
      /\ StartsWith(q, old) <=> m <= l /\ \A k \in 1..m : q[k] = old[k]
      /\ StartsWith(a, old) <=> m <= Len(a) /\ \A k \in 1..m : a[k] = old[k]
  <2> HIDE DEF a
  <2> QED
    BY <1>1, StartsIs, SMTT(30)
<1>3. Len(old) = m
  OBVIOUS
<1> HIDE DEF a, l, m
<1>4. ASSUME StartsWith(q, old) PROVE StartsWith(a, old)
  <2>1. m <= l /\ \A k \in 1..m : k \in 1..l
    BY <1>1, <1>2, <1>4
  <2> QED
    BY <1>1, <1>2, <1>4, <2>1
<1>5. ASSUME StartsWith(a, old), m <= l PROVE StartsWith(q, old)
  <2>1. \A k \in 1..m : k \in 1..l
    BY <1>1, <1>5
  <2> QED
    BY <1>1, <1>2, <1>5, <2>1
<1>6. ASSUME StartsWith(a, old), ~(m <= l) PROVE a = old
  <2>1. m = l + 1
    BY <1>1, <1>2, <1>6
  <2> QED
    BY <1>1, <1>2, <1>3, <1>6, <2>1, SeqEqual
<1> QED
  BY <1>2, <1>4, <1>5, <1>6 DEF a

\* What replaces the old beginning is followed by the rest.
LEMMA OntoAppend ==
  ASSUME NEW old, IsPath(old), NEW new, IsPath(new)
  PROVE  /\ Onto(new, old, old) = new
         /\ \A q : IsPath(q) /\ StartsWith(q, old) =>
              /\ IsPath(Onto(new, old, q))
              /\ \A n \in Names : Onto(new, old, Append(q, n)) = Append(Onto(new, old, q), n)
<1>1. new \in Seq(Alphabet) /\ old \in Seq(Alphabet) /\ Len(old) \in Nat
  BY PathsAreLists
<1>2. Onto(new, old, old) = new
  <2>1. SubSeq(old, Len(old) + 1, Len(old)) = << >>
    <3> DEFINE m == Len(old)
    <3>1. m + 1 \in Int /\ m \in Int /\ m < m + 1
      BY <1>1
    <3> HIDE DEF m
    <3>2. SubSeq(old, m + 1, m) = << >>
      BY <3>1, SubSeqEmpty
    <3> QED
      BY <3>2 DEF m
  <2>2. new \o << >> = new
    BY <1>1, ConcatEmptySeq
  <2> QED
    BY <2>1, <2>2 DEF Onto
<1>3. ASSUME NEW q, IsPath(q), StartsWith(q, old), NEW n \in Names
      PROVE  Onto(new, old, Append(q, n)) = Append(Onto(new, old, q), n)
  <2> DEFINE a == Append(q, n)
             l == Len(q)
             m == Len(old)
             r == SubSeq(q, m + 1, l)
             s == SubSeq(a, m + 1, l + 1)
  <2>1. /\ q \in Seq(Alphabet) /\ a \in Seq(Alphabet) /\ Len(a) = l + 1 /\ a[l + 1] = n
        /\ l \in Nat \ {0} /\ \A k \in 1..l : a[k] = q[k]
    BY <1>3, PathsAreLists, PathAppend
  <2>2. m <= l /\ m \in Nat /\ n \in Alphabet
    BY <1>1, <1>3 DEF StartsWith, Alphabet
  <2>3. (\A i \in (m + 1)..l : q[i] \in Alphabet) /\ \A i \in (m + 1)..(l + 1) : a[i] \in Alphabet
    <3>1. (\A i \in 1..l : q[i] \in Alphabet) /\ \A i \in 1..Len(a) : a[i] \in Alphabet
      BY <2>1, ElementOfSeq
    <3> HIDE DEF a, l, m
    <3> QED
      BY <2>1, <2>2, <3>1
  <2> HIDE DEF a, l, m
  <2>4. m + 1 \in Int /\ l \in Int /\ l + 1 \in Int
    BY <2>1, <2>2
  <2>5. /\ r \in Seq(Alphabet) /\ Len(r) = l - m
        /\ \A i \in 1..(l - m) : r[i] = q[m + i]
    <3>1. /\ r \in Seq(Alphabet) /\ Len(r) = IF m + 1 <= l THEN l - (m + 1) + 1 ELSE 0
          /\ \A i \in 1..(l - (m + 1) + 1) : r[i] = q[(m + 1) + i - 1]
      BY <2>3, <2>4, SubSeqProperties
    <3>2. l - (m + 1) + 1 = l - m /\ (IF m + 1 <= l THEN l - (m + 1) + 1 ELSE 0) = l - m
      BY <2>1, <2>2
    <3>3. \A i \in 1..(l - m) : (m + 1) + i - 1 = m + i
      BY <2>1, <2>2
    <3> HIDE DEF r
    <3> QED
      BY <3>1, <3>2, <3>3
  <2>6. /\ s \in Seq(Alphabet) /\ Len(s) = l - m + 1
        /\ \A i \in 1..(l - m + 1) : s[i] = a[m + i]
    <3>1. /\ s \in Seq(Alphabet) /\ Len(s) = IF m + 1 <= l + 1 THEN (l + 1) - (m + 1) + 1 ELSE 0
          /\ \A i \in 1..((l + 1) - (m + 1) + 1) : s[i] = a[(m + 1) + i - 1]
      BY <2>3, <2>4, SubSeqProperties
    <3>2. (l + 1) - (m + 1) + 1 = l - m + 1 /\ (IF m + 1 <= l + 1 THEN (l + 1) - (m + 1) + 1 ELSE 0) = l - m + 1
      BY <2>1, <2>2
    <3>3. \A i \in 1..(l - m + 1) : (m + 1) + i - 1 = m + i
      BY <2>1, <2>2
    <3> HIDE DEF s
    <3> QED
      BY <3>1, <3>2, <3>3
  <2> HIDE DEF r, s
  <2>7. s = Append(r, n)
    <3> DEFINE t == Append(r, n)
    <3>1. /\ t \in Seq(Alphabet) /\ Len(t) = l - m + 1 /\ t[l - m + 1] = n
          /\ \A i \in 1..(l - m) : t[i] = r[i]
      BY <2>2, <2>5, AppendProperties
    <3> HIDE DEF t
    <3>2. ASSUME NEW i \in 1..(l - m + 1) PROVE s[i] = t[i]
      <4>1. CASE i = l - m + 1
        <5>1. m + i = l + 1
          BY <2>1, <2>2, <4>1
        <5> QED
          BY <2>1, <2>6, <3>1, <4>1, <5>1
      <4>2. CASE i # l - m + 1
        <5>1. i \in 1..(l - m) /\ m + i \in 1..l
          BY <2>1, <2>2, <4>2
        <5> QED
          BY <2>1, <2>5, <2>6, <3>1, <5>1
      <4> QED
        BY <4>1, <4>2
    <3>3. s = t
      BY <2>6, <3>1, <3>2, SeqEqual
    <3> QED
      BY <3>3 DEF t
  <2>8. new \o Append(r, n) = Append(new \o r, n)
    <3>1. <<n>> \in Seq(Alphabet) /\ new \o r \in Seq(Alphabet)
      BY <1>1, <2>2, <2>5, ConcatProperties
    <3>2. Append(r, n) = r \o <<n>> /\ Append(new \o r, n) = (new \o r) \o <<n>>
      BY <2>2, <2>5, <3>1, AppendIsConcat
    <3>3. (new \o r) \o <<n>> = new \o (r \o <<n>>)
      BY <1>1, <2>5, <3>1, ConcatAssociative
    <3> QED
      BY <3>2, <3>3
  <2>9. Onto(new, old, Append(q, n)) = new \o s /\ Onto(new, old, q) = new \o r
    BY <2>1 DEF Onto, s, r, a, l, m
  <2> QED
    BY <2>7, <2>8, <2>9
<1> QED
  BY <1>2, <1>3, RenamedPath DEF Onto

\* Above the one a directory of the tree is in is what is above the directory.
LEMMA ParentAbove ==
  ASSUME NEW l \in [Dirs -> Locations], NEW d \in Dirs, Root \in AboveIn(l, d)
  PROVE  AboveIn(l, l[d][1]) \subseteq AboveIn(l, d) /\ Root \in AboveIn(l, l[d][1])
<1> DEFINE c == Cardinality(Dirs)
           x == l[d][1]
<1>1. c \in Nat /\ Root \notin Dirs
  BY PlacesAssumption, FS_CardinalityType DEF Places
<1>2. x \in Nodes
  BY DEF Locations, Nodes, Places
<1>3. PICK up : IsClimb(up, l, d)
  BY Climb DEF Nodes
<1>4. PICK vp : IsClimb(vp, l, x)
  BY <1>2, Climb
<1>5. \A k \in Nat : k + 1 <= c => up[k + 1] = vp[k]
  BY <1>3, <1>4, ClimbChild
<1> HIDE DEF x
<1>6. /\ up[0] = d /\ AboveIn(l, d) = {up[k] : k \in 0..c}
      /\ vp[0] = x /\ AboveIn(l, x) = {vp[k] : k \in 0..c}
  BY <1>3, <1>4 DEF IsClimb
<1>7. PICK k \in 0..c : up[k] = Root
  BY <1>6
<1>8. \A j \in k..c : up[j] = Root
  BY <1>1, <1>3, <1>7, PlaceStays
<1>9. \A i \in 0..c : vp[i] \notin Dirs => \A j \in i..c : vp[j] = vp[i]
  BY <1>4, PlaceStays
<1> HIDE DEF c
<1>10. k # 0
  BY <1>1, <1>6, <1>7
<1>11. k - 1 \in 0..c /\ k - 1 \in Nat /\ (k - 1) + 1 = k /\ k <= c /\ c \in (k - 1)..c /\ c \in 0..c
  BY <1>1, <1>10
<1>12. vp[k - 1] = Root
  BY <1>5, <1>7, <1>11
<1>13. vp[c] = Root
  BY <1>1, <1>9, <1>11, <1>12
<1>14. ASSUME NEW i \in 0..c PROVE vp[i] \in AboveIn(l, d)
  <2>1. CASE i = c
    BY <1>6, <1>7, <1>13, <2>1
  <2>2. CASE i # c
    <3>1. i \in Nat /\ i + 1 <= c /\ i + 1 \in 0..c
      BY <1>1, <2>2
    <3> QED
      BY <1>5, <1>6, <3>1
  <2> QED
    BY <2>1, <2>2
<1> QED
  BY <1>6, <1>11, <1>12, <1>14 DEF x

\* A directory is above itself, and above those its path goes on to.
LEMMA PrefixAbove ==
  ASSUME NEW l \in [Dirs -> Locations], NEW old, IsPath(old), ResolveIn(l, old) \in Dirs,
         NEW path, IsPath(path), StartsWith(path, old),
         Root \in AboveIn(l, ResolveIn(l, path))
  PROVE  ResolveIn(l, old) \in AboveIn(l, ResolveIn(l, path))
<1> DEFINE d == ResolveIn(l, old)
           S == {q \in Seq(Alphabet) :
                   StartsWith(q, old) /\ Root \in AboveIn(l, ResolveIn(l, q)) => d \in AboveIn(l, ResolveIn(l, q))}
<1>1. \A p : IsPath(p) => p \in Seq(Alphabet)
  BY PathsAreLists
<1>2. Root \notin Dirs /\ Dead \notin Dirs
  BY PlacesAssumption DEF Places
<1>3. d \in AboveIn(l, d)
  <2> HIDE DEF d
  <2>1. PICK up : IsClimb(up, l, d)
    BY Climb DEF Nodes, d
  <2>2. 0 \in 0..Cardinality(Dirs)
    BY PlacesAssumption, FS_CardinalityType
  <2> QED
    BY <2>1, <2>2 DEF IsClimb
<1>4. <<RootName>> \in S
  <2>1. SUFFICES ASSUME StartsWith(<<RootName>>, old) PROVE FALSE
    BY <1>1, RootPath
  <2>2. Len(old) <= 1 /\ SubSeq(<<RootName>>, 1, Len(old)) = old
    BY <2>1, RootPath DEF StartsWith
  <2>3. old = <<RootName>>
    BY <2>2 DEF IsPath
  <2> QED
    BY <1>2, <2>3, ResolveSteps
<1>5. ASSUME NEW q, IsPath(q), q \in S, NEW n \in Names PROVE Append(q, n) \in S
  <2> DEFINE x == ResolveIn(l, Append(q, n))
             y == ResolveIn(l, q)
  <2>1. Append(q, n) \in Seq(Alphabet)
    BY <1>1, <1>5, PathAppend
  <2>2. SUFFICES ASSUME StartsWith(Append(q, n), old), Root \in AboveIn(l, x) PROVE d \in AboveIn(l, x)
    BY <2>1
  <2>3. CASE Append(q, n) = old
    BY <1>3, <2>3
  <2>4. CASE StartsWith(q, old)
    <3>1. x # Dead
      <4>1. AboveIn(l, Dead) = {Dead}
        BY AbovePlace, PlacesAssumption DEF Places
      <4> QED
        BY <2>2, <4>1, PlacesAssumption
    <3>2. x \in Dirs /\ l[x] = <<y, n>>
      BY <1>5, <3>1, EntryAt
    <3> HIDE DEF x, y
    <3>3. AboveIn(l, y) \subseteq AboveIn(l, x) /\ Root \in AboveIn(l, y)
      <4>1. l[x][1] = y
        BY <3>2
      <4> QED
        BY <2>2, <3>2, <4>1, ParentAbove
    <3> QED
      BY <1>5, <2>4, <3>3 DEF y
  <2> QED
    BY <1>5, <2>2, <2>3, <2>4, StartsAppend
<1> HIDE DEF S
<1>6. path \in S
  BY <1>4, <1>5, PathInduction, Zenon
<1> QED
  BY <1>6 DEF S

(***************************************************************************)
(* Where paths lead after a directory was moved in the tree.               *)
(***************************************************************************)

\* Directory d of the tree l moves to p, under the name n, which gives m.
Moves(l, m, d, p, n) ==
  /\ d \in Dirs /\ p \in Dirs \cup {Root} /\ n \in Names
  /\ \A e \in Dirs : l[e] # <<p, n>>
  /\ Root \in AboveIn(l, p) /\ d \notin AboveIn(l, p)
  /\ m = [l EXCEPT ![d] = <<p, n>>]

\* A path that does not lead to or through the directory leads where it did.
LEMMA MoveKeeps ==
  ASSUME NEW l \in [Dirs -> Locations], NEW m, Distinct(m), NEW d, NEW p, NEW n, Moves(l, m, d, p, n),
         NEW old, IsPath(old), ResolveIn(l, old) = d,
         NEW path, IsPath(path), ~StartsWith(path, old), ResolveIn(l, path) # Dead
  PROVE  ResolveIn(m, path) = ResolveIn(l, path)
<1> DEFINE S == {q \in Seq(Alphabet) :
                   ~StartsWith(q, old) /\ ResolveIn(l, q) # Dead => ResolveIn(m, q) = ResolveIn(l, q)}
<1>1. \A q : IsPath(q) => q \in Seq(Alphabet)
  BY PathsAreLists
<1>2. d \in Dirs /\ m = [l EXCEPT ![d] = <<p, n>>] /\ Dead \notin Dirs \cup {Root}
  BY PlacesAssumption DEF Moves, Places
<1>3. <<RootName>> \in S
  BY <1>1, RootPath, ResolveSteps
<1>4. ASSUME NEW q, IsPath(q), q \in S, NEW k \in Names PROVE Append(q, k) \in S
  <2> DEFINE x == ResolveIn(l, Append(q, k))
             y == ResolveIn(l, q)
  <2>1. Append(q, k) \in Seq(Alphabet) /\ IsPath(Append(q, k))
    BY <1>1, <1>4, PathAppend
  <2>2. SUFFICES ASSUME ~StartsWith(Append(q, k), old), x # Dead
                 PROVE  ResolveIn(m, Append(q, k)) = x
    BY <2>1
  <2>3. x \in Dirs /\ l[x] = <<y, k>> /\ y \in Dirs \cup {Root}
    BY <1>4, <2>2, EntryAt
  <2>4. x # d
    <3>1. SUFFICES ASSUME x = d PROVE FALSE
      OBVIOUS
    <3>2. Append(q, k) = old
      BY <2>1, <2>2, <3>1, OnePath
    <3> QED
      BY <2>1, <2>2, <3>2, StartsAppend
  <2>5. ResolveIn(m, q) = y
    <3>1. ~StartsWith(q, old)
      BY <1>4, <2>2, StartsAppend
    <3> QED
      BY <1>2, <1>4, <2>3, <3>1
  <2>6. ResolveIn(m, Append(q, k)) = EntryIn(m, y, k)
    <3>1. ResolveIn(m, Append(q, k)) = EntryIn(m, ResolveIn(m, q), k)
      BY <1>4, ResolveSteps, Zenon
    <3> QED
      BY <2>5, <3>1, Zenon
  <2> HIDE DEF x, y
  <2>7. m[x] = <<y, k>>
    BY <1>2, <2>3, <2>4
  <2>8. EntryIn(m, y, k) = x
    BY <2>3, <2>7, EntryIs
  <2> QED
    BY <2>6, <2>8 DEF x
<1> HIDE DEF S
<1>5. path \in S
  BY <1>3, <1>4, PathInduction, Zenon
<1> QED
  BY <1>5 DEF S

\* The new path leads to the directory.
LEMMA MoveLeads ==
  ASSUME NEW l \in [Dirs -> Locations], NEW m, Distinct(m), NEW d, NEW p, NEW n, Moves(l, m, d, p, n),
         NEW old, IsPath(old), ResolveIn(l, old) = d,
         NEW q, IsPath(q), ResolveIn(l, q) = p
  PROVE  ResolveIn(m, Append(q, n)) = d
<1>1. /\ d \in Dirs /\ n \in Names /\ p # Dead /\ m[d] = <<p, n>>
      /\ Root \in AboveIn(l, p) /\ d \notin AboveIn(l, p)
  BY PlacesAssumption DEF Moves, Places
<1>2. ~StartsWith(q, old)
  BY <1>1, PrefixAbove
<1>3. ResolveIn(m, q) = p
  BY <1>1, <1>2, MoveKeeps
<1>4. ResolveIn(m, Append(q, n)) = EntryIn(m, ResolveIn(m, q), n)
  BY <1>1, ResolveSteps, Zenon
<1>5. EntryIn(m, p, n) = d
  BY <1>1, EntryIs
<1> QED
  BY <1>3, <1>4, <1>5, Zenon

\* A path to or through the directory leads where it did, with the new
\* beginning.
LEMMA MoveFollows ==
  ASSUME NEW l \in [Dirs -> Locations], NEW m, Distinct(m), NEW d, NEW p, NEW n, Moves(l, m, d, p, n),
         NEW old, IsPath(old), ResolveIn(l, old) = d,
         NEW new, IsPath(new), ResolveIn(m, new) = d,
         NEW path, IsPath(path), StartsWith(path, old), ResolveIn(l, path) # Dead
  PROVE  ResolveIn(m, Onto(new, old, path)) = ResolveIn(l, path)
<1> DEFINE S == {q \in Seq(Alphabet) :
                   StartsWith(q, old) /\ ResolveIn(l, q) # Dead => ResolveIn(m, Onto(new, old, q)) = ResolveIn(l, q)}
<1>1. \A q : IsPath(q) => q \in Seq(Alphabet)
  BY PathsAreLists
<1>2. d \in Dirs /\ m = [l EXCEPT ![d] = <<p, n>>] /\ Dead \notin Dirs \cup {Root} /\ Root \notin Dirs
  BY PlacesAssumption DEF Moves, Places
<1>3. <<RootName>> \in S
  <2>1. SUFFICES ASSUME StartsWith(<<RootName>>, old) PROVE FALSE
    BY <1>1, RootPath
  <2>2. Len(old) <= 1 /\ SubSeq(<<RootName>>, 1, Len(old)) = old
    BY <2>1, RootPath DEF StartsWith
  <2>3. old = <<RootName>>
    BY <2>2 DEF IsPath
  <2> QED
    BY <1>2, <2>3, ResolveSteps
<1>4. ASSUME NEW q, IsPath(q), q \in S, NEW k \in Names PROVE Append(q, k) \in S
  <2> DEFINE x == ResolveIn(l, Append(q, k))
             y == ResolveIn(l, q)
             o == Onto(new, old, q)
  <2>1. Append(q, k) \in Seq(Alphabet) /\ IsPath(Append(q, k)) /\ Len(Append(q, k)) = Len(q) + 1 /\ Len(q) \in Nat
    BY <1>1, <1>4, PathAppend
  <2>2. SUFFICES ASSUME StartsWith(Append(q, k), old), x # Dead
                 PROVE  ResolveIn(m, Onto(new, old, Append(q, k))) = x
    BY <2>1
  <2>3. CASE Append(q, k) = old
    <3>1. Onto(new, old, old) = new
      BY OntoAppend
    <3> QED
      BY <2>3, <3>1
  <2>4. CASE StartsWith(q, old)
    <3>1. x \in Dirs /\ l[x] = <<y, k>> /\ y \in Dirs \cup {Root}
      BY <1>4, <2>2, EntryAt
    <3>2. x # d
      <4>1. SUFFICES ASSUME x = d PROVE FALSE
        OBVIOUS
      <4>2. Append(q, k) = old
        BY <2>1, <2>2, <4>1, OnePath
      <4>3. Len(old) <= Len(q)
        BY <2>4 DEF StartsWith
      <4> QED
        BY <2>1, <4>2, <4>3
    <3>3. ResolveIn(m, o) = y
      BY <1>2, <1>4, <2>4, <3>1
    <3>4. IsPath(o) /\ Onto(new, old, Append(q, k)) = Append(o, k)
      BY <1>4, <2>4, OntoAppend
    <3> HIDE DEF o
    <3>5. ResolveIn(m, Append(o, k)) = EntryIn(m, ResolveIn(m, o), k)
      BY <3>4, ResolveSteps, Zenon
    <3> HIDE DEF x, y
    <3>6. m[x] = <<y, k>>
      BY <1>2, <3>1, <3>2
    <3>7. EntryIn(m, y, k) = x
      BY <3>1, <3>6, EntryIs
    <3> QED
      BY <3>3, <3>4, <3>5, <3>7 DEF x
  <2> QED
    BY <1>4, <2>2, <2>3, <2>4, StartsAppend
<1> HIDE DEF S
<1>5. path \in S
  BY <1>3, <1>4, PathInduction, Zenon
<1> QED
  BY <1>5 DEF S

\* A path that starts with one that leads nowhere leads nowhere.
LEMMA NowhereOn ==
  ASSUME NEW l \in [Dirs -> Locations], NEW new, IsPath(new), ResolveIn(l, new) = Dead,
         NEW path, IsPath(path), StartsWith(path, new)
  PROVE  ResolveIn(l, path) = Dead
<1> DEFINE S == {q \in Seq(Alphabet) : StartsWith(q, new) => ResolveIn(l, q) = Dead}
<1>1. \A q : IsPath(q) => q \in Seq(Alphabet)
  BY PathsAreLists
<1>2. <<RootName>> \in S
  <2>1. SUFFICES ASSUME StartsWith(<<RootName>>, new) PROVE FALSE
    BY <1>1, RootPath
  <2>2. Len(new) <= 1 /\ SubSeq(<<RootName>>, 1, Len(new)) = new
    BY <2>1, RootPath DEF StartsWith
  <2>3. new = <<RootName>>
    BY <2>2 DEF IsPath
  <2> QED
    BY <2>3, ResolveSteps, PlacesAssumption
<1>3. ASSUME NEW q, IsPath(q), q \in S, NEW k \in Names PROVE Append(q, k) \in S
  <2>1. Append(q, k) \in Seq(Alphabet)
    BY <1>1, <1>3, PathAppend
  <2>2. SUFFICES ASSUME StartsWith(Append(q, k), new), ResolveIn(l, Append(q, k)) # Dead PROVE FALSE
    BY <2>1
  <2>3. CASE Append(q, k) = new
    BY <2>2, <2>3
  <2>4. CASE StartsWith(q, new)
    <3>1. ResolveIn(l, q) \in Dirs \cup {Root}
      BY <1>3, <2>2, EntryAt
    <3>2. ResolveIn(l, q) = Dead
      BY <1>3, <2>4
    <3> QED
      BY <3>1, <3>2, PlacesAssumption DEF Places
  <2> QED
    BY <1>3, <2>2, <2>3, <2>4, StartsAppend
<1> HIDE DEF S
<1>4. path \in S
  BY <1>2, <1>3, PathInduction, Zenon
<1> QED
  BY <1>4 DEF S

(***************************************************************************)
(* What replace_filename makes of the names.                               *)
(***************************************************************************)

\* What is filed under f in r is filed under g[f] in s, and nothing else is.
Renamed(r, s, g) ==
  /\ s.by_wd = r.by_wd
  /\ \A f \in DOMAIN r.by_filename :
       g[f] \in DOMAIN s.by_filename /\ s.by_filename[g[f]] = r.by_filename[f]
  /\ \A h \in DOMAIN s.by_filename : \E f \in DOMAIN r.by_filename : h = g[f]

\* The name a watch gets.
NewName(f, old, new) == IF StartsWith(f, old) THEN Onto(new, old, f) ELSE f

\* The new names are those of no watch.
Renamable(F, old, new) ==
  \A f \in F : StartsWith(f, old) =>
    /\ f # new /\ Onto(new, old, f) \notin F
    /\ \A h \in F : StartsWith(h, old) /\ Onto(new, old, h) = Onto(new, old, f) => h = f

\* A visit renames one watch.
LEMMA VisitRenamed ==
  ASSUME NEW r, Sound(r), NEW s, Sound(s), NEW g, Renamed(r, s, g),
         NEW old, IsPath(old), NEW new, IsPath(new),
         NEW f \in DOMAIN r.by_filename, g[f] = f,
         StartsWith(f, old) => f # new /\ \A h \in DOMAIN r.by_filename : h # f => g[h] # Onto(new, old, f),
         NEW y, y = VisitOf(s, r.by_filename[f], old, new)
  PROVE  Sound(y) /\ Renamed(r, y, [h \in DOMAIN r.by_filename |-> IF h = f THEN NewName(f, old, new) ELSE g[h]])
<1> DEFINE F == DOMAIN r.by_filename
           id == r.by_filename[f]
           to == Onto(new, old, f)
           gg == [h \in F |-> IF h = f THEN NewName(f, old, new) ELSE g[h]]
<1>1. f \in DOMAIN s.by_filename /\ s.by_filename[f] = id
  BY DEF Renamed
<1>2. id \in DOMAIN s.watches /\ s.watches[id].filename = f /\ IsPath(f)
  BY <1>1 DEF Sound
<1>3. CASE ~StartsWith(f, old)
  <2>1. y = s
    BY <1>2, <1>3 DEF VisitOf
  <2>2. \A h \in F : gg[h] = g[h]
    BY <1>3 DEF NewName
  <2> HIDE DEF gg
  <2>3. Renamed(r, y, gg)
    BY <2>1, <2>2 DEF Renamed
  <2> QED
    BY <2>1, <2>3 DEF gg
<1>4. CASE StartsWith(f, old)
  <2>1. y = RenameWatch(s, id, to)
    BY <1>2, <1>4 DEF VisitOf, Onto
  <2>2. IsPath(to)
    BY <1>2, <1>4, OntoAppend
  <2>3. gg[f] = to /\ \A h \in F : h # f => gg[h] = g[h]
    BY <1>4 DEF NewName
  <2> HIDE DEF id, to, gg
  <2>4. Sound(y)
    BY <1>2, <2>1, <2>2, RenameSound
  <2> DEFINE rest == Drop(s.by_filename, f)
  <2>5. DOMAIN rest = DOMAIN s.by_filename \ {f} /\ \A h \in DOMAIN rest : rest[h] = s.by_filename[h]
    BY DEF Drop
  <2>6. y.by_wd = s.by_wd /\ y.by_filename = PutIfVacant(rest, to, id)
    BY <1>1, <1>2, <2>1 DEF RenameWatch
  <2> HIDE DEF rest
  <2>7. \A h \in F : h # f => g[h] \in DOMAIN rest /\ g[h] # to
    <3> SUFFICES ASSUME NEW h \in F, h # f PROVE g[h] \in DOMAIN rest /\ g[h] # to
      OBVIOUS
    <3>1. g[h] \in DOMAIN s.by_filename /\ s.by_filename[g[h]] = r.by_filename[h]
      BY DEF Renamed
    <3>2. r.by_filename[h] # id
      <4>1. r.watches[r.by_filename[h]].filename = h /\ r.watches[r.by_filename[f]].filename = f
        BY DEF Sound
      <4> QED
        BY <4>1 DEF id
    <3>3. g[h] # f
      BY <1>1, <3>1, <3>2
    <3> QED
      BY <1>4, <2>5, <3>1, <3>3 DEF to
  <2>8. to \notin DOMAIN rest
    BY <2>5, <2>7 DEF Renamed
  <2>9. /\ DOMAIN y.by_filename = DOMAIN rest \cup {to} /\ y.by_filename[to] = id
        /\ \A h \in DOMAIN rest : y.by_filename[h] = s.by_filename[h]
    BY <2>5, <2>6, <2>8 DEF PutIfVacant, Put
  <2>10. \A h \in F : gg[h] \in DOMAIN y.by_filename /\ y.by_filename[gg[h]] = r.by_filename[h]
    <3> SUFFICES ASSUME NEW h \in F PROVE gg[h] \in DOMAIN y.by_filename /\ y.by_filename[gg[h]] = r.by_filename[h]
      OBVIOUS
    <3>1. CASE h = f
      BY <2>3, <2>9, <3>1 DEF id
    <3>2. CASE h # f
      BY <2>3, <2>7, <2>9, <3>2 DEF Renamed
    <3> QED
      BY <3>1, <3>2
  <2>11. ASSUME NEW x \in DOMAIN y.by_filename PROVE \E h \in F : x = gg[h]
    <3>1. CASE x = to
      BY <2>3, <3>1
    <3>2. CASE x # to
      <4>1. x \in DOMAIN s.by_filename /\ x # f
        BY <2>5, <2>9, <3>2
      <4>2. PICK h \in F : x = g[h]
        BY <4>1 DEF Renamed
      <4> QED
        BY <2>3, <4>1, <4>2
    <3> QED
      BY <3>1, <3>2
  <2>12. Renamed(r, y, gg)
    BY <2>6, <2>10, <2>11 DEF Renamed
  <2> QED
    BY <2>4, <2>12 DEF gg
<1> QED
  BY <1>3, <1>4

\* replace_filename gives every watch its new name, and renames each once.
LEMMA ReplacedNames ==
  ASSUME Sound(reg), NEW old, IsPath(old), NEW new, IsPath(new),
         Renamable(DOMAIN reg.by_filename, old, new), NEW x \in Replaced(old, new)
  PROVE  /\ Sound(x)
         /\ Renamed(reg, x, [f \in DOMAIN reg.by_filename |-> NewName(f, old, new)])
<1> DEFINE F == DOMAIN reg.by_filename
           c == Cardinality(F)
<1>1. new # << >>
  BY DEF IsPath
<1>2. PICK after, list : Replacing(after, list, old, new)
  BY <1>1, ReplacingExists
<1>3. c \in Nat
  BY FS_CardinalityType DEF Sound
<1>4. /\ list \in [1..c -> F] /\ after[0] = {reg} /\ x \in after[c]
      /\ \A i, j \in 1..c : list[i] = list[j] => i = j
      /\ \A f \in F : \E i \in 1..c : list[i] = f
      /\ \A k \in 1..c : after[k] = Visited(after[k - 1], list[k], old, new)
  BY <1>2 DEF Replacing
<1> HIDE DEF c
<1> DEFINE Done(k, f) == \E i \in 1..k : list[i] = f
           G(k) == [f \in F |-> IF Done(k, f) THEN NewName(f, old, new) ELSE f]
           Fine(k, r) == Sound(r) /\ Renamed(reg, r, G(k))
           T == {k \in Nat : k <= c => \A r \in after[k] : Fine(k, r)}
<1>5. 0 \in T
  <2>1. \A f \in F : G(0)[f] = f
    OBVIOUS
  <2> HIDE DEF G
  <2>2. Renamed(reg, reg, G(0))
    BY <2>1 DEF Renamed
  <2> QED
    BY <1>4, <2>2
<1>6. ASSUME NEW k \in Nat, k \in T PROVE k + 1 \in T
  <2> SUFFICES ASSUME k + 1 <= c, NEW y \in after[k + 1] PROVE Fine(k + 1, y)
    OBVIOUS
  <2>1. k + 1 \in 1..c /\ (k + 1) - 1 = k /\ k <= c /\ \A i \in 1..k : i \in 1..c /\ i # k + 1
    BY <1>3
  <2> DEFINE f == list[k + 1]
  <2>2. f \in F
    BY <1>4, <2>1
  <2>3. PICK s \in after[k] : y = VisitOf(s, reg.by_filename[f], old, new)
    <3>1. y \in Visited(after[k], f, old, new)
      BY <1>4, <2>1
    <3> QED
      BY <3>1 DEF Visited
  <2>4. Sound(s) /\ Renamed(reg, s, G(k))
    BY <1>6, <2>1
  <2>5. ~Done(k, f)
    BY <1>4, <2>1
  <2>6. \A h \in F : Done(k + 1, h) <=> Done(k, h) \/ h = f
    <3>1. \A i \in 1..(k + 1) : i \in 1..k \/ i = k + 1
      OBVIOUS
    <3>2. k + 1 \in 1..(k + 1) /\ \A i \in 1..k : i \in 1..(k + 1)
      OBVIOUS
    <3> QED
      BY <3>1, <3>2
  <2> HIDE DEF Done, f
  <2>7. G(k)[f] = f
    BY <2>2, <2>5
  <2>8. ASSUME StartsWith(f, old) PROVE f # new /\ \A h \in F : h # f => G(k)[h] # Onto(new, old, f)
    <3> SUFFICES ASSUME NEW h \in F, h # f PROVE G(k)[h] # Onto(new, old, f)
      BY <2>2, <2>8 DEF Renamable
    <3>1. G(k)[h] = IF Done(k, h) THEN NewName(h, old, new) ELSE h
      OBVIOUS
    <3>2. CASE StartsWith(h, old)
      <4>1. G(k)[h] \in {Onto(new, old, h), h}
        BY <3>1, <3>2 DEF NewName
      <4> QED
        BY <2>2, <2>8, <3>2, <4>1 DEF Renamable
    <3>3. CASE ~StartsWith(h, old)
      <4>1. G(k)[h] = h
        BY <3>1, <3>3 DEF NewName
      <4> QED
        BY <2>2, <2>8, <4>1 DEF Renamable
    <3> QED
      BY <3>2, <3>3
  <2> DEFINE g == G(k)
  <2>9. Sound(y) /\ Renamed(reg, y, [h \in F |-> IF h = f THEN NewName(f, old, new) ELSE g[h]])
    <3>1. Renamed(reg, s, g) /\ g[f] = f
      BY <2>4, <2>7
    <3>2. StartsWith(f, old) => f # new /\ \A h \in F : h # f => g[h] # Onto(new, old, f)
      BY <2>8
    <3> HIDE DEF G, g
    <3> QED
      BY <2>2, <2>3, <2>4, <3>1, <3>2, VisitRenamed
  <2>10. [h \in F |-> IF h = f THEN NewName(f, old, new) ELSE g[h]] = G(k + 1)
    <3>1. \A h \in F : (IF h = f THEN NewName(f, old, new) ELSE g[h])
                         = IF Done(k + 1, h) THEN NewName(h, old, new) ELSE h
      BY <2>6
    <3> QED
      BY <3>1, Zenon
  <2> QED
    BY <2>9, <2>10
<1>7. c \in T
  <2> HIDE DEF T
  <2>1. Nat \subseteq T
    BY <1>5, <1>6, NatSetInduction
  <2> QED
    BY <1>3, <2>1
<1>8. Sound(x) /\ Renamed(reg, x, G(c))
  <2> HIDE DEF G
  <2>1. c <= c => \A r \in after[c] : Fine(c, r)
    BY <1>7
  <2> QED
    BY <1>3, <1>4, <2>1
<1>9. G(c) = [f \in F |-> NewName(f, old, new)]
  BY <1>4
<1> QED
  BY <1>8, <1>9

\* Every watch in the index by name is that of a kernel watch, and every
\* kernel watch is in it.
Filed(km, r) ==
  /\ \A d \in DOMAIN km :
       /\ NameOf(r, km[d]) \in DOMAIN r.by_filename
       /\ r.by_filename[NameOf(r, km[d])] = r.by_wd[km[d]]
  /\ \A f \in DOMAIN r.by_filename : \E d \in DOMAIN km : r.by_filename[f] = r.by_wd[km[d]]

\* What is filed are the paths of the directories watched.
LEMMA FiledLeads ==
  ASSUME NEW l, NEW km, NEW r, Sound(r), Named(l, km, r), Filed(km, r)
  PROVE  /\ \A d \in DOMAIN km : IsPath(NameOf(r, km[d])) /\ ResolveIn(l, NameOf(r, km[d])) = d
         /\ \A f \in DOMAIN r.by_filename : \E d \in DOMAIN km : f = NameOf(r, km[d])
<1>1. ASSUME NEW d \in DOMAIN km
      PROVE  IsPath(NameOf(r, km[d])) /\ ResolveIn(l, NameOf(r, km[d])) = d
  BY DEF Named, Sound, NameOf
<1>2. ASSUME NEW f \in DOMAIN r.by_filename PROVE \E d \in DOMAIN km : f = NameOf(r, km[d])
  <2>1. PICK d \in DOMAIN km : r.by_filename[f] = r.by_wd[km[d]]
    BY DEF Filed
  <2>2. r.watches[r.by_filename[f]].filename = f
    BY DEF Sound
  <2> QED
    BY <2>1, <2>2 DEF NameOf
<1> QED
  BY <1>1, <1>2

\* The new path starts with what replaces the old beginning.
LEMMA OntoStarts ==
  ASSUME NEW old, IsPath(old), NEW new, IsPath(new), NEW f, IsPath(f), StartsWith(f, old)
  PROVE  StartsWith(Onto(new, old, f), new)
<1> DEFINE to == Onto(new, old, f)
           rest == SubSeq(f, Len(old) + 1, Len(f))
           m == Len(old)
           l == Len(f)
<1>1. IsPath(to)
  BY OntoAppend
<1>2. new \in Seq(Nat) /\ to \in Seq(Nat) /\ f \in Seq(Nat) /\ m \in Nat /\ l \in Nat
  BY <1>1, PathsAreLists
<1>3. rest \in Seq(Nat)
  <2>1. \A i \in 1..l : f[i] \in Nat
    BY <1>2, ElementOfSeq
  <2> HIDE DEF l, m
  <2>2. m + 1 \in Int /\ l \in Int /\ \A i \in (m + 1)..l : f[i] \in Nat
    BY <1>2, <2>1
  <2>3. SubSeq(f, m + 1, l) \in Seq(Nat)
    BY <2>2, SubSeqProperties
  <2> QED
    BY <2>3 DEF l, m
<1>4. to = new \o rest
  BY DEF Onto
<1> HIDE DEF to, rest, m, l
<1>5. Len(to) = Len(new) + Len(rest) /\ \A i \in 1..Len(to) : to[i] = IF i <= Len(new) THEN new[i] ELSE rest[i - Len(new)]
  BY <1>2, <1>3, <1>4, ConcatProperties
<1>6. Len(new) \in Nat /\ Len(rest) \in Nat
  BY <1>2, <1>3, LenProperties
<1> DEFINE n == Len(new)
           k == Len(rest)
<1>7. n <= Len(to) /\ \A i \in 1..n : to[i] = new[i]
  <2> HIDE DEF n, k
  <2>1. n \in Nat /\ k \in Nat /\ Len(to) = n + k /\ \A i \in 1..Len(to) : i <= n => to[i] = new[i]
    BY <1>5, <1>6 DEF n, k
  <2> QED
    BY <2>1
<1>8. StartsWith(to, new)
  BY <1>2, <1>7, StartsIs
<1> QED
  BY <1>8 DEF to

\* The names that change are free.
LEMMA MoveRenamable ==
  ASSUME NEW l \in [Dirs -> Locations], NEW m, Distinct(m), NEW d, NEW p, NEW n, Moves(l, m, d, p, n),
         NEW km, DOMAIN km \subseteq Dirs \cup {Root}, d \in DOMAIN km,
         NEW r, Sound(r), Named(l, km, r), Filed(km, r),
         NEW q, IsPath(q), ResolveIn(l, q) = p
  PROVE  Renamable(DOMAIN r.by_filename, NameOf(r, km[d]), Append(q, n))
<1> DEFINE F == DOMAIN r.by_filename
           old == NameOf(r, km[d])
           new == Append(q, n)
<1>1. n \in Names /\ Dead \notin Dirs \cup {Root}
  BY PlacesAssumption DEF Moves, Places
<1>2. \A f \in F : IsPath(f) /\ ResolveIn(l, f) # Dead
  BY <1>1, FiledLeads, FiledByPaths
<1>3. IsPath(old) /\ ResolveIn(l, old) = d
  BY FiledLeads
<1>4. IsPath(new)
  BY <1>1, PathAppend
<1>5. ResolveIn(l, new) = Dead
  <2>1. ResolveIn(l, Append(q, n)) = EntryIn(l, ResolveIn(l, q), n)
    <3> HIDE DEF F, old, new
    <3>1. n \in Names
      BY <1>1
    <3> QED
      BY <3>1, ResolveSteps
  <2>2. EntryIn(l, p, n) = Dead
    BY DEF EntryIn, NoDir, Moves
  <2> QED
    BY <2>1, <2>2
<1>6. ResolveIn(m, new) = d
  <2> HIDE DEF old
  <2> QED
    BY <1>3, MoveLeads
<1> HIDE DEF old, new
<1>7. \A f \in F : f # new
  BY <1>2, <1>5
<1>8. ASSUME NEW f \in F, StartsWith(f, old) PROVE ResolveIn(m, Onto(new, old, f)) = ResolveIn(l, f)
  BY <1>2, <1>3, <1>4, <1>6, <1>8, MoveFollows
<1>9. ASSUME NEW f \in F, StartsWith(f, old) PROVE Onto(new, old, f) \notin F
  <2>1. IsPath(Onto(new, old, f)) /\ StartsWith(Onto(new, old, f), new)
    BY <1>2, <1>3, <1>4, <1>9, OntoStarts, OntoAppend
  <2>2. ResolveIn(l, Onto(new, old, f)) = Dead
    BY <1>4, <1>5, <2>1, NowhereOn
  <2> QED
    BY <1>2, <2>2
<1>10. ASSUME NEW f \in F, StartsWith(f, old), NEW h \in F, StartsWith(h, old),
              Onto(new, old, h) = Onto(new, old, f)
       PROVE  h = f
  <2>1. ResolveIn(l, h) = ResolveIn(l, f)
    BY <1>8, <1>10
  <2> QED
    BY <1>2, <2>1, OnePath
<1>11. Renamable(F, old, new)
  BY <1>7, <1>9, <1>10 DEF Renamable
<1> QED
  BY <1>11 DEF old, new

\* After IN_MOVED_TO the names are those of the directories where they are
\* now.
LEMMA MoveRenames ==
  ASSUME NEW l \in [Dirs -> Locations], NEW m, Distinct(m), NEW d, NEW p, NEW n, Moves(l, m, d, p, n),
         NEW km, DOMAIN km \subseteq Dirs \cup {Root}, d \in DOMAIN km,
         Sound(reg), Named(l, km, reg), Filed(km, reg),
         NEW q, IsPath(q), ResolveIn(l, q) = p,
         NEW x \in Replaced(NameOf(reg, km[d]), Append(q, n))
  PROVE  x.by_wd = reg.by_wd /\ Named(m, km, x) /\ Filed(km, x)
<1> DEFINE F == DOMAIN reg.by_filename
           old == NameOf(reg, km[d])
           new == Append(q, n)
           g == [f \in F |-> NewName(f, old, new)]
<1>1. n \in Names /\ Dead \notin Dirs \cup {Root}
  BY PlacesAssumption DEF Moves, Places
<1>2. IsPath(old) /\ ResolveIn(l, old) = d
  BY FiledLeads
<1>3. IsPath(new)
  BY <1>1, PathAppend
<1>4. ResolveIn(m, new) = d
  <2> HIDE DEF old
  <2> QED
    BY <1>2, MoveLeads
<1>5. Renamable(F, old, new)
  BY MoveRenamable
<1> HIDE DEF old, new
<1>6. Sound(x) /\ Renamed(reg, x, g)
  BY <1>2, <1>3, <1>5, ReplacedNames DEF old, new
<1>7. ASSUME NEW e \in DOMAIN km
      PROVE  /\ NameOf(x, km[e]) = NewName(NameOf(reg, km[e]), old, new)
             /\ NameOf(x, km[e]) \in DOMAIN x.by_filename /\ x.by_filename[NameOf(x, km[e])] = x.by_wd[km[e]]
  <2> DEFINE f == NameOf(reg, km[e])
  <2>1. f \in F /\ reg.by_filename[f] = reg.by_wd[km[e]]
    BY DEF Filed
  <2> HIDE DEF f, g
  <2>2. g[f] \in DOMAIN x.by_filename /\ x.by_filename[g[f]] = reg.by_wd[km[e]]
    BY <1>6, <2>1 DEF Renamed
  <2>3. x.watches[reg.by_wd[km[e]]].filename = g[f]
    BY <1>6, <2>2 DEF Sound
  <2>4. x.by_wd = reg.by_wd
    BY <1>6 DEF Renamed
  <2>5. NameOf(x, km[e]) = g[f]
    BY <2>3, <2>4 DEF NameOf
  <2>6. g[f] = NewName(f, old, new)
    BY <2>1 DEF g
  <2> QED
    BY <2>2, <2>4, <2>5, <2>6 DEF f
<1>8. ASSUME NEW e \in DOMAIN km PROVE ResolveIn(m, NameOf(x, km[e])) = e
  <2> DEFINE f == NameOf(reg, km[e])
  <2>1. IsPath(f) /\ ResolveIn(l, f) = e /\ e # Dead
    BY <1>1, FiledLeads
  <2> HIDE DEF f
  <2>2. CASE StartsWith(f, old)
    <3>1. ResolveIn(m, Onto(new, old, f)) = ResolveIn(l, f)
      BY <1>2, <1>3, <1>4, <2>1, <2>2, MoveFollows
    <3> QED
      BY <1>7, <2>1, <2>2, <3>1 DEF NewName, f
  <2>3. CASE ~StartsWith(f, old)
    <3>1. ResolveIn(m, f) = ResolveIn(l, f)
      BY <1>2, <2>1, <2>3, MoveKeeps
    <3> QED
      BY <1>7, <2>1, <2>3, <3>1 DEF NewName, f
  <2> QED
    BY <2>2, <2>3
<1>9. x.by_wd = reg.by_wd
  BY <1>6 DEF Renamed
<1>10. Named(m, km, x)
  BY <1>8, <1>9 DEF Named, NameOf
<1>11. ASSUME NEW h \in DOMAIN x.by_filename PROVE \E e \in DOMAIN km : x.by_filename[h] = x.by_wd[km[e]]
  <2>1. PICK f \in F : h = g[f] /\ x.by_filename[h] = reg.by_filename[f]
    <3> HIDE DEF g
    <3> QED
      BY <1>6 DEF Renamed
  <2> QED
    BY <1>9, <2>1 DEF Filed
<1> QED
  BY <1>7, <1>9, <1>10, <1>11 DEF Filed

(***************************************************************************)
(* The tree and what is watched of it.                                     *)
(***************************************************************************)

\* What is in a watched directory is watched.
Closed(l, km) == \A d \in Dirs : l[d][1] \in DOMAIN km => d \in DOMAIN km

\* Then the whole tree is watched.
LEMMA TreeWatched ==
  ASSUME NEW l \in [Dirs -> Locations], NEW km, Root \in DOMAIN km, Closed(l, km),
         NEW d \in Nodes, Root \in AboveIn(l, d)
  PROVE  d \in DOMAIN km
<1> DEFINE c == Cardinality(Dirs)
<1>1. c \in Nat
  BY PlacesAssumption, FS_CardinalityType
<1>2. PICK up : IsClimb(up, l, d)
  BY Climb
<1>3. /\ up[0] = d /\ AboveIn(l, d) = {up[k] : k \in 0..c}
      /\ \A k \in 1..c : up[k] = ParentIn(l, up[k - 1])
  BY <1>2 DEF IsClimb
<1> HIDE DEF c
<1>4. PICK m \in 0..c : up[m] = Root
  BY <1>3
<1> DEFINE T == {j \in Nat : j <= m => up[m - j] \in DOMAIN km}
<1>5. 0 \in T
  BY <1>1, <1>4
<1>6. ASSUME NEW j \in Nat, j \in T PROVE j + 1 \in T
  <2> DEFINE x == up[m - j]
             y == up[m - (j + 1)]
  <2> SUFFICES ASSUME j + 1 <= m PROVE y \in DOMAIN km
    OBVIOUS
  <2>1. m - j \in 1..c /\ (m - j) - 1 = m - (j + 1) /\ j <= m
    BY <1>1, <1>4
  <2>2. x \in DOMAIN km /\ x = ParentIn(l, y)
    BY <1>3, <1>6, <2>1
  <2> HIDE DEF x, y
  <2> QED
    BY <2>2 DEF ParentIn, Closed
<1> HIDE DEF T
<1>7. Nat \subseteq T
  BY <1>5, <1>6, NatSetInduction
<1>8. m \in T /\ m \in Nat
  BY <1>1, <1>4, <1>7
<1>9. up[m - m] \in DOMAIN km /\ m - m = 0
  BY <1>8 DEF T
<1> QED
  BY <1>3, <1>9

\* A directory of the tree is in one of the tree, under a name.
LEMMA TreeParent ==
  ASSUME NEW l \in [Dirs -> Locations], NEW d \in Dirs, Root \in AboveIn(l, d)
  PROVE  /\ l[d][1] \in Dirs \cup {Root} /\ l[d] = <<l[d][1], l[d][2]>> /\ l[d][2] \in Names
         /\ Root \in AboveIn(l, l[d][1])
<1>1. Root \in AboveIn(l, l[d][1])
  BY ParentAbove
<1>2. l[d][1] \in Dirs \cup {Root}
  BY AboveInTree
<1>3. l[d] \in Locations
  OBVIOUS
<1> QED
  BY <1>1, <1>2, <1>3, PlacesAssumption DEF Locations, Places

(***************************************************************************)
(* The trees that the events in the queue have passed: v[k] is what the    *)
(* tool knows when k - 1 of them are handled, the last is the tree now.    *)
(***************************************************************************)

\* The event tells that directory d of the tree l leaves its place.
TellsFrom(km, e, l, d) == l[d][1] \in DOMAIN km /\ e = Event(km[l[d][1]], "moved_from", l[d][2])

\* Event k of q tells where the directory goes; where it was, the event
\* before it tells, or what the tool keeps of the one handled last.
TellsTo(v, km, q, r, kept, k, d, p, n) ==
  /\ {d, p} \subseteq DOMAIN km
  /\ Moves(v[k], v[k + 1], d, p, n) /\ q[k] = Event(km[p], "moved_to", n)
  /\ IF k = 1 THEN kept = NameOf(r, km[d]) ELSE TellsFrom(km, q[k - 1], v[k], d)

Follows(v, km, q, r, kept, k) ==
  \/ q[k].kind = "other" /\ v[k + 1] = v[k]
  \/ q[k].kind = "moved_from" /\ v[k + 1] = v[k] /\ k < Len(q) /\ q[k + 1].kind = "moved_to"
  \/ \E d \in Dirs, p \in Dirs \cup {Root}, n \in Names : TellsTo(v, km, q, r, kept, k, d, p, n)

Mirror(v, km, q, r, kept) ==
  /\ v \in [1..(Len(q) + 1) -> [Dirs -> Locations]]
  /\ \A k \in 1..(Len(q) + 1) : Distinct(v[k])
  /\ \A k \in 1..Len(q) : Follows(v, km, q, r, kept, k)
  /\ Named(v[1], km, r) /\ Filed(km, r)
  /\ kept # << >> => q # << >> /\ q[1].kind = "moved_to"

\* The registry lags behind the tree l by the events of q.
Lags(l, km, q, r, kept) == \E v : Mirror(v, km, q, r, kept) /\ v[Len(q) + 1] = l

\* An event is handled.
LEMMA MirrorPop ==
  ASSUME NEW q \in Seq(KernelEvents), q # << >>, NEW v, NEW km, NEW r, NEW kept, Mirror(v, km, q, r, kept),
         NEW r2, NEW kept2, Named(v[2], km, r2), Filed(km, r2),
         \A d, p, n : 2 <= Len(q) /\ TellsTo(v, km, q, r, kept, 2, d, p, n) => kept2 = NameOf(r2, km[d]),
         kept2 # << >> => 2 <= Len(q) /\ q[2].kind = "moved_to"
  PROVE  Lags(v[Len(q) + 1], km, Tail(q), r2, kept2)
<1> DEFINE m == Len(q)
           t == Tail(q)
           w == [k \in 1..m |-> v[k + 1]]
<1>1. /\ t \in Seq(KernelEvents) /\ Len(t) = m - 1 /\ \A i \in 1..(m - 1) : t[i] = q[i + 1]
      /\ m \in Nat \ {0}
  BY HeadTailProperties, EmptySeq, LenProperties
<1>2. /\ v \in [1..(m + 1) -> [Dirs -> Locations]]
      /\ \A k \in 1..(m + 1) : Distinct(v[k])
      /\ \A k \in 1..m : Follows(v, km, q, r, kept, k)
  BY DEF Mirror
<1>3. \A k \in 1..m : Follows(v, km, q, r, kept, k)
                   => \/ q[k].kind = "other" /\ v[k + 1] = v[k]
                      \/ q[k].kind = "moved_from" /\ v[k + 1] = v[k] /\ k < m /\ q[k + 1].kind = "moved_to"
                      \/ \E d \in Dirs, p \in Dirs \cup {Root}, n \in Names : TellsTo(v, km, q, r, kept, k, d, p, n)
  BY DEF Follows
<1>4. kept2 # << >> => 2 <= m /\ q[2].kind = "moved_to"
  OBVIOUS
<1>5. \A d, p, n : 2 <= m /\ TellsTo(v, km, q, r, kept, 2, d, p, n) => kept2 = NameOf(r2, km[d])
  OBVIOUS
<1> HIDE DEF m, t
<1>6. w \in [1..m -> [Dirs -> Locations]] /\ \A k \in 1..m : w[k] = v[k + 1] /\ Distinct(w[k])
  <2>1. \A k \in 1..m : k + 1 \in 1..(m + 1)
    BY <1>1
  <2> QED
    BY <1>2, <2>1
<1> HIDE DEF w
<1>7. (m - 1) + 1 = m /\ 1 \in 1..m /\ m \in 1..m
  BY <1>1
<1>8. \A k \in 1..(m - 1) : /\ k + 1 \in 1..m /\ k \in 1..m /\ (k + 1) - 1 = k /\ k + 1 # 1
                            /\ (k + 1 < m => k < m - 1 /\ k + 1 \in 1..(m - 1))
                            /\ (k # 1 => k - 1 \in 1..(m - 1) /\ (k - 1) + 1 = k)
                            /\ (k = 1 => 2 <= m /\ k + 1 = 2)
  BY <1>1
<1>9. ASSUME NEW k \in 1..(m - 1), NEW d, NEW p, NEW n, TellsTo(v, km, q, r, kept, k + 1, d, p, n)
      PROVE  TellsTo(w, km, t, r2, kept2, k, d, p, n)
  <2>1. /\ {d, p} \subseteq DOMAIN km
        /\ Moves(v[k + 1], v[(k + 1) + 1], d, p, n) /\ q[k + 1] = Event(km[p], "moved_to", n)
        /\ TellsFrom(km, q[k], v[k + 1], d)
    <3>1. k + 1 # 1 /\ (k + 1) - 1 = k
      BY <1>8
    <3> QED
      BY <1>9, <3>1 DEF TellsTo
  <2>2. w[k] = v[k + 1] /\ w[k + 1] = v[(k + 1) + 1] /\ t[k] = q[k + 1]
    BY <1>1, <1>6, <1>8
  <2>3. CASE k = 1
    <3>1. kept2 = NameOf(r2, km[d])
      <4>1. 2 <= m /\ k + 1 = 2
        BY <1>8, <2>3
      <4>2. TellsTo(v, km, q, r, kept, 2, d, p, n)
        BY <1>9, <4>1, Zenon
      <4> QED
        BY <1>5, <4>1, <4>2, Zenon
    <3> QED
      BY <2>1, <2>2, <2>3, <3>1 DEF TellsTo
  <2>4. CASE k # 1
    <3>1. t[k - 1] = q[k]
      BY <1>1, <1>8, <2>4
    <3> QED
      BY <2>1, <2>2, <2>4, <3>1 DEF TellsTo
  <2> QED
    BY <2>3, <2>4
<1>10. ASSUME NEW k \in 1..(m - 1) PROVE Follows(w, km, t, r2, kept2, k)
  <2>1. w[k] = v[k + 1] /\ w[k + 1] = v[(k + 1) + 1] /\ t[k] = q[k + 1] /\ k + 1 \in 1..m
    BY <1>1, <1>6, <1>8
  <2>2. k + 1 < m => k < Len(t) /\ t[k + 1] = q[(k + 1) + 1]
    BY <1>1, <1>8
  <2>3. \/ q[k + 1].kind = "other" /\ v[(k + 1) + 1] = v[k + 1]
        \/ q[k + 1].kind = "moved_from" /\ v[(k + 1) + 1] = v[k + 1] /\ k + 1 < m /\ q[(k + 1) + 1].kind = "moved_to"
        \/ \E d \in Dirs, p \in Dirs \cup {Root}, n \in Names : TellsTo(v, km, q, r, kept, k + 1, d, p, n)
    BY <1>2, <1>3, <2>1
  <2> QED
    BY <1>9, <2>1, <2>2, <2>3 DEF Follows
<1>11. kept2 # << >> => t # << >> /\ t[1].kind = "moved_to"
  <2> SUFFICES ASSUME kept2 # << >> PROVE t # << >> /\ t[1].kind = "moved_to"
    OBVIOUS
  <2>1. 1 \in 1..(m - 1) /\ m - 1 # 0
    BY <1>1, <1>4
  <2>2. t[1] = q[2]
    BY <1>1, <2>1
  <2>3. t # << >>
    BY <1>1, <2>1
  <2> QED
    BY <1>4, <2>2, <2>3
<1>12. Named(w[1], km, r2)
  <2>1. w[1] = v[2]
    BY <1>6, <1>7
  <2> QED
    BY <2>1
<1>13. Mirror(w, km, t, r2, kept2)
  <2>1. Len(t) + 1 = m /\ Len(t) = m - 1
    BY <1>1
  <2> QED
    BY <1>6, <1>10, <1>11, <1>12, <2>1 DEF Mirror
<1>14. w[Len(t) + 1] = v[m + 1]
  BY <1>1, <1>6, <1>7
<1> QED
  BY <1>13, <1>14 DEF Lags, t, m

\* Events that follow change nothing for those before them.
LEMMA FollowsMore ==
  ASSUME NEW q, Len(q) \in Nat, NEW v, NEW km, NEW r, NEW kept, NEW k \in 1..Len(q), Follows(v, km, q, r, kept, k),
         NEW t, Len(t) \in Nat, Len(q) <= Len(t), \A i \in 1..Len(q) : t[i] = q[i],
         NEW w, \A i \in 1..(Len(q) + 1) : w[i] = v[i]
  PROVE  Follows(w, km, t, r, kept, k)
<1> DEFINE m == Len(q)
<1>1. /\ k \in 1..m /\ m \in Nat /\ m <= Len(t) /\ (k < m => k < Len(t))
      /\ w[k] = v[k] /\ w[k + 1] = v[k + 1] /\ t[k] = q[k]
      /\ (k < m => t[k + 1] = q[k + 1]) /\ (k # 1 => t[k - 1] = q[k - 1])
  <2> HIDE DEF m
  <2>1. m \in Nat /\ k \in 1..m /\ m <= Len(t) /\ \A i \in 1..m : t[i] = q[i]
    BY DEF m
  <2>2. \A i \in 1..(m + 1) : w[i] = v[i]
    BY DEF m
  <2>3. k \in 1..(m + 1) /\ k + 1 \in 1..(m + 1) /\ (k < m => k + 1 \in 1..m) /\ (k # 1 => k - 1 \in 1..m)
    BY <2>1
  <2> QED
    BY <2>1, <2>2, <2>3
<1>2. \A d, p, n : TellsTo(v, km, q, r, kept, k, d, p, n) => TellsTo(w, km, t, r, kept, k, d, p, n)
  BY <1>1 DEF TellsTo
<1> QED
  BY <1>1, <1>2 DEF Follows

\* An event that tells of no move is queued.
LEMMA MirrorOther ==
  ASSUME NEW q \in Seq(KernelEvents), NEW l, NEW km, NEW r, NEW kept, Lags(l, km, q, r, kept),
         NEW e \in KernelEvents, e.kind = "other"
  PROVE  Lags(l, km, Append(q, e), r, kept)
<1> DEFINE m == Len(q)
           t == Append(q, e)
<1>1. PICK v : Mirror(v, km, q, r, kept) /\ v[m + 1] = l
  BY DEF Lags
<1> DEFINE w == [k \in 1..(m + 2) |-> IF k = m + 2 THEN l ELSE v[k]]
<1>2. /\ m \in Nat /\ Len(t) = m + 1 /\ t # << >> /\ t[m + 1] = e /\ \A i \in 1..m : t[i] = q[i]
  BY LenProperties, AppendProperties
<1>3. /\ v \in [1..(m + 1) -> [Dirs -> Locations]]
      /\ \A k \in 1..(m + 1) : Distinct(v[k])
      /\ \A k \in 1..m : Follows(v, km, q, r, kept, k)
      /\ Named(v[1], km, r) /\ Filed(km, r)
      /\ kept # << >> => m # 0 /\ q[1].kind = "moved_to"
  BY <1>1, EmptySeq DEF Mirror
<1>4. Len(q) = m
  OBVIOUS
<1> HIDE DEF m, t
<1>5. \A i \in 1..(m + 1) : w[i] = v[i] /\ i \in 1..(m + 2)
  BY <1>2
<1>6. w[m + 2] = l /\ w[m + 1] = l
  BY <1>1, <1>2
<1>7. w \in [1..(m + 2) -> [Dirs -> Locations]] /\ \A k \in 1..(m + 2) : Distinct(w[k])
  <2>1. \A k \in 1..(m + 2) : w[k] = v[m + 1] \/ (k \in 1..(m + 1) /\ w[k] = v[k])
    BY <1>1, <1>2
  <2>2. m + 1 \in 1..(m + 1) /\ w = [k \in 1..(m + 2) |-> w[k]]
    BY <1>2
  <2> HIDE DEF w
  <2> QED
    BY <1>3, <2>1, <2>2
<1> HIDE DEF w
<1>8. ASSUME NEW k \in 1..(m + 1) PROVE Follows(w, km, t, r, kept, k)
  <2>1. CASE k = m + 1
    <3>1. t[k].kind = "other" /\ k + 1 = m + 2
      BY <1>2, <2>1
    <3> QED
      BY <1>6, <2>1, <3>1 DEF Follows
  <2>2. CASE k # m + 1
    <3>1. k \in 1..m /\ m <= m + 1
      BY <1>2, <2>2
    <3>2. Follows(v, km, q, r, kept, k)
      BY <1>3, <3>1
    <3> QED
      BY <1>2, <1>4, <1>5, <3>1, <3>2, FollowsMore
  <2> QED
    BY <2>1, <2>2
<1>9. Named(w[1], km, r) /\ (kept # << >> => t[1].kind = "moved_to")
  <2>1. w[1] = v[1] /\ (m # 0 => t[1] = q[1])
    BY <1>2, <1>5
  <2> QED
    BY <1>3, <2>1
<1>10. Mirror(w, km, t, r, kept)
  <2>1. Len(t) + 1 = m + 2
    BY <1>2
  <2> QED
    BY <1>2, <1>3, <1>7, <1>8, <1>9, <2>1 DEF Mirror
<1>11. w[Len(t) + 1] = l
  <2>1. Len(t) + 1 = m + 2
    BY <1>2
  <2> QED
    BY <1>6, <2>1
<1> QED
  BY <1>10, <1>11 DEF Lags, t

\* The two events of a rename are queued.
LEMMA MirrorMove ==
  ASSUME NEW q \in Seq(KernelEvents), NEW l, NEW km, NEW r, NEW kept, Lags(l, km, q, r, kept),
         NEW m \in [Dirs -> Locations], Distinct(m), NEW d \in Dirs, NEW p \in Dirs \cup {Root}, NEW n \in Names,
         Moves(l, m, d, p, n), {d, p, l[d][1]} \subseteq DOMAIN km,
         NEW a \in KernelEvents, a = Event(km[l[d][1]], "moved_from", l[d][2]),
         NEW b \in KernelEvents, b = Event(km[p], "moved_to", n)
  PROVE  Lags(m, km, Append(Append(q, a), b), r, kept)
<1> DEFINE c == Len(q)
           s == Append(q, a)
           t == Append(s, b)
<1>1. PICK v : Mirror(v, km, q, r, kept) /\ v[c + 1] = l
  BY DEF Lags
<1> DEFINE w == [k \in 1..(c + 3) |-> IF k = c + 3 THEN m ELSE IF k = c + 2 THEN l ELSE v[k]]
<1>2. /\ c \in Nat /\ Len(s) = c + 1 /\ s[c + 1] = a /\ \A i \in 1..c : s[i] = q[i]
      /\ s \in Seq(KernelEvents)
  BY LenProperties, AppendProperties
<1>3. /\ v \in [1..(c + 1) -> [Dirs -> Locations]]
      /\ \A k \in 1..(c + 1) : Distinct(v[k])
      /\ \A k \in 1..c : Follows(v, km, q, r, kept, k)
      /\ Named(v[1], km, r) /\ Filed(km, r)
      /\ kept # << >> => c # 0 /\ q[1].kind = "moved_to"
  BY <1>1, EmptySeq DEF Mirror
<1>4. Len(q) = c
  OBVIOUS
<1> HIDE DEF c, s
<1>5. t # << >> /\ Len(t) = (c + 1) + 1 /\ t[(c + 1) + 1] = b /\ \A i \in 1..(c + 1) : t[i] = s[i]
  BY <1>2, AppendProperties
<1> HIDE DEF t
<1>6. t[c + 2] = b /\ Len(t) = c + 2 /\ t[c + 1] = a /\ \A i \in 1..c : t[i] = q[i]
  <2>1. c + 1 \in 1..(c + 1) /\ (c + 1) + 1 = c + 2 /\ \A i \in 1..c : i \in 1..(c + 1)
    BY <1>2
  <2> QED
    BY <1>2, <1>5, <2>1
<1>7. \A i \in 1..(c + 1) : w[i] = v[i]
  BY <1>2
<1>8. w[c + 3] = m /\ w[c + 2] = l /\ w[c + 1] = l
  BY <1>1, <1>2
<1>9. w \in [1..(c + 3) -> [Dirs -> Locations]] /\ \A k \in 1..(c + 3) : Distinct(w[k])
  <2>1. \A k \in 1..(c + 3) : w[k] = m \/ w[k] = v[c + 1] \/ (k \in 1..(c + 1) /\ w[k] = v[k])
    BY <1>1, <1>2
  <2>2. c + 1 \in 1..(c + 1) /\ w = [k \in 1..(c + 3) |-> w[k]]
    BY <1>2
  <2> HIDE DEF w
  <2> QED
    BY <1>3, <2>1, <2>2
<1> HIDE DEF w
<1>10. ASSUME NEW k \in 1..(c + 2) PROVE Follows(w, km, t, r, kept, k)
  <2>1. CASE k = c + 1
    <3>1. t[k].kind = "moved_from" /\ t[k + 1].kind = "moved_to" /\ k < Len(t) /\ k + 1 = c + 2
      BY <1>2, <1>6, <2>1 DEF Event
    <3> QED
      BY <1>8, <2>1, <3>1 DEF Follows
  <2>2. CASE k = c + 2
    <3>1. k + 1 = c + 3 /\ k - 1 = c + 1 /\ k # 1
      BY <1>2, <2>2
    <3>2. TellsFrom(km, t[k - 1], w[k], d)
      BY <1>6, <1>8, <2>2, <3>1 DEF TellsFrom
    <3>3. TellsTo(w, km, t, r, kept, k, d, p, n)
      BY <1>6, <1>8, <2>2, <3>1, <3>2 DEF TellsTo
    <3> QED
      BY <3>3 DEF Follows
  <2>3. CASE k \in 1..c
    <3>1. Follows(v, km, q, r, kept, k)
      BY <1>3, <2>3
    <3>2. Len(t) \in Nat /\ c <= Len(t)
      BY <1>2, <1>6
    <3> QED
      BY <1>2, <1>4, <1>6, <1>7, <2>3, <3>1, <3>2, FollowsMore
  <2>4. k \in 1..c \/ k = c + 1 \/ k = c + 2
    BY <1>2, SMTT(30)
  <2> QED
    BY <2>1, <2>2, <2>3, <2>4
<1>11. Named(w[1], km, r) /\ (kept # << >> => t[1].kind = "moved_to")
  <2>1. w[1] = v[1] /\ (c # 0 => t[1] = q[1])
    BY <1>2, <1>6, <1>7
  <2> QED
    BY <1>3, <2>1
<1>12. Mirror(w, km, t, r, kept)
  <2>1. Len(t) + 1 = c + 3 /\ Len(t) = c + 2
    BY <1>2, <1>6
  <2> QED
    BY <1>3, <1>5, <1>9, <1>10, <1>11, <2>1 DEF Mirror
<1>13. w[Len(t) + 1] = m
  <2>1. Len(t) + 1 = c + 3
    BY <1>2, <1>6
  <2> QED
    BY <1>8, <2>1
<1> QED
  BY <1>12, <1>13 DEF Lags, t, s

(***************************************************************************)
(* While the tool scans, or others wait for it.                            *)
(***************************************************************************)

\* watch_file files a new watch under its path, and nothing else changes.
LEMMA ScanWatchFiled ==
  ASSUME TypeInv, Sync, Filed(kmarks, reg), ScanWatch
  PROVE  Filed(kmarks', reg')
<1> DEFINE dir == Resolve(Top.path)
           marked == dir \in DOMAIN kmarks
           wd == IF marked THEN kmarks[dir] ELSE knext
           path == Top.path
<1>1. scan # << >>
  BY DEF ScanWatch
<1>2. \/ UNCHANGED <<kmarks, knext, reg>>
      \/ /\ kmarks' = Put(kmarks, dir, wd) /\ dir # NoDir
         /\ reg' = CreateInotifyWatch(reg, wd, path)
  BY DEF ScanWatch, Vanished
<1>3. CASE UNCHANGED <<kmarks, knext, reg>>
  BY <1>3
<1>4. CASE /\ kmarks' = Put(kmarks, dir, wd) /\ dir # NoDir
           /\ reg' = CreateInotifyWatch(reg, wd, path)
  <2>1. /\ IsPath(path) /\ Sound(reg) /\ dir = ResolveIn(loc, path) /\ dir # Dead
        /\ loc \in [Dirs -> Locations] /\ knext \in Nat
    BY <1>1, <1>4, ScanType, ResolveNow DEF TypeInv, KernelOK, NoDir
  <2>2. Named(loc, kmarks, reg) /\ DOMAIN reg.by_wd \subseteq 1..(knext - 1)
    BY DEF Sync
  <2>3. DOMAIN kmarks' = DOMAIN kmarks \cup {dir} /\ \A e \in DOMAIN kmarks' : kmarks'[e] = IF e = dir THEN wd ELSE kmarks[e]
    BY <1>4 DEF Put
  <2>4. /\ \A e \in DOMAIN kmarks : /\ IsPath(NameOf(reg, kmarks[e])) /\ ResolveIn(loc, NameOf(reg, kmarks[e])) = e
                                    /\ kmarks[e] \in DOMAIN reg.by_wd
        /\ \A f \in DOMAIN reg.by_filename : \E e \in DOMAIN kmarks : f = NameOf(reg, kmarks[e])
    <3>1. \A e \in DOMAIN kmarks : kmarks[e] \in DOMAIN reg.by_wd
      BY <2>2 DEF Named
    <3>2. Sound(reg) /\ Named(loc, kmarks, reg) /\ Filed(kmarks, reg)
      BY <2>1, <2>2
    <3> HIDE DEF path, wd, marked, dir
    <3> QED
      BY <3>1, <3>2, FiledLeads
  <2> DEFINE id == reg.next_id
             w == [wd |-> wd, fid |-> NoFid, filename |-> path, dirf |-> FALSE]
             ins == wd \notin DOMAIN reg.by_wd \/ path \notin DOMAIN reg.by_filename
  <2>5. /\ reg'.watches = (IF ins THEN Put(reg.watches, id, w) ELSE reg.watches)
        /\ reg'.by_wd = PutIfVacant(reg.by_wd, wd, id)
        /\ reg'.by_filename = PutIfVacant(reg.by_filename, path, id)
    BY <1>4 DEF CreateInotifyWatch, CreateWatch
  <2>6. CASE marked
    <3>1. wd = kmarks[dir] /\ wd \in DOMAIN reg.by_wd
      BY <2>4, <2>6
    <3>2. path = NameOf(reg, kmarks[dir])
      BY <2>1, <2>4, <2>6, OnePath
    <3>3. path \in DOMAIN reg.by_filename
      BY <2>6, <3>2 DEF Filed
    <3> HIDE DEF path, id, w
    <3>4. reg'.watches = reg.watches /\ reg'.by_wd = reg.by_wd /\ reg'.by_filename = reg.by_filename
      BY <2>5, <3>1, <3>3 DEF PutIfVacant
    <3> HIDE DEF wd, dir, ins
    <3>5. DOMAIN kmarks' = DOMAIN kmarks /\ \A e \in DOMAIN kmarks : kmarks'[e] = kmarks[e]
      BY <2>3, <2>6, <3>1
    <3> QED
      BY <3>4, <3>5 DEF Filed, NameOf
  <2>7. CASE ~marked
    <3>1. wd = knext /\ wd \notin DOMAIN reg.by_wd
      BY <2>1, <2>2, <2>7
    <3>2. path \notin DOMAIN reg.by_filename
      <4> HIDE DEF path
      <4> QED
        BY <2>1, <2>4, <2>7
    <3>3. id \notin DOMAIN reg.watches /\ w.filename = path
      BY <2>1 DEF Sound
    <3> HIDE DEF path, id, w
    <3>4. /\ DOMAIN reg'.watches = DOMAIN reg.watches \cup {id} /\ reg'.watches[id] = w
          /\ \A x \in DOMAIN reg.watches : reg'.watches[x] = reg.watches[x]
      BY <2>5, <3>1, <3>3 DEF Put
    <3>5. /\ DOMAIN reg'.by_wd = DOMAIN reg.by_wd \cup {wd} /\ reg'.by_wd[wd] = id
          /\ \A x \in DOMAIN reg.by_wd : reg'.by_wd[x] = reg.by_wd[x]
      BY <2>5, <3>1 DEF PutIfVacant, Put
    <3>6. /\ DOMAIN reg'.by_filename = DOMAIN reg.by_filename \cup {path} /\ reg'.by_filename[path] = id
          /\ \A x \in DOMAIN reg.by_filename : reg'.by_filename[x] = reg.by_filename[x]
      BY <2>5, <3>2 DEF PutIfVacant, Put
    <3> HIDE DEF wd, dir, ins
    <3>7. ASSUME NEW e \in DOMAIN kmarks
          PROVE  /\ kmarks'[e] = kmarks[e] /\ e \in DOMAIN kmarks' /\ reg'.by_wd[kmarks[e]] = reg.by_wd[kmarks[e]]
                 /\ NameOf(reg', kmarks[e]) = NameOf(reg, kmarks[e])
      <4>1. kmarks'[e] = kmarks[e] /\ e \in DOMAIN kmarks'
        BY <2>3, <2>7
      <4>2. reg'.by_wd[kmarks[e]] = reg.by_wd[kmarks[e]]
        BY <2>4, <3>5
      <4>3. reg.by_wd[kmarks[e]] \in DOMAIN reg.watches
        BY <2>1, <2>4 DEF Sound
      <4> QED
        BY <3>4, <4>1, <4>2, <4>3 DEF NameOf
    <3>8. kmarks'[dir] = wd /\ dir \in DOMAIN kmarks' /\ NameOf(reg', wd) = path
      BY <2>3, <3>3, <3>4, <3>5 DEF NameOf
    <3>9. ASSUME NEW e \in DOMAIN kmarks'
          PROVE  /\ NameOf(reg', kmarks'[e]) \in DOMAIN reg'.by_filename
                 /\ reg'.by_filename[NameOf(reg', kmarks'[e])] = reg'.by_wd[kmarks'[e]]
      <4>1. CASE e = dir
        BY <3>5, <3>6, <3>8, <4>1
      <4>2. CASE e # dir
        <5>1. e \in DOMAIN kmarks
          BY <2>3, <4>2
        <5> QED
          BY <3>6, <3>7, <5>1 DEF Filed
      <4> QED
        BY <4>1, <4>2
    <3>10. ASSUME NEW f \in DOMAIN reg'.by_filename
           PROVE  \E e \in DOMAIN kmarks' : reg'.by_filename[f] = reg'.by_wd[kmarks'[e]]
      <4>1. CASE f = path
        BY <3>5, <3>6, <3>8, <4>1
      <4>2. CASE f # path
        <5>1. f \in DOMAIN reg.by_filename /\ reg'.by_filename[f] = reg.by_filename[f]
          BY <3>6, <4>2
        <5>2. PICK e \in DOMAIN kmarks : reg.by_filename[f] = reg.by_wd[kmarks[e]]
          BY <5>1 DEF Filed
        <5> QED
          BY <3>7, <5>1, <5>2
      <4> QED
        BY <4>1, <4>2
    <3> QED
      BY <3>9, <3>10 DEF Filed
  <2> QED
    BY <2>6, <2>7
<1> QED
  BY <1>2, <1>3, <1>4

(***************************************************************************)
(* The tool scans: the names are in step with the tree.                    *)
(***************************************************************************)

\* opendir and lstat leave at most one call on the root, the outermost.
LEMMA OneRootKept ==
  ASSUME TypeInv, OneRoot(scan), ScanOpen \/ ScanEntry
  PROVE  OneRoot(scan')
<1>1. CASE ScanOpen
  <2> DEFINE dir == Resolve(Top.path)
             todo == {loc[d][2] : d \in Children(dir)}
             next == [path |-> Top.path, opened |-> TRUE, todo |-> todo]
  <2>1. scan # << >> /\ (scan' = Below \/ (dir # NoDir /\ scan' = Append(Below, next)))
    BY <1>1 DEF ScanOpen, Vanished
  <2>2. Top \in Calls /\ IsPath(Top.path) /\ Top.path \in Seq(Names \cup {RootName})
    BY <2>1, ScanType DEF Calls
  <2>3. ASSUME dir # NoDir PROVE next \in Calls /\ next.path = Top.path
    <3>1. dir \in Dirs \cup {Root}
      <4>1. dir = ResolveIn(loc, Top.path)
        BY ResolveNow
      <4> QED
        BY <2>2, <2>3, <4>1, ResolveType DEF NoDir
    <3>2. todo \subseteq Names
      <4> HIDE DEF dir
      <4> QED
        BY <3>1, ChildNames DEF TypeInv
    <3> HIDE DEF dir, todo
    <3> QED
      BY <2>2, <3>2 DEF Calls
  <2> HIDE DEF next, dir
  <2> QED
    BY <2>1, <2>3, OneRootCall
<1>2. CASE ScanEntry
  <2>1. PICK n \in Top.todo :
          LET path == Append(Top.path, n)
              rest == Append(Below, [Top EXCEPT !.todo = @ \ {n}])
          IN  scan' = CASE Resolve(path) = NoDir -> Below
                        [] Resolve(path) # NoDir /\ is_excluded(path) -> rest
                        [] OTHER -> Append(rest, Frame(path))
    BY <1>2 DEF ScanEntry
  <2> DEFINE path == Append(Top.path, n)
             top == [Top EXCEPT !.todo = @ \ {n}]
             new == Frame(path)
  <2>2. scan # << >>
    BY <1>2 DEF ScanEntry
  <2>3. Top \in Calls /\ IsPath(Top.path) /\ n \in Names
    BY <2>1, <2>2, ScanType
  <2>4. top \in Calls /\ top.path = Top.path
    BY <2>3 DEF Calls
  <2>5. IsPath(path) /\ path # <<RootName>>
    <3> DEFINE m == Len(Top.path)
    <3>1. IsPath(path) /\ m \in Nat \ {0} /\ Len(path) = m + 1
      BY <2>3, PathAppend
    <3> HIDE DEF m, path
    <3>2. m + 1 # 1
      BY <3>1
    <3> QED
      BY <3>1, <3>2, RootPath
  <2>6. new \in Calls /\ new.path = path
    <3> HIDE DEF path
    <3> QED
      BY <2>5, FrameType DEF Frame
  <2>7. scan' \in {Below, Append(Below, top), Append(Append(Below, top), new)}
    BY <2>1
  <2> HIDE DEF top, new, path
  <2> QED
    BY <2>2, <2>4, <2>5, <2>6, <2>7, OneRootCall
<1> QED
  BY <1>1, <1>2

\* The tool has a view of the whole tree: others wait for it, or have not
\* moved a directory since the scans ended, or it is still starting.
Scanning ==
  /\ Sync /\ Cover /\ Filed(kmarks, reg)
  /\ mode.quiet \/ Quiescent \/ (~Started /\ kq = << >> /\ Idle /\ OneRoot(scan))

\* Each step of the tool keeps that.
LEMMA ScanningTool ==
  ASSUME TypeInv, Scanning, HasRoom, Tool, mode' = mode
  PROVE  Scanning'
<1>1. Sync /\ Cover /\ Filed(kmarks, reg)
  BY DEF Scanning
<1>2. Sync' /\ Cover'
  BY <1>1, SyncTool, CoverTool
<1>3. Filed(kmarks', reg')
  <2>1. CASE ScanWatch
    BY <1>1, <2>1, ScanWatchFiled
  <2>2. ASSUME ~ScanWatch PROVE kmarks' = kmarks /\ reg' = reg
    <3>1. CASE ScanOpen \/ ScanEntry \/ DropFiltered \/ HandleMovedIn
      BY <3>1 DEF ScanOpen, ScanEntry, DropFiltered, HandleMovedIn, Vanished, toolvars
    <3>2. CASE HandleCreate \/ HandleMovedFrom \/ HandleOther
      <4>1. kq # << >> /\ LeaveTree(reg')
        BY <3>2 DEF HandleCreate, HandleMovedFrom, HandleOther, Receives
      <4> QED
        BY <1>1, <4>1, LeaveNothing
    <3>3. CASE HandleMovedTo
      BY <1>1, <3>3 DEF HandleMovedTo, Sync
    <3> QED
      BY <2>2, <3>1, <3>2, <3>3 DEF Tool
  <2> QED
    BY <1>1, <2>1, <2>2
<1>4. mode.quiet \/ Quiescent' \/ (~Started' /\ kq' = << >> /\ Idle' /\ OneRoot(scan'))
  <2> SUFFICES ASSUME ~mode.quiet
               PROVE  Quiescent' \/ (~Started' /\ kq' = << >> /\ Idle' /\ OneRoot(scan'))
    OBVIOUS
  <2>0. Idle /\ Idle'
    <3>1. late' = late
      BY DEF Tool, ScanOpen, ScanEntry, ScanWatch, DropFiltered, HandleCreate, HandleMovedFrom,
             HandleOther, HandleMovedIn, HandleMovedTo, fsvars
    <3> QED
      BY <3>1 DEF Scanning, Quiescent, Idle
  <2>1. kq = << >> /\ OneRoot(scan) /\ ~Started /\ (ScanOpen \/ ScanEntry \/ ScanWatch)
    <3>1. kq = << >>
      BY DEF Scanning, Quiescent
    <3>2. scan # << >> /\ (ScanOpen \/ ScanEntry \/ ScanWatch)
      BY <3>1 DEF Tool, ScanOpen, ScanEntry, ScanWatch, DropFiltered, HandleCreate, HandleMovedFrom,
                  HandleOther, HandleMovedIn, HandleMovedTo, Receives
    <3> QED
      BY <3>1, <3>2 DEF Scanning, Quiescent
  <2>2. CASE ScanOpen \/ ScanEntry
    <3>1. kq' = kq /\ kmarks' = kmarks
      BY <2>2 DEF ScanOpen, ScanEntry, Vanished
    <3>2. OneRoot(scan')
      BY <2>1, <2>2, OneRootKept
    <3> QED
      BY <2>0, <2>1, <3>1, <3>2 DEF Started
  <2>3. CASE ScanWatch
    <3> DEFINE dir == Resolve(Top.path)
    <3>1. kq' = << >> /\ scan # << >> /\ dir = ResolveIn(loc, Top.path)
      BY <2>1, <2>3, ResolveNow DEF ScanWatch
    <3>2. \/ scan' \in {Below, << >>} /\ kmarks' = kmarks
          \/ scan' = Below /\ DOMAIN kmarks' = DOMAIN kmarks \cup {dir}
      BY <2>3 DEF ScanWatch, Vanished, Put
    <3>3. OneRoot(Below) /\ OneRoot(<< >>)
      BY <2>1, <3>1, OneRootCall DEF OneRoot
    <3>4. dir = Root => Below = << >>
      BY <2>1, <3>1, RootIsLast
    <3> HIDE DEF dir
    <3> QED
      BY <2>0, <2>1, <3>1, <3>2, <3>3, <3>4 DEF Started, Quiescent
  <2> QED
    BY <2>1, <2>2, <2>3
<1> QED
  BY <1>2, <1>3, <1>4 DEF Scanning

\* So does the kernel when it tells of an operation.
LEMMA ScanningNotify ==
  ASSUME TypeInv, Scanning, NEW d \in Dirs, Notify(d)
  PROVE  Scanning'
<1>1. UNCHANGED <<mode, kmarks, reg>> /\ late[d] # << >>
  BY DEF Notify, toolvars
<1>2. mode.quiet
  BY <1>1 DEF Scanning, Quiescent, Idle
<1>3. Sync' /\ Cover'
  BY NotifySync, NotifyCover DEF Scanning
<1> QED
  BY <1>1, <1>2, <1>3 DEF Scanning

(***************************************************************************)
(* The events that are due: those of the queue, and those the kernel has   *)
(* still to tell of the one operation that is under way.                   *)
(***************************************************************************)

\* s is what is still to be told, of no operation or of one.
UnderWay(l, s) ==
  \/ s = << >> /\ \A d \in Dirs : l[d] = << >>
  \/ \E d \in Dirs : s = l[d] /\ \A e \in Dirs : e # d => l[e] = << >>

Due(km, q, s, due) ==
  /\ due \in Seq(KernelEvents) /\ Len(due) = Len(q) + Len(s)
  /\ \A i \in 1..Len(q) : due[i] = q[i]
  /\ \A i \in 1..Len(s) :
       /\ s[i].dir \in DOMAIN km
       /\ due[Len(q) + i] = Event(km[s[i].dir], s[i].kind, s[i].name)

LEMMA OneUnderWay ==
  ASSUME NEW l, NEW d \in Dirs, \A e \in Dirs : e # d => l[e] = << >>, NEW s, l[d] = s
  PROVE  UnderWay(l, s)
BY DEF UnderWay

\* When nothing is to be told they are those of the queue.
LEMMA DueIdle ==
  ASSUME TypeInv, Idle, NEW s, UnderWay(late, s), NEW due, Due(kmarks, kq, s, due)
  PROVE  due = kq /\ s = << >>
<1>1. s = << >>
  BY DEF UnderWay, Idle
<1> DEFINE n == Len(kq)
<1>2. Len(s) = 0 /\ kq \in Seq(KernelEvents) /\ n \in Nat
  BY <1>1, LenProperties DEF TypeInv, KernelOK
<1>3. due \in Seq(KernelEvents) /\ Len(due) = n + 0 /\ \A i \in 1..n : due[i] = kq[i]
  BY <1>2 DEF Due
<1>4. Len(kq) = n
  OBVIOUS
<1> HIDE DEF n
<1> QED
  BY <1>1, <1>2, <1>3, <1>4, SeqEqual

\* The queue alone.
LEMMA DueQueue ==
  ASSUME NEW q \in Seq(KernelEvents), NEW km
  PROVE  Due(km, q, << >>, q)
<1>1. Len(q) \in Nat /\ Len(<< >>) = 0
  BY LenProperties
<1> QED
  BY <1>1 DEF Due

\* The kernel tells: what is due stays the same.
LEMMA DueNotify ==
  ASSUME TypeInv, NEW s, UnderWay(late, s), NEW due, Due(kmarks, kq, s, due), NEW d \in Dirs, Notify(d)
  PROVE  \E t : UnderWay(late', t) /\ Due(kmarks', kq', t, due)
<1> DEFINE x == Head(s)
           t == Tail(s)
           e == Event(kmarks[x.dir], x.kind, x.name)
           n == Len(kq)
           m == Len(s)
<1>1. /\ late[d] # << >> /\ late' = [late EXCEPT ![d] = Tail(@)] /\ kmarks' = kmarks
      /\ kq' = kq \o OnDir(Head(late[d]).dir, Head(late[d]).kind, Head(late[d]).name)
  BY DEF Notify
<1>2. s = late[d] /\ \A c \in Dirs : c # d => late[c] = << >>
  BY <1>1 DEF UnderWay, Idle
<1>3. late \in [Dirs -> Seq(Notices)] /\ s \in Seq(Notices) /\ s # << >> /\ kq \in Seq(KernelEvents)
  BY <1>1, <1>2 DEF TypeInv, KernelOK
<1>4. /\ t \in Seq(Notices) /\ Len(t) = m - 1 /\ \A i \in 1..(m - 1) : t[i] = s[i + 1]
      /\ x = s[1] /\ m \in Nat \ {0} /\ n \in Nat
  BY <1>3, HeadTailProperties, LenProperties, EmptySeq
<1>5. UnderWay(late', t)
  <2> HIDE DEF t
  <2>1. late'[d] = t /\ \A c \in Dirs : c # d => late'[c] = << >>
    BY <1>1, <1>2, <1>3 DEF t
  <2> QED
    BY <2>1 DEF UnderWay
<1>6. /\ due \in Seq(KernelEvents) /\ Len(due) = n + m
      /\ \A i \in 1..n : due[i] = kq[i]
      /\ \A i \in 1..m : /\ s[i].dir \in DOMAIN kmarks
                         /\ due[n + i] = Event(kmarks[s[i].dir], s[i].kind, s[i].name)
  BY DEF Due
<1>7. Len(kq) = n
  OBVIOUS
<1> HIDE DEF t, n, m
<1>8. 1 \in 1..m
  BY <1>4
<1>9. x.dir \in DOMAIN kmarks /\ due[n + 1] = e
  BY <1>4, <1>6, <1>8
<1>10. kq' = Append(kq, e) /\ e \in KernelEvents
  <2>1. kq' = kq \o <<e>>
    BY <1>1, <1>2, <1>9 DEF OnDir
  <2>2. e \in KernelEvents
    <3>1. n + 1 \in 1..Len(due)
      BY <1>4, <1>6
    <3> QED
      BY <1>6, <1>9, <3>1, ElementOfSeq
  <2> HIDE DEF e, x
  <2>3. kq \o <<e>> = Append(kq, e)
    BY <1>3, <2>2, AppendIsConcat
  <2> QED
    BY <2>1, <2>2, <2>3
<1> HIDE DEF e, x
<1>11. Len(kq') = n + 1 /\ kq'[n + 1] = e /\ \A i \in 1..n : kq'[i] = kq[i]
  BY <1>3, <1>7, <1>10, AppendProperties
<1>12. \A i \in 1..(n + 1) : due[i] = kq'[i]
  <2>1. \A i \in 1..(n + 1) : i \in 1..n \/ i = n + 1
    BY <1>4
  <2> QED
    BY <1>6, <1>9, <1>11, <2>1
<1>13. ASSUME NEW i \in 1..Len(t)
       PROVE  t[i].dir \in DOMAIN kmarks /\ due[(n + 1) + i] = Event(kmarks[t[i].dir], t[i].kind, t[i].name)
  <2>1. i \in 1..(m - 1) /\ i + 1 \in 1..m /\ (n + 1) + i = n + (i + 1)
    BY <1>4
  <2>2. t[i] = s[i + 1]
    BY <1>4, <2>1
  <2> QED
    BY <1>6, <2>1, <2>2
<1>14. Len(due) = (n + 1) + Len(t)
  BY <1>4, <1>6
<1>15. Due(kmarks', kq', t, due)
  BY <1>1, <1>6, <1>11, <1>12, <1>13, <1>14 DEF Due
<1> QED
  BY <1>5, <1>15

\* The tool handles the first one.
LEMMA DueFirst ==
  ASSUME TypeInv, kq # << >>, NEW s, UnderWay(late, s), NEW due, Due(kmarks, kq, s, due)
  PROVE  /\ due \in Seq(KernelEvents) /\ due # << >> /\ Len(due) \in Nat \ {0}
         /\ due[1] = E /\ E \in KernelEvents
         /\ Due(kmarks, Tail(kq), s, Tail(due))
<1> DEFINE n == Len(kq)
           m == Len(s)
           q == Tail(kq)
           t == Tail(due)
           c == Len(due)
<1>1. s \in Seq(Notices) /\ kq \in Seq(KernelEvents)
  BY EmptySeq DEF TypeInv, KernelOK, UnderWay
<1>2. /\ q \in Seq(KernelEvents) /\ Len(q) = n - 1 /\ \A i \in 1..(n - 1) : q[i] = kq[i + 1]
      /\ n \in Nat \ {0} /\ E = kq[1] /\ E \in KernelEvents /\ m \in Nat
  BY <1>1, FirstEvent, HeadTailProperties, LenProperties, EmptySeq DEF E
<1>3. /\ due \in Seq(KernelEvents) /\ c = n + m
      /\ \A i \in 1..n : due[i] = kq[i]
      /\ \A i \in 1..m : /\ s[i].dir \in DOMAIN kmarks
                         /\ due[n + i] = Event(kmarks[s[i].dir], s[i].kind, s[i].name)
  BY DEF Due
<1>4. Len(due) = c /\ Len(s) = m
  OBVIOUS
<1> HIDE DEF n, m, q, c
<1>5. c \in Nat \ {0} /\ 1 \in 1..n /\ \A i \in 1..(n - 1) : i + 1 \in 1..n /\ i \in 1..(c - 1)
  BY <1>2, <1>3
<1>6. due # << >>
  BY <1>4, <1>5
<1>7. t \in Seq(KernelEvents) /\ Len(t) = c - 1 /\ \A i \in 1..(c - 1) : t[i] = due[i + 1]
  BY <1>3, <1>4, <1>6, HeadTailProperties
<1> HIDE DEF t
<1>8. due[1] = E
  BY <1>2, <1>3, <1>5
<1>9. \A i \in 1..(n - 1) : t[i] = q[i]
  BY <1>2, <1>3, <1>5, <1>7
<1>10. ASSUME NEW i \in 1..m
       PROVE  t[(n - 1) + i] = Event(kmarks[s[i].dir], s[i].kind, s[i].name)
  <2>1. (n - 1) + i \in 1..(c - 1) /\ ((n - 1) + i) + 1 = n + i
    BY <1>2, <1>3
  <2> QED
    BY <1>3, <1>7, <2>1
<1>11. Len(t) = (n - 1) + m
  BY <1>2, <1>3, <1>7
<1>12. Due(kmarks, q, s, t)
  BY <1>2, <1>3, <1>4, <1>7, <1>9, <1>10, <1>11 DEF Due
<1> QED
  BY <1>2, <1>3, <1>4, <1>5, <1>6, <1>8, <1>12 DEF q, t

(***************************************************************************)
(* The tool lags behind: the events due tell of renames it has not seen.   *)
(***************************************************************************)

\* The scans have ended, the whole tree is watched, and the events to come
\* account for all that happened since the registry was last in step.
Lagging ==
  /\ Started /\ scan = << >> /\ DOMAIN reg.by_wd \subseteq 1..(knext - 1)
  /\ Closed(loc, kmarks)
  /\ \E s, due : UnderWay(late, s) /\ Due(kmarks, kq, s, due) /\ Lags(loc, kmarks, due, reg, moved_from)

\* With no event to come the registry is what the tree says.
LEMMA NothingLags ==
  ASSUME NEW l \in [Dirs -> Locations], Distinct(l), NEW km, NEW r, Named(l, km, r), Filed(km, r)
  PROVE  Lags(l, km, << >>, r, << >>)
<1> DEFINE v == [k \in 1..1 |-> l]
<1>1. Len(<< >>) = 0 /\ 0 + 1 = 1 /\ 1 \in 1..1
  OBVIOUS
<1>2. v \in [1..1 -> [Dirs -> Locations]] /\ v[1] = l /\ \A k \in 1..1 : v[k] = l
  BY <1>1
<1> HIDE DEF v
<1>3. Mirror(v, km, << >>, r, << >>)
  <2>1. v \in [1..(Len(<< >>) + 1) -> [Dirs -> Locations]] /\ \A k \in 1..(Len(<< >>) + 1) : Distinct(v[k])
    BY <1>1, <1>2
  <2>2. \A k \in 1..Len(<< >>) : FALSE
    BY <1>1
  <2> QED
    BY <1>2, <2>1, <2>2 DEF Mirror
<1> QED
  BY <1>1, <1>2, <1>3 DEF Lags

\* A tool that has caught up has not fallen behind.
LEMMA Settled ==
  ASSUME TypeInv, Scanning, Quiescent, mode.denied = {}, mode.excluded = {}
  PROVE  Lagging
<1>1. scan = << >> /\ kq = << >> /\ Started /\ moved_from = << >> /\ Idle
  BY DEF Quiescent, Scanning, Sync
<1>2. DOMAIN reg.by_wd \subseteq 1..(knext - 1) /\ Distinct(loc) /\ Named(loc, kmarks, reg) /\ Filed(kmarks, reg)
  BY DEF Scanning, Sync
<1>3. UnderWay(late, << >>) /\ Due(kmarks, kq, << >>, kq) /\ Lags(loc, kmarks, kq, reg, moved_from)
  BY <1>1, <1>2, NothingLags, DueQueue DEF TypeInv, KernelOK, UnderWay, Idle
<1>4. Closed(loc, kmarks)
  <2>1. ToSet(scan) = {} /\ ToSet(kq) = {} /\ \A d \in Dirs : ToSet(late[d]) = {}
    BY <1>1 DEF ToSet, Idle
  <2> QED
    BY <2>1 DEF Closed, Scanning, Cover, Handled, Begun, Announced
<1> QED
  BY <1>1, <1>2, <1>3, <1>4 DEF Lagging

\* Once the queue is empty the names are in step again, and nothing of the
\* tree is missing.
LEMMA LaggingSettled ==
  ASSUME TypeInv, Lagging, kq = << >>, Idle
  PROVE  Scanning /\ Quiescent
<1>1. PICK v : Mirror(v, kmarks, kq, reg, moved_from) /\ v[Len(kq) + 1] = loc
  BY DueIdle DEF Lagging, Lags
<1>2. Len(kq) = 0 /\ 0 + 1 = 1 /\ 1 \in 1..1
  OBVIOUS
<1>3. moved_from = << >> /\ v[1] = loc /\ Distinct(loc) /\ Named(loc, kmarks, reg) /\ Filed(kmarks, reg)
  BY <1>1, <1>2 DEF Mirror
<1>4. kq \in Seq(StillEvents) /\ late \in [Dirs -> Seq(StillNotices)]
  <2>1. late \in [Dirs -> Seq(Notices)] /\ \A d \in Dirs : late[d] = << >>
    BY DEF TypeInv, Idle
  <2>2. << >> \in Seq(StillEvents) /\ << >> \in Seq(StillNotices)
    BY EmptySeq
  <2> QED
    BY <2>1, <2>2
<1>5. Sync /\ Quiescent
  BY <1>3, <1>4 DEF Sync, Lagging, Quiescent
<1>6. Cover
  <2>1. ToSet(scan) = {}
    BY DEF Lagging, ToSet
  <2> QED
    BY <2>1 DEF Cover, Lagging, Closed, Handled, Passed
<1> QED
  BY <1>3, <1>5, <1>6 DEF Scanning

\* The path of an entry of a watched directory, put together from the name
\* of its watch, is the name of the entry's own watch.
LEMMA FromName ==
  ASSUME NEW l \in [Dirs -> Locations], Distinct(l), NEW km, DOMAIN km \subseteq Dirs \cup {Root},
         NEW r, Sound(r), Named(l, km, r), Filed(km, r),
         NEW d \in Dirs, d \in DOMAIN km, NEW p \in DOMAIN km, NEW n \in Names, l[d] = <<p, n>>
  PROVE  Append(NameOf(r, km[p]), n) = NameOf(r, km[d]) /\ NameOf(r, km[d]) \in DOMAIN r.by_filename
<1> DEFINE f == NameOf(r, km[p])
           g == NameOf(r, km[d])
<1>1. /\ IsPath(f) /\ ResolveIn(l, f) = p /\ IsPath(g) /\ ResolveIn(l, g) = d
      /\ g \in DOMAIN r.by_filename
  BY FiledLeads DEF Filed
<1> HIDE DEF f, g
<1>2. ResolveIn(l, Append(f, n)) = d /\ IsPath(Append(f, n)) /\ d # Dead
  <2>1. ResolveIn(l, Append(f, n)) = EntryIn(l, p, n)
    BY <1>1, ResolveSteps
  <2>2. EntryIn(l, p, n) = d
    BY EntryIs
  <2> QED
    BY <1>1, <2>1, <2>2, PathAppend, PlacesAssumption DEF Places
<1>3. Append(f, n) = g
  BY <1>1, <1>2, OnePath
<1> QED
  BY <1>1, <1>3 DEF f, g

\* The tool has not left a directory unless it remembers its name.
LEMMA LeaveNone ==
  ASSUME TypeInv, moved_from = << >>, kq # << >>, LeaveTree(reg')
  PROVE  reg' = reg /\ kmarks' = kmarks /\ kq' = Tail(kq)
<1>1. kq' = Tail(kq) \o << >> /\ kmarks' = kmarks /\ reg' = reg
  BY DEF LeaveTree, RegAfterLeave, LeftMarked, LeftFiled
<1>2. Tail(kq) \in Seq(KernelEvents)
  BY FirstEvent DEF TypeInv, KernelOK
<1> QED
  BY <1>1, <1>2, ConcatEmptySeq

\* What the first of the events due tells.
LEMMA FirstTells ==
  ASSUME TypeInv, kq # << >>, NEW s, UnderWay(late, s), NEW due, Due(kmarks, kq, s, due),
         NEW v, Mirror(v, kmarks, due, reg, moved_from)
  PROVE  /\ Len(due) \in Nat \ {0} /\ due[1] = E /\ E \in KernelEvents
         /\ {v[1], v[2]} \subseteq [Dirs -> Locations] /\ Distinct(v[1]) /\ Distinct(v[2])
         /\ Follows(v, kmarks, due, reg, moved_from, 1)
         /\ E.kind # "moved_to" => v[2] = v[1] /\ moved_from = << >>
         /\ \A d, p, n : TellsTo(v, kmarks, due, reg, moved_from, 2, d, p, n) => TellsFrom(kmarks, E, v[2], d)
<1> DEFINE m == Len(due)
<1>2. m \in Nat \ {0} /\ due[1] = E /\ E \in KernelEvents
  BY DueFirst
<1> HIDE DEF m
<1>3. 1 \in 1..(m + 1) /\ 2 \in 1..(m + 1) /\ 1 \in 1..m /\ 1 + 1 = 2 /\ 2 - 1 = 1 /\ 2 # 1
  BY <1>2
<1>4. /\ v \in [1..(m + 1) -> [Dirs -> Locations]] /\ \A k \in 1..(m + 1) : Distinct(v[k])
      /\ \A k \in 1..m : Follows(v, kmarks, due, reg, moved_from, k)
      /\ moved_from # << >> => due[1].kind = "moved_to"
  BY DEF Mirror, m
<1>5. {v[1], v[2]} \subseteq [Dirs -> Locations] /\ Distinct(v[1]) /\ Distinct(v[2])
  BY <1>3, <1>4
<1>6. Follows(v, kmarks, due, reg, moved_from, 1)
  BY <1>3, <1>4
<1>7. ASSUME E.kind # "moved_to" PROVE v[2] = v[1] /\ moved_from = << >>
  <2>1. \A wd, n : Event(wd, "moved_to", n).kind = "moved_to"
    BY DEF Event
  <2> QED
    BY <1>2, <1>3, <1>4, <1>6, <1>7, <2>1 DEF Follows, TellsTo
<1>8. \A d, p, n : TellsTo(v, kmarks, due, reg, moved_from, 2, d, p, n) => TellsFrom(kmarks, E, v[2], d)
  BY <1>2, <1>3 DEF TellsTo
<1> QED
  BY <1>2, <1>5, <1>6, <1>7, <1>8 DEF m

\* An event that is nothing to the tool.
LEMMA LagsOther ==
  ASSUME TypeInv, kq # << >>, NEW s, UnderWay(late, s), NEW due, Due(kmarks, kq, s, due),
         Lags(loc, kmarks, due, reg, moved_from), HandleOther
  PROVE  Lags(loc, kmarks', Tail(due), reg', moved_from') /\ kq' = Tail(kq) /\ kmarks' = kmarks /\ reg' = reg
<1>1. PICK v : Mirror(v, kmarks, due, reg, moved_from) /\ v[Len(due) + 1] = loc
  BY DEF Lags
<1>2. E.kind = "other" /\ LeaveTree(reg') /\ moved_from' = << >>
  BY DEF HandleOther, Receives
<1>3. v[2] = v[1] /\ moved_from = << >>
  BY <1>1, <1>2, FirstTells
<1>4. reg' = reg /\ kmarks' = kmarks /\ kq' = Tail(kq)
  BY <1>2, <1>3, LeaveNone
<1>5. Named(v[2], kmarks, reg) /\ Filed(kmarks, reg)
  BY <1>1, <1>3 DEF Mirror
<1>6. \A d, p, n : ~TellsTo(v, kmarks, due, reg, moved_from, 2, d, p, n)
  <2>1. \A d, p, n : TellsTo(v, kmarks, due, reg, moved_from, 2, d, p, n) => TellsFrom(kmarks, E, v[2], d)
    BY <1>1, FirstTells
  <2>2. \A d : ~TellsFrom(kmarks, E, v[2], d)
    BY <1>2 DEF TellsFrom, Event
  <2> QED
    BY <2>1, <2>2
<1>7. due \in Seq(KernelEvents) /\ due # << >>
  BY DueFirst
<1>8. Lags(v[Len(due) + 1], kmarks, Tail(due), reg, << >>)
  BY <1>1, <1>5, <1>6, <1>7, MirrorPop
<1> QED
  BY <1>1, <1>2, <1>4, <1>8

\* IN_MOVED_FROM: the name the tool remembers is that of the directory that
\* is moving.
LEMMA LagsFrom ==
  ASSUME TypeInv, kq # << >>, NEW s, UnderWay(late, s), NEW due, Due(kmarks, kq, s, due),
         Lags(loc, kmarks, due, reg, moved_from), HandleMovedFrom
  PROVE  Lags(loc, kmarks', Tail(due), reg', moved_from') /\ kq' = Tail(kq) /\ kmarks' = kmarks /\ reg' = reg
<1>1. PICK v : Mirror(v, kmarks, due, reg, moved_from) /\ v[Len(due) + 1] = loc
  BY DEF Lags
<1>2. /\ E.kind = "moved_from" /\ LeaveTree(reg')
      /\ moved_from' = IF DirPath(reg') \in DOMAIN reg'.by_filename THEN DirPath(reg') ELSE << >>
  BY DEF HandleMovedFrom, Receives
<1>3. v[2] = v[1] /\ moved_from = << >> /\ v[2] \in [Dirs -> Locations] /\ Distinct(v[2])
  BY <1>1, <1>2, FirstTells
<1>4. reg' = reg /\ kmarks' = kmarks /\ kq' = Tail(kq)
  BY <1>2, <1>3, LeaveNone
<1>5. Named(v[2], kmarks, reg) /\ Filed(kmarks, reg)
  BY <1>1, <1>3 DEF Mirror
<1>6. ASSUME NEW d, NEW p, NEW n, TellsTo(v, kmarks, due, reg, moved_from, 2, d, p, n)
      PROVE  moved_from' = NameOf(reg, kmarks[d])
  <2>1. TellsFrom(kmarks, E, v[2], d) /\ d \in DOMAIN kmarks /\ d \in Dirs
    BY <1>1, <1>6, FirstTells DEF TellsTo, Moves
  <2> DEFINE l == v[2]
             up == l[d][1]
             name == l[d][2]
  <2>2. up \in DOMAIN kmarks /\ E.wd = kmarks[up] /\ E.name = name
    BY <2>1 DEF TellsFrom, Event
  <2>3. name \in Names /\ l[d] = <<up, name>>
    <3>1. E \in KernelEvents
      BY DueFirst
    <3>2. name \in Names
      BY <1>2, <2>2, <3>1 DEF KernelEvents
    <3>3. l[d] \in Locations
      BY <1>3, <2>1
    <3> HIDE DEF l
    <3> QED
      BY <3>2, <3>3 DEF Locations
  <2>4. kmarks[up] \in DOMAIN reg.by_wd
    BY <1>5, <2>2 DEF Named
  <2>5. DirPath(reg) = Append(NameOf(reg, kmarks[up]), name)
    BY <2>2, <2>4 DEF DirPath, NameOf
  <2> HIDE DEF l, up, name
  <2>6. Sound(reg) /\ DOMAIN kmarks \subseteq Dirs \cup {Root}
    BY DEF TypeInv, KernelOK
  <2>7. l \in [Dirs -> Locations] /\ Distinct(l) /\ Named(l, kmarks, reg) /\ Filed(kmarks, reg)
    BY <1>3, <1>5 DEF l
  <2>8. DirPath(reg) = NameOf(reg, kmarks[d]) /\ NameOf(reg, kmarks[d]) \in DOMAIN reg.by_filename
    BY <2>1, <2>2, <2>3, <2>5, <2>6, <2>7, FromName
  <2>9. moved_from' = IF DirPath(reg) \in DOMAIN reg.by_filename THEN DirPath(reg) ELSE << >>
    BY <1>2, <1>4 DEF DirPath
  <2> QED
    BY <2>8, <2>9
<1>7. 2 <= Len(due) /\ due[2].kind = "moved_to"
  <2>1. Follows(v, kmarks, due, reg, moved_from, 1) /\ due[1] = E /\ Len(due) \in Nat \ {0}
    BY <1>1, FirstTells
  <2>2. \A wd, n : Event(wd, "moved_to", n).kind = "moved_to"
    BY DEF Event
  <2>3. 1 < Len(due) /\ due[1 + 1].kind = "moved_to"
    BY <1>2, <2>1, <2>2 DEF Follows, TellsTo
  <2> DEFINE m == Len(due)
  <2>4. m \in Nat /\ 1 < m /\ 1 + 1 = 2
    BY <2>1, <2>3
  <2> HIDE DEF m
  <2>5. 2 <= m
    BY <2>4
  <2> QED
    BY <2>3, <2>4, <2>5 DEF m
<1>8. due \in Seq(KernelEvents) /\ due # << >>
  BY DueFirst
<1>9. Lags(v[Len(due) + 1], kmarks, Tail(due), reg, moved_from')
  <2> DEFINE kept == moved_from'
  <2>1. \A d, p, n : 2 <= Len(due) /\ TellsTo(v, kmarks, due, reg, moved_from, 2, d, p, n) => kept = NameOf(reg, kmarks[d])
    BY <1>6
  <2> HIDE DEF kept
  <2>2. Lags(v[Len(due) + 1], kmarks, Tail(due), reg, kept)
    BY <1>1, <1>5, <1>7, <1>8, <2>1, MirrorPop
  <2> QED
    BY <2>2 DEF kept
<1> QED
  BY <1>1, <1>4, <1>9

\* An IN_MOVED_TO in the queue always belongs to a rename.
LEMMA FirstMove ==
  ASSUME TypeInv, kq # << >>, E.kind \notin {"other", "moved_from"},
         NEW s, UnderWay(late, s), NEW due, Due(kmarks, kq, s, due),
         NEW v, Mirror(v, kmarks, due, reg, moved_from)
  PROVE  /\ E.kind = "moved_to" /\ moved_from # << >>
         /\ \E d \in Dirs, p \in Dirs \cup {Root}, n \in Names :
              /\ {d, p} \subseteq DOMAIN kmarks /\ Moves(v[1], v[2], d, p, n)
              /\ E = Event(kmarks[p], "moved_to", n) /\ moved_from = NameOf(reg, kmarks[d])
<1>1. due[1] = E /\ Follows(v, kmarks, due, reg, moved_from, 1)
  BY FirstTells
<1>2. PICK d \in Dirs, p \in Dirs \cup {Root}, n \in Names : TellsTo(v, kmarks, due, reg, moved_from, 1, d, p, n)
  BY <1>1 DEF Follows
<1>3. /\ {d, p} \subseteq DOMAIN kmarks /\ Moves(v[1], v[2], d, p, n)
      /\ E = Event(kmarks[p], "moved_to", n) /\ moved_from = NameOf(reg, kmarks[d])
  <2>1. 1 + 1 = 2
    OBVIOUS
  <2> QED
    BY <1>1, <1>2, <2>1 DEF TellsTo
<1>4. IsPath(NameOf(reg, kmarks[d]))
  <2>1. Named(v[1], kmarks, reg) /\ Filed(kmarks, reg) /\ Sound(reg)
    BY DEF Mirror, TypeInv
  <2> QED
    BY <1>3, <2>1, FiledLeads
<1>5. E.kind = "moved_to"
  BY <1>3 DEF Event
<1> QED
  BY <1>3, <1>4, <1>5 DEF IsPath

\* IN_MOVED_TO: the watches of the directory and of those in it are renamed.
LEMMA LagsTo ==
  ASSUME TypeInv, kq # << >>, NEW s, UnderWay(late, s), NEW due, Due(kmarks, kq, s, due),
         Lags(loc, kmarks, due, reg, moved_from), HandleMovedTo
  PROVE  Lags(loc, kmarks', Tail(due), reg', moved_from') /\ kq' = Tail(kq) /\ kmarks' = kmarks /\ reg'.by_wd = reg.by_wd
<1>1. PICK v : Mirror(v, kmarks, due, reg, moved_from) /\ v[Len(due) + 1] = loc
  BY DEF Lags
<1>2. /\ E.kind = "moved_to" /\ kq' = Tail(kq) /\ reg' \in Replaced(moved_from, DirPath(reg))
      /\ moved_from' = << >> /\ kmarks' = kmarks
  BY DEF HandleMovedTo, Receives
<1>3. PICK d \in Dirs, p \in Dirs \cup {Root}, n \in Names :
        /\ {d, p} \subseteq DOMAIN kmarks /\ Moves(v[1], v[2], d, p, n)
        /\ E = Event(kmarks[p], "moved_to", n) /\ moved_from = NameOf(reg, kmarks[d])
  BY <1>1, <1>2, FirstMove
<1> DEFINE l == v[1]
           m == v[2]
           q == NameOf(reg, kmarks[p])
           x == reg'
<1>4. l \in [Dirs -> Locations] /\ Distinct(m) /\ Named(l, kmarks, reg) /\ Filed(kmarks, reg)
  <2>1. {v[1], v[2]} \subseteq [Dirs -> Locations] /\ Distinct(v[1]) /\ Distinct(v[2])
    BY <1>1, FirstTells
  <2> QED
    BY <1>1, <2>1 DEF Mirror
<1>5. Moves(l, m, d, p, n)
  BY <1>3
<1> HIDE DEF l, m
<1>6. Sound(reg) /\ DOMAIN kmarks \subseteq Dirs \cup {Root}
  BY DEF TypeInv, KernelOK
<1>7. IsPath(q) /\ ResolveIn(l, q) = p
  BY <1>3, <1>4, <1>6, FiledLeads
<1>8. DirPath(reg) = Append(q, n)
  <2>1. E.wd = kmarks[p] /\ E.name = n
    BY <1>3 DEF Event
  <2>2. kmarks[p] \in DOMAIN reg.by_wd
    BY <1>3, <1>4 DEF Named
  <2> QED
    BY <2>1, <2>2 DEF DirPath, NameOf
<1>9. x \in Replaced(NameOf(reg, kmarks[d]), Append(q, n))
  BY <1>2, <1>3, <1>8
<1> HIDE DEF q, x
<1>10. x.by_wd = reg.by_wd /\ Named(m, kmarks, x) /\ Filed(kmarks, x)
  BY <1>3, <1>4, <1>5, <1>6, <1>7, <1>9, MoveRenames
<1>11. \A c, a, b : ~TellsTo(v, kmarks, due, reg, moved_from, 2, c, a, b)
  <2>1. \A c, a, b : TellsTo(v, kmarks, due, reg, moved_from, 2, c, a, b) => TellsFrom(kmarks, E, v[2], c)
    BY <1>1, FirstTells
  <2>2. \A c : ~TellsFrom(kmarks, E, v[2], c)
    BY <1>2 DEF TellsFrom, Event
  <2> QED
    BY <2>1, <2>2
<1>12. due \in Seq(KernelEvents) /\ due # << >> /\ Named(v[2], kmarks, x)
  BY <1>10, DueFirst DEF m
<1>13. Lags(v[Len(due) + 1], kmarks, Tail(due), x, << >>)
  BY <1>1, <1>10, <1>11, <1>12, MirrorPop
<1> QED
  BY <1>1, <1>2, <1>10, <1>13 DEF x

\* Without a filter the tool sees each event.
LEMMA NothingFiltered ==
  ASSUME TypeInv, NoFilter, scan = << >>, Tool
  PROVE  /\ kq # << >> /\ ~Filtered
         /\ \/ HandleCreate \/ HandleMovedFrom \/ HandleOther
            \/ HandleMovedIn \/ HandleMovedTo
<1>1. ~Filtered
  <2>1. mode.invert = FALSE
    BY ModesAssumption DEF TypeInv, NoFilter
  <2>2. Matched = FALSE
    BY DEF Matched, NoFilter
  <2> QED
    BY <2>1, <2>2 DEF Filtered
<1> QED
  BY <1>1 DEF Tool, ScanOpen, ScanEntry, ScanWatch, DropFiltered, HandleCreate, HandleMovedFrom,
              HandleOther, HandleMovedIn, HandleMovedTo, Receives

\* Each step of the tool brings it nearer.
LEMMA LaggingTool ==
  ASSUME TypeInv, Lagging, NoFilter, Tool
  PROVE  Lagging'
<1>1. PICK s, due : /\ UnderWay(late, s) /\ Due(kmarks, kq, s, due)
                    /\ Lags(loc, kmarks, due, reg, moved_from) /\ scan = << >>
  BY DEF Lagging
<1>2. kq # << >> /\ (HandleCreate \/ HandleMovedFrom \/ HandleOther \/ HandleMovedIn \/ HandleMovedTo)
  BY <1>1, NothingFiltered
<1>3. PICK v : Mirror(v, kmarks, due, reg, moved_from)
  BY <1>1 DEF Lags
<1>4. HandleMovedFrom \/ HandleOther \/ HandleMovedTo
  <2>1. HandleCreate => E.kind = "create"
    BY DEF HandleCreate, Receives
  <2>2. HandleMovedIn => E.kind = "moved_to" /\ moved_from = << >>
    BY DEF HandleMovedIn, Receives
  <2> QED
    BY <1>1, <1>2, <1>3, <2>1, <2>2, FirstMove
<1>5. loc' = loc /\ scan' = scan /\ knext' = knext /\ late' = late
  BY <1>4 DEF HandleMovedFrom, HandleOther, HandleMovedTo, fsvars
<1>6. /\ Lags(loc, kmarks', Tail(due), reg', moved_from') /\ kq' = Tail(kq)
      /\ kmarks' = kmarks /\ reg'.by_wd = reg.by_wd
  BY <1>1, <1>2, <1>4, LagsOther, LagsFrom, LagsTo
<1>7. UnderWay(late', s) /\ Due(kmarks, kq', s, Tail(due))
  BY <1>1, <1>2, <1>5, <1>6, DueFirst DEF UnderWay, Idle
<1> QED
  BY <1>5, <1>6, <1>7 DEF Lagging, Started

\* The kernel tells of what is under way, which was due before.
LEMMA LaggingNotify ==
  ASSUME TypeInv, Lagging, NEW d \in Dirs, Notify(d)
  PROVE  Lagging'
<1>1. UNCHANGED <<loc, kmarks, knext, reg, moved_from, scan>>
  BY DEF Notify, toolvars
<1>2. PICK s, due : UnderWay(late, s) /\ Due(kmarks, kq, s, due) /\ Lags(loc, kmarks, due, reg, moved_from)
  BY DEF Lagging
<1>3. PICK t : UnderWay(late', t) /\ Due(kmarks', kq', t, due)
  BY <1>2, DueNotify
<1> QED
  BY <1>1, <1>2, <1>3 DEF Lagging, Started

\* A directory of the tree, the one it is in, and the name it has there.
LEMMA TreeDir ==
  ASSUME TypeInv, Started, Closed(loc, kmarks), NEW d \in Dirs, InTree(d)
  PROVE  /\ d \in DOMAIN kmarks /\ loc[d][1] \in DOMAIN kmarks /\ loc[d][1] \in Dirs \cup {Root}
         /\ loc[d][2] \in Names /\ InTree(loc[d][1])
<1>1. loc \in [Dirs -> Locations] /\ Root \in DOMAIN kmarks
  BY DEF TypeInv, Started
<1>2. Root \in AboveIn(loc, d)
  BY AboveNow DEF InTree
<1>3. loc[d][1] \in Dirs \cup {Root} /\ loc[d][2] \in Names /\ Root \in AboveIn(loc, loc[d][1])
  BY <1>1, <1>2, TreeParent
<1>4. d \in Nodes /\ loc[d][1] \in Nodes
  BY <1>3 DEF Nodes, Places
<1>5. InTree(loc[d][1])
  BY <1>3, AboveNow DEF InTree
<1> QED
  BY <1>1, <1>2, <1>3, <1>4, <1>5, TreeWatched

\* Notices in a row.
LEMMA ThreeOfThem ==
  ASSUME NEW x, NEW y, NEW z
  PROVE  Append(<<x>>, z) = <<x, z>> /\ Append(<<x, y>>, z) = <<x, y, z>>
<1> DEFINE S == {x, y, z}
<1>1. ASSUME NEW s \in Seq(S), NEW t \in Seq(S), Len(t) = Len(s) + 1, \A i \in 1..Len(s) : t[i] = s[i],
             t[Len(s) + 1] = z
      PROVE  Append(s, z) = t
  <2> DEFINE u == Append(s, z)
             m == Len(s)
  <2>1. m \in Nat /\ u \in Seq(S) /\ Len(u) = m + 1 /\ u[m + 1] = z /\ \A i \in 1..m : u[i] = s[i]
    BY AppendProperties, LenProperties
  <2>2. Len(t) = m + 1 /\ t[m + 1] = z /\ \A i \in 1..m : t[i] = s[i]
    BY <1>1
  <2> HIDE DEF u, m, S
  <2>3. \A i \in 1..(m + 1) : u[i] = t[i]
    <3>1. \A i \in 1..(m + 1) : i \in 1..m \/ i = m + 1
      BY <2>1
    <3> QED
      BY <2>1, <2>2, <3>1
  <2>4. u = t
    BY <2>1, <2>2, <2>3, SeqEqual
  <2> QED
    BY <2>4 DEF u
<1> DEFINE a == <<x>>
           b == <<x, z>>
           c == <<x, y>>
           d == <<x, y, z>>
<1>2. x \in S /\ y \in S /\ z \in S
  OBVIOUS
<1>3. 1..1 = {1} /\ 1..2 = {1, 2} /\ 1 + 1 = 2 /\ 2 + 1 = 3
  OBVIOUS
<1> HIDE DEF S
<1>4. Append(a, z) = b
  <2>1. a \in Seq(S) /\ Len(a) = 1 /\ a[1] = x
    BY <1>2
  <2>2. b \in Seq(S) /\ Len(b) = 2 /\ b[1] = x /\ b[2] = z
    BY <1>2
  <2> HIDE DEF a, b
  <2> QED
    BY <1>1, <1>3, <2>1, <2>2, ZenonT(40)
<1>5. Append(c, z) = d
  <2>1. c \in Seq(S) /\ Len(c) = 2 /\ c[1] = x /\ c[2] = y
    BY <1>2
  <2>2. d \in Seq(S) /\ Len(d) = 3 /\ d[1] = x /\ d[2] = y /\ d[3] = z
    BY <1>2
  <2> HIDE DEF c, d
  <2> QED
    BY <1>1, <1>3, <2>1, <2>2, ZenonT(40)
<1> QED
  BY <1>4, <1>5

\* A rename by one user: the events that tell of it are due.
LEMMA LaggingRename ==
  ASSUME TypeInv, Lagging, Idle, NEW d \in Dirs, NEW p \in Dirs \cup {Root}, NEW n \in Names, rename(d, p, n)
  PROVE  Lagging'
<1> DEFINE locked == {loc[d][1], p}
           x == MovedFrom(d, locked)
           y == MovedTo(p, n, locked)
           z == Notice(d, "other", 0, locked)
           s == late'[d]
<1>1. /\ InTree(d) /\ InTree(p) /\ d \notin Above(p) /\ Vacant(p, n)
      /\ loc' = [loc EXCEPT ![d] = <<p, n>>]
      /\ UNCHANGED <<kmarks, kq, knext, reg, moved_from, scan>>
  BY DEF rename, Operation, toolvars
<1>2. Started /\ Closed(loc, kmarks) /\ Lags(loc, kmarks, kq, reg, moved_from) /\ kq \in Seq(KernelEvents)
  BY DueIdle DEF Lagging, TypeInv, KernelOK
<1>3. {d, loc[d][1]} \subseteq DOMAIN kmarks /\ loc[d][2] \in Names
  BY <1>1, <1>2, TreeDir
<1>4. p \in DOMAIN kmarks
  <2>1. Root \in AboveIn(loc, p) /\ p \in Nodes /\ Root \in DOMAIN kmarks
    BY <1>1, <1>2, AboveNow DEF InTree, Nodes, Places, Started
  <2> QED
    BY <1>2, <2>1, TreeWatched DEF TypeInv
<1> DEFINE a == Event(kmarks[loc[d][1]], "moved_from", loc[d][2])
           b == Event(kmarks[p], "moved_to", n)
           c == Event(kmarks[d], "other", 0)
<1>5. a \in KernelEvents /\ b \in KernelEvents /\ c \in KernelEvents /\ c.kind = "other"
  <2>1. \A e \in DOMAIN kmarks : kmarks[e] \in Nat \ {0}
    BY DEF TypeInv, KernelOK
  <2>2. \A k \in Names : k \in Names \cup {0} /\ k # 0
    BY RecursiveNamesAssumption
  <2>3. \A e \in DOMAIN kmarks, k \in Names, kind \in {"moved_from", "moved_to"} :
          Event(kmarks[e], kind, k) \in KernelEvents
    BY <2>1, <2>2, EventType
  <2>4. \A e \in DOMAIN kmarks : Event(kmarks[e], "other", 0) \in KernelEvents
    BY <2>1, EventType
  <2>5. c.kind = "other"
    BY DEF Event
  <2> QED
    BY <1>3, <1>4, <2>3, <2>4, <2>5
<1>6. /\ s \in {<<x, y>>, <<x, y, z>>} /\ UnderWay(late', s)
      /\ x.dir = loc[d][1] /\ a = Event(kmarks[x.dir], x.kind, x.name)
      /\ y.dir = p /\ b = Event(kmarks[y.dir], y.kind, y.name)
      /\ z.dir = d /\ c = Event(kmarks[z.dir], z.kind, z.name)
  <2>1. late' = [late EXCEPT ![d] = WithSelf(d, locked, <<x, y>>)]
    BY DEF rename, Operation
  <2>2. late \in [Dirs -> Seq(Notices)] /\ \A e \in Dirs : late[e] = << >>
    BY DEF TypeInv, Idle
  <2>3. s = WithSelf(d, locked, <<x, y>>) /\ \A e \in Dirs : e # d => late'[e] = << >>
    BY <2>1, <2>2
  <2>4. UnderWay(late', s)
    BY <2>3, OneUnderWay
  <2>5. Append(<<x, y>>, z) = <<x, y, z>>
    BY ThreeOfThem
  <2>6. s \in {<<x, y>>, <<x, y, z>>}
    BY <2>3, <2>5 DEF WithSelf
  <2>7. /\ x.dir = loc[d][1] /\ x.kind = "moved_from" /\ x.name = loc[d][2]
        /\ y.dir = p /\ y.kind = "moved_to" /\ y.name = n
        /\ z.dir = d /\ z.kind = "other" /\ z.name = 0
    BY DEF MovedFrom, MovedTo, Notice
  <2> QED
    BY <2>4, <2>6, <2>7
<1> HIDE DEF a, b, c, x, y, z, s
<1> DEFINE t == Append(Append(kq, a), b)
           u == Append(t, c)
<1>7. Due(kmarks, kq, <<x, y>>, t) /\ Due(kmarks, kq, <<x, y, z>>, u) /\ t \in Seq(KernelEvents)
  <2> DEFINE r == Append(kq, a)
             m == Len(kq)
  <2>1. m \in Nat /\ r \in Seq(KernelEvents) /\ Len(r) = m + 1 /\ r[m + 1] = a /\ \A i \in 1..m : r[i] = kq[i]
    BY <1>2, <1>5, AppendProperties, LenProperties
  <2> HIDE DEF r
  <2>2. /\ t \in Seq(KernelEvents) /\ Len(t) = (m + 1) + 1 /\ t[(m + 1) + 1] = b
        /\ \A i \in 1..(m + 1) : t[i] = r[i]
    BY <1>5, <2>1, AppendProperties DEF r
  <2> HIDE DEF t
  <2>3. /\ u \in Seq(KernelEvents) /\ Len(u) = ((m + 1) + 1) + 1 /\ u[((m + 1) + 1) + 1] = c
        /\ \A i \in 1..((m + 1) + 1) : u[i] = t[i]
    BY <1>5, <2>2, AppendProperties
  <2> HIDE DEF u, m
  <2>4. t[m + 1] = a /\ t[m + 2] = b /\ Len(t) = m + 2 /\ \A i \in 1..m : t[i] = kq[i]
    <3>1. m + 1 \in 1..(m + 1) /\ (m + 1) + 1 = m + 2 /\ \A i \in 1..m : i \in 1..(m + 1)
      BY <2>1
    <3> QED
      BY <2>1, <2>2, <3>1
  <2>5. u[m + 1] = a /\ u[m + 2] = b /\ u[m + 3] = c /\ Len(u) = m + 3 /\ \A i \in 1..m : u[i] = kq[i]
    <3>1. /\ {m + 1, m + 2} \subseteq 1..((m + 1) + 1) /\ ((m + 1) + 1) + 1 = m + 3
          /\ \A i \in 1..m : i \in 1..((m + 1) + 1)
      BY <2>1
    <3> QED
      BY <2>3, <2>4, <3>1
  <2>6. /\ Len(<<x, y>>) = 2 /\ <<x, y>>[1] = x /\ <<x, y>>[2] = y
        /\ Len(<<x, y, z>>) = 3 /\ <<x, y, z>>[1] = x /\ <<x, y, z>>[2] = y /\ <<x, y, z>>[3] = z
        /\ 1..2 = {1, 2} /\ 1..3 = {1, 2, 3}
    OBVIOUS
  <2>7. x.dir \in DOMAIN kmarks /\ y.dir \in DOMAIN kmarks /\ z.dir \in DOMAIN kmarks
    BY <1>3, <1>4, <1>6
  <2> DEFINE xy == <<x, y>>
             xyz == <<x, y, z>>
  <2>8. /\ Len(xy) = 2 /\ xy[1] = x /\ xy[2] = y /\ Len(kq) = m
        /\ Len(xyz) = 3 /\ xyz[1] = x /\ xyz[2] = y /\ xyz[3] = z
    BY <2>6 DEF m
  <2> HIDE DEF xy, xyz
  <2>9. Due(kmarks, kq, xy, t)
    <3>1. \A i \in 1..Len(xy) : xy[i].dir \in DOMAIN kmarks /\ t[m + i] = Event(kmarks[xy[i].dir], xy[i].kind, xy[i].name)
      BY <1>6, <2>4, <2>6, <2>7, <2>8
    <3> QED
      BY <2>2, <2>4, <2>8, <3>1 DEF Due
  <2>10. Due(kmarks, kq, xyz, u)
    <3>1. \A i \in 1..Len(xyz) : xyz[i].dir \in DOMAIN kmarks /\ u[m + i] = Event(kmarks[xyz[i].dir], xyz[i].kind, xyz[i].name)
      BY <1>6, <2>5, <2>6, <2>7, <2>8
    <3> QED
      BY <2>3, <2>5, <2>8, <3>1 DEF Due
  <2> QED
    BY <2>2, <2>9, <2>10 DEF xy, xyz
<1> DEFINE m == loc'
<1>8. /\ loc \in [Dirs -> Locations] /\ m \in [Dirs -> Locations]
      /\ Distinct(loc) /\ Distinct(m)
  <2>1. Distinct(loc)
    <3>1. PICK v : Mirror(v, kmarks, kq, reg, moved_from) /\ v[Len(kq) + 1] = loc
      BY <1>2 DEF Lags
    <3> DEFINE k == Len(kq)
    <3>2. k \in Nat /\ v[k + 1] = loc /\ \A i \in 1..(k + 1) : Distinct(v[i])
      BY <1>2, <3>1, LenProperties DEF Mirror
    <3> HIDE DEF k
    <3>3. k + 1 \in 1..(k + 1)
      BY <3>2
    <3> QED
      BY <3>2, <3>3
  <2>2. Distinct(m)
    BY <1>1, <2>1, DistinctKept DEF TypeInv
  <2>3. m \in [Dirs -> Locations]
    BY <1>1 DEF TypeInv, Locations
  <2> QED
    BY <2>1, <2>2, <2>3 DEF TypeInv
<1>9. Moves(loc, m, d, p, n)
  BY <1>1, AboveNow DEF Moves, InTree, Vacant, IsAt
<1> HIDE DEF m
<1>10. Lags(m, kmarks, t, reg, moved_from)
  BY <1>2, <1>3, <1>4, <1>5, <1>8, <1>9, MirrorMove DEF a, b
<1> HIDE DEF t
<1>11. Lags(m, kmarks, u, reg, moved_from)
  BY <1>5, <1>7, <1>10, MirrorOther
<1> HIDE DEF u
<1>12. Closed(m, kmarks)
  <2>1. \A e \in Dirs : e # d => m[e] = loc[e]
    BY <1>1 DEF m, TypeInv
  <2> QED
    BY <1>2, <1>3, <2>1 DEF Closed
<1>13. \E i, due : UnderWay(late', i) /\ Due(kmarks', kq', i, due) /\ Lags(m, kmarks, due, reg, moved_from)
  <2>1. CASE s = <<x, y>>
    BY <1>1, <1>6, <1>7, <1>10, <2>1
  <2>2. CASE s = <<x, y, z>>
    BY <1>1, <1>6, <1>7, <1>11, <2>2
  <2> QED
    BY <1>6, <2>1, <2>2
<1> QED
  BY <1>1, <1>2, <1>12, <1>13 DEF Lagging, Started, m

(***************************************************************************)
(* A directory is moved out of the tree.                                   *)
(***************************************************************************)

\* What is left of the marks and of the registry without the watch of d.
Unmarked(km, d) == [e \in {x \in DOMAIN km : km[x] # km[d]} |-> km[e]]
Unwatched(r, km, d) == DestroyWatch(r, r.by_wd[km[d]])

\* The other directories keep their names.
LEMMA DestroyNames ==
  ASSUME NEW l, NEW km, NEW r, Sound(r), Named(l, km, r), Filed(km, r), NEW d \in DOMAIN km
  PROVE  LET rest == Unmarked(km, d)
             x == Unwatched(r, km, d)
         IN  /\ DOMAIN rest = DOMAIN km \ {d} /\ \A e \in DOMAIN rest : rest[e] = km[e]
             /\ DOMAIN x.by_wd \subseteq DOMAIN r.by_wd
             /\ \A e \in DOMAIN rest : rest[e] \in DOMAIN x.by_wd /\ NameOf(x, rest[e]) = NameOf(r, km[e])
             /\ Filed(rest, x)
<1> DEFINE rest == Unmarked(km, d)
           x == Unwatched(r, km, d)
           id == r.by_wd[km[d]]
           w == r.watches[id]
           W == Drop(r.watches, id)
           D == Drop(r.by_wd, w.wd)
           N == Drop(r.by_filename, w.filename)
<1>1. x.watches = W /\ x.by_wd = D /\ x.by_filename = N
  BY DEF DestroyWatch, Unwatched
<1>2. DOMAIN W = DOMAIN r.watches \ {id} /\ \A y \in DOMAIN W : W[y] = r.watches[y]
  BY DEF Drop
<1>3. DOMAIN D = DOMAIN r.by_wd \ {w.wd} /\ \A y \in DOMAIN D : D[y] = r.by_wd[y]
  BY DEF Drop
<1>4. DOMAIN N = DOMAIN r.by_filename \ {w.filename} /\ \A y \in DOMAIN N : N[y] = r.by_filename[y]
  BY DEF Drop
<1>5. \A e \in DOMAIN km : km[e] \in DOMAIN r.by_wd /\ ResolveIn(l, NameOf(r, km[e])) = e
  BY DEF Named, NameOf
<1>6. \A e, c \in DOMAIN km : km[e] = km[c] \/ NameOf(r, km[e]) = NameOf(r, km[c]) => e = c
  BY <1>5
<1>7. \A e \in DOMAIN km : r.by_wd[km[e]] \in DOMAIN r.watches /\ r.watches[r.by_wd[km[e]]].wd = km[e]
  BY <1>5 DEF Sound
<1>8. w.wd = km[d] /\ w.filename = NameOf(r, km[d])
  BY <1>7 DEF NameOf
<1>9. DOMAIN rest = DOMAIN km \ {d} /\ \A e \in DOMAIN rest : rest[e] = km[e]
  BY <1>6 DEF Unmarked
<1>10. \A e \in DOMAIN rest : r.by_wd[km[e]] # id /\ km[e] # km[d] /\ NameOf(r, km[e]) # NameOf(r, km[d])
  BY <1>6, <1>7, <1>9
<1> HIDE DEF W, D, N, w, id, rest, x
<1>11. ASSUME NEW e \in DOMAIN rest
       PROVE  /\ rest[e] \in DOMAIN D /\ D[rest[e]] = r.by_wd[km[e]]
              /\ W[D[rest[e]]] = r.watches[r.by_wd[km[e]]]
  BY <1>2, <1>3, <1>5, <1>7, <1>8, <1>9, <1>10
<1>12. ASSUME NEW e \in DOMAIN rest
       PROVE  rest[e] \in DOMAIN x.by_wd /\ NameOf(x, rest[e]) = NameOf(r, km[e])
  BY <1>1, <1>11 DEF NameOf
<1>13. Filed(rest, x)
  <2>1. ASSUME NEW e \in DOMAIN rest
        PROVE  NameOf(x, rest[e]) \in DOMAIN N /\ N[NameOf(x, rest[e])] = D[rest[e]]
    <3> DEFINE f == NameOf(r, km[e])
    <3>1. f \in DOMAIN r.by_filename /\ r.by_filename[f] = r.by_wd[km[e]] /\ f # w.filename
      BY <1>8, <1>9, <1>10 DEF Filed
    <3>2. NameOf(x, rest[e]) = f
      BY <1>12
    <3> HIDE DEF f
    <3> QED
      BY <1>4, <1>11, <3>1, <3>2
  <2>2. ASSUME NEW f \in DOMAIN N PROVE \E e \in DOMAIN rest : N[f] = D[rest[e]]
    <3>1. f \in DOMAIN r.by_filename /\ f # w.filename /\ N[f] = r.by_filename[f]
      BY <1>4
    <3>2. PICK e \in DOMAIN km : r.by_filename[f] = r.by_wd[km[e]]
      BY <3>1 DEF Filed
    <3>3. r.watches[r.by_wd[km[e]]].filename = f
      BY <3>1, <3>2 DEF Sound
    <3>4. e # d
      BY <3>1, <3>3 DEF w, id
    <3> QED
      BY <1>9, <1>11, <3>1, <3>2, <3>4
  <2> QED
    BY <1>1, <2>1, <2>2 DEF Filed
<1>14. DOMAIN x.by_wd \subseteq DOMAIN r.by_wd
  BY <1>1, <1>3
<1> QED
  BY <1>9, <1>12, <1>13, <1>14 DEF rest, x

\* d has been moved out of the tree l, the rest of which is as it was.
Gone(l, d) ==
  /\ l \in [Dirs -> Locations] /\ Distinct(l) /\ d \in Dirs /\ d \in DOMAIN kmarks
  /\ l[d][1] \in DOMAIN kmarks /\ l[d][2] \in Names /\ \A e \in Dirs : l[e][1] # d
  /\ loc = [l EXCEPT ![d] = <<Out, 0>>]
  /\ Named(l, kmarks, reg) /\ Filed(kmarks, reg)

\* The events due tell of it, or the tool remembers its name already.
ToldGone(l, d, due) ==
  \/ /\ moved_from = << >>
     /\ due = <<Event(kmarks[l[d][1]], "moved_from", l[d][2]), Event(kmarks[d], "other", 0)>>
  \/ moved_from = NameOf(reg, kmarks[d]) /\ due = <<Event(kmarks[d], "other", 0)>>

\* The tool has not yet removed the watch of a directory that left.
Leaving ==
  /\ mode.quiet /\ Started /\ scan = << >> /\ DOMAIN reg.by_wd \subseteq 1..(knext - 1)
  /\ Closed(loc, kmarks)
  /\ \E l, d, s, due :
       Gone(l, d) /\ UnderWay(late, s) /\ Due(kmarks, kq, s, due) /\ ToldGone(l, d, due)

\* A directory with none in it is moved out.
LEMMA LeavingStarts ==
  ASSUME TypeInv, Lagging, Quiescent, mode.quiet, mode.move_self,
         NEW d \in Dirs, moveout(d), Children(d) = {}, mode' = mode
  PROVE  Leaving'
<1> DEFINE locked == {loc[d][1]}
           x == MovedFrom(d, locked)
           z == Notice(d, "other", 0, locked)
<1>1. /\ InTree(d) /\ loc' = [loc EXCEPT ![d] = <<Out, 0>>]
      /\ late' = [late EXCEPT ![d] = WithSelf(d, locked, <<x>>)]
      /\ UNCHANGED <<kmarks, kq, knext, reg, moved_from, scan>>
  BY DEF moveout, Operation, toolvars
<1>2. Started /\ Closed(loc, kmarks) /\ kq = << >> /\ Idle
  BY DEF Lagging, Quiescent
<1>3. d \in DOMAIN kmarks /\ loc[d][1] \in DOMAIN kmarks /\ loc[d][2] \in Names
  BY <1>1, <1>2, TreeDir
<1>4. Distinct(loc) /\ Named(loc, kmarks, reg) /\ Filed(kmarks, reg) /\ moved_from = << >>
  BY <1>2, LaggingSettled DEF Scanning, Sync
<1> DEFINE a == Event(kmarks[loc[d][1]], "moved_from", loc[d][2])
           c == Event(kmarks[d], "other", 0)
           s == <<x, z>>
           due == <<a, c>>
<1>5. UnderWay(late', s)
  <2>1. Append(<<x>>, z) = s
    BY ThreeOfThem
  <2>2. late'[d] = s /\ \A e \in Dirs : e # d => late'[e] = << >>
    BY <1>1, <1>2, <2>1 DEF WithSelf, TypeInv, Idle
  <2> HIDE DEF s
  <2> QED
    BY <2>2, OneUnderWay
<1>6. Due(kmarks, << >>, s, due)
  <2>1. /\ x.dir = loc[d][1] /\ a = Event(kmarks[x.dir], x.kind, x.name)
        /\ z.dir = d /\ c = Event(kmarks[z.dir], z.kind, z.name)
    BY DEF MovedFrom, Notice
  <2>2. a \in KernelEvents /\ c \in KernelEvents
    <3>1. \A e \in DOMAIN kmarks : kmarks[e] \in Nat \ {0}
      BY DEF TypeInv, KernelOK
    <3>2. loc[d][2] \in Names \cup {0} /\ loc[d][2] # 0
      BY <1>3, RecursiveNamesAssumption
    <3> QED
      BY <1>3, <3>1, <3>2, EventType
  <2> HIDE DEF x, z, a, c
  <2>3. /\ Len(s) = 2 /\ s[1] = x /\ s[2] = z /\ due \in Seq(KernelEvents) /\ Len(due) = 2
        /\ due[1] = a /\ due[2] = c
    BY <2>2
  <2>4. Len(<< >>) = 0 /\ 1..2 = {1, 2} /\ 1..0 = {} /\ 0 + 1 = 1 /\ 0 + 2 = 2
    OBVIOUS
  <2>5. x.dir \in DOMAIN kmarks /\ z.dir \in DOMAIN kmarks
    BY <1>3, <2>1
  <2> HIDE DEF s, due
  <2> QED
    BY <2>1, <2>3, <2>4, <2>5 DEF Due
<1> HIDE DEF s
<1>7. PICK l, t, u : l = loc /\ t = s /\ u = due
  OBVIOUS
<1>8. Gone(l, d)' /\ UnderWay(late', t) /\ Due(kmarks', kq', t, u) /\ ToldGone(l, d, u)'
  <2>1. \A e \in Dirs : loc[e][1] # d
    BY DEF Children
  <2>2. Gone(l, d)'
    BY <1>1, <1>3, <1>4, <1>7, <2>1 DEF Gone, TypeInv
  <2>3. ToldGone(l, d, u)'
    BY <1>1, <1>4, <1>7 DEF ToldGone
  <2> QED
    BY <1>1, <1>2, <1>5, <1>6, <1>7, <2>2, <2>3
<1>9. Closed(loc', kmarks')
  <2>1. Out \notin DOMAIN kmarks
    BY PlacesAssumption DEF TypeInv, KernelOK, Places
  <2> QED
    BY <1>1, <1>2, <2>1 DEF Closed, TypeInv
<1>10. (\E k, c1, s1, due1 :
          Gone(k, c1) /\ UnderWay(late, s1) /\ Due(kmarks, kq, s1, due1) /\ ToldGone(k, c1, due1))'
  BY <1>8
<1> QED
  BY <1>1, <1>2, <1>9, <1>10 DEF Leaving, Lagging, Started

\* The kernel tells of it.
LEMMA LeavingNotify ==
  ASSUME TypeInv, Leaving, NEW d \in Dirs, Notify(d)
  PROVE  Leaving'
<1>1. UNCHANGED <<loc, mode, kmarks, knext, reg, moved_from, scan>>
  BY DEF Notify, toolvars
<1>2. PICK l, c, s, due : Gone(l, c) /\ UnderWay(late, s) /\ Due(kmarks, kq, s, due) /\ ToldGone(l, c, due)
  BY DEF Leaving
<1>3. PICK t : UnderWay(late', t) /\ Due(kmarks', kq', t, due)
  BY <1>2, DueNotify
<1>4. Gone(l, c)' /\ ToldGone(l, c, due)'
  BY <1>1, <1>2 DEF Gone, ToldGone
<1>5. (\E k, c1, s1, due1 :
         Gone(k, c1) /\ UnderWay(late, s1) /\ Due(kmarks, kq, s1, due1) /\ ToldGone(k, c1, due1))'
  BY <1>3, <1>4
<1> QED
  BY <1>1, <1>5 DEF Leaving, Started

\* IN_MOVED_FROM: the tool remembers the name of the directory that left.
LEMMA LeavingFrom ==
  ASSUME TypeInv, Leaving, HandleMovedFrom, mode' = mode, NEW l, NEW d, Gone(l, d), moved_from = << >>,
         kq # << >>, NEW s, UnderWay(late, s), NEW due, Due(kmarks, kq, s, due),
         due = <<Event(kmarks[l[d][1]], "moved_from", l[d][2]), Event(kmarks[d], "other", 0)>>
  PROVE  Leaving'
<1> DEFINE p == l[d][1]
           n == l[d][2]
           a == Event(kmarks[p], "moved_from", n)
           c == Event(kmarks[d], "other", 0)
<1>1. /\ LeaveTree(reg') /\ UNCHANGED <<loc, late, mode, knext, scan>>
      /\ moved_from' = IF DirPath(reg') \in DOMAIN reg'.by_filename THEN DirPath(reg') ELSE << >>
  BY DEF HandleMovedFrom, Receives, fsvars
<1>2. E = a /\ Tail(due) = <<c>> /\ Due(kmarks, Tail(kq), s, Tail(due))
  <2>1. due = <<a, c>>
    OBVIOUS
  <2> HIDE DEF a, c
  <2>2. <<a, c>>[1] = a /\ Tail(<<a, c>>) = <<c>>
    OBVIOUS
  <2> QED
    BY <2>1, <2>2, DueFirst
<1>3. reg' = reg /\ kmarks' = kmarks /\ kq' = Tail(kq)
  BY <1>1, LeaveNone
<1>4. /\ l \in [Dirs -> Locations] /\ Distinct(l) /\ d \in Dirs /\ d \in DOMAIN kmarks /\ p \in DOMAIN kmarks
      /\ n \in Names /\ Named(l, kmarks, reg) /\ Filed(kmarks, reg)
  BY DEF Gone
<1>5. l[d] = <<p, n>>
  <2>1. l[d] \in Locations
    BY <1>4
  <2> QED
    BY <2>1 DEF Locations
<1>6. DirPath(reg) = Append(NameOf(reg, kmarks[p]), n)
  <2>1. E.wd = kmarks[p] /\ E.name = n
    BY <1>2 DEF Event
  <2>2. kmarks[p] \in DOMAIN reg.by_wd
    BY <1>4 DEF Named
  <2> QED
    BY <2>1, <2>2 DEF DirPath, NameOf
<1>7. Sound(reg) /\ DOMAIN kmarks \subseteq Dirs \cup {Root}
  BY DEF TypeInv, KernelOK
<1> HIDE DEF p, n, a
<1>8. DirPath(reg) = NameOf(reg, kmarks[d]) /\ NameOf(reg, kmarks[d]) \in DOMAIN reg.by_filename
  BY <1>4, <1>5, <1>6, <1>7, FromName
<1>9. moved_from' = NameOf(reg, kmarks[d])
  <2>1. moved_from' = IF DirPath(reg) \in DOMAIN reg.by_filename THEN DirPath(reg) ELSE << >>
    BY <1>1, <1>3 DEF DirPath
  <2> QED
    BY <1>8, <2>1
<1> DEFINE rest == Tail(due)
<1>10. Gone(l, d)' /\ UnderWay(late', s) /\ Due(kmarks', kq', s, rest)
  BY <1>1, <1>2, <1>3 DEF Gone, UnderWay, Idle
<1>11. ToldGone(l, d, rest)'
  BY <1>1, <1>2, <1>3, <1>9 DEF ToldGone
<1> HIDE DEF rest
<1>12. (\E k, c1, s1, due1 :
          Gone(k, c1) /\ UnderWay(late, s1) /\ Due(kmarks, kq, s1, due1) /\ ToldGone(k, c1, due1))'
  BY <1>10, <1>11
<1> QED
  BY <1>1, <1>3, <1>12 DEF Leaving, Started

\* The next event: the watch is removed, and the kernel says so.
LEMMA LeavingOther ==
  ASSUME TypeInv, Leaving, HandleOther, NEW l, NEW d, Gone(l, d),
         kq # << >>, NEW s, UnderWay(late, s), NEW due, Due(kmarks, kq, s, due),
         moved_from = NameOf(reg, kmarks[d]), due = <<Event(kmarks[d], "other", 0)>>
  PROVE  Lagging'
<1> DEFINE c == Event(kmarks[d], "other", 0)
           id == reg.by_wd[kmarks[d]]
           rest == Unmarked(kmarks, d)
           r == Unwatched(reg, kmarks, d)
<1>0. Tail(kq) = << >> /\ s = << >>
  <2> DEFINE j == Len(kq)
             k == Len(s)
  <2>1. kq \in Seq(KernelEvents) /\ s \in Seq(Notices)
    BY EmptySeq DEF TypeInv, KernelOK, UnderWay
  <2>2. j \in Nat \ {0} /\ k \in Nat
    BY <2>1, LenProperties, EmptySeq
  <2>3. j + k = 1
    <3>1. Len(due) = 1
      <4> HIDE DEF c
      <4>1. Len(<<c>>) = 1
        OBVIOUS
      <4> QED
        BY <4>1 DEF c
    <3> QED
      BY <3>1 DEF Due
  <2>4. Len(Tail(kq)) = j - 1 /\ Tail(kq) \in Seq(KernelEvents)
    BY <2>1, HeadTailProperties
  <2> HIDE DEF j
  <2>5. k = 0 /\ j - 1 = 0
    BY <2>2, <2>3
  <2> QED
    BY <2>1, <2>4, <2>5, EmptySeq
<1>1. LeaveTree(reg') /\ UNCHANGED <<loc, late, knext, scan>> /\ moved_from' = << >>
  BY DEF HandleOther, fsvars
<1>2. /\ l \in [Dirs -> Locations] /\ Distinct(l) /\ d \in Dirs /\ d \in DOMAIN kmarks
      /\ \A e \in Dirs : l[e][1] # d
      /\ loc = [l EXCEPT ![d] = <<Out, 0>>] /\ Named(l, kmarks, reg) /\ Filed(kmarks, reg)
  BY DEF Gone
<1>3. Sound(reg) /\ DOMAIN kmarks \subseteq Dirs \cup {Root}
  BY DEF TypeInv, KernelOK
<1>4. /\ moved_from # << >> /\ moved_from \in DOMAIN reg.by_filename /\ LeftWatch = id
      /\ kmarks[d] \in DOMAIN reg.by_wd /\ reg.watches[id].wd = kmarks[d]
  <2>1. IsPath(NameOf(reg, kmarks[d]))
    BY <1>2, <1>3, FiledLeads
  <2>2. moved_from \in DOMAIN reg.by_filename /\ LeftWatch = id
    BY <1>2 DEF Filed, LeftWatch
  <2>3. kmarks[d] \in DOMAIN reg.by_wd
    BY <1>2 DEF Named
  <2>4. reg.watches[id].wd = kmarks[d]
    BY <1>3, <2>3 DEF Sound
  <2> QED
    BY <2>1, <2>2, <2>3, <2>4 DEF IsPath
<1>5. LeftMarked
  BY <1>2, <1>4 DEF LeftMarked, LeftFiled
<1>6. kmarks' = rest /\ reg' = r /\ kq' = Tail(kq) \o <<c>>
  <2> DEFINE wd == reg.watches[LeftWatch].wd
  <2>1. /\ kq' = Tail(kq) \o <<Event(wd, "other", 0)>>
        /\ kmarks' = [x \in {y \in DOMAIN kmarks : kmarks[y] # wd} |-> kmarks[x]]
        /\ reg' = DestroyWatch(reg, LeftWatch)
    BY <1>1, <1>5 DEF LeaveTree, RegAfterLeave
  <2>2. wd = kmarks[d]
    BY <1>4
  <2> HIDE DEF wd
  <2> QED
    BY <1>4, <2>1, <2>2 DEF Unmarked, Unwatched
<1>7. kq' = Append(<< >>, c)
  <2>2. << >> \in Seq({c}) /\ c \in {c}
    OBVIOUS
  <2> HIDE DEF c
  <2> QED
    BY <1>0, <1>6, <2>2, AppendIsConcat
<1> HIDE DEF rest, r
<1>8. /\ \A e \in DOMAIN rest : rest[e] = kmarks[e]
      /\ DOMAIN rest = DOMAIN kmarks \ {d}
      /\ DOMAIN r.by_wd \subseteq DOMAIN reg.by_wd
      /\ \A e \in DOMAIN rest : rest[e] \in DOMAIN r.by_wd /\ NameOf(r, rest[e]) = NameOf(reg, kmarks[e])
      /\ Filed(rest, r)
  <2>1. Sound(reg) /\ Named(l, kmarks, reg) /\ Filed(kmarks, reg) /\ d \in DOMAIN kmarks
    BY <1>2, <1>3
  <2>2. LET x == Unmarked(kmarks, d)
            y == Unwatched(reg, kmarks, d)
        IN  /\ DOMAIN x = DOMAIN kmarks \ {d} /\ \A e \in DOMAIN x : x[e] = kmarks[e]
            /\ DOMAIN y.by_wd \subseteq DOMAIN reg.by_wd
            /\ \A e \in DOMAIN x : x[e] \in DOMAIN y.by_wd /\ NameOf(y, x[e]) = NameOf(reg, kmarks[e])
            /\ Filed(x, y)
    BY <2>1, DestroyNames
  <2> QED
    BY <2>2 DEF rest, r
<1>9. Distinct(loc) /\ \A e \in Dirs : e # d => loc[e] = l[e]
  BY <1>2 DEF Distinct
<1>10. Named(loc, rest, r)
  <2> SUFFICES ASSUME NEW e \in DOMAIN rest
               PROVE  rest[e] \in DOMAIN r.by_wd /\ ResolveIn(loc, NameOf(r, rest[e])) = e
    BY DEF Named, NameOf
  <2> DEFINE f == NameOf(reg, kmarks[e])
  <2>1. IsPath(f) /\ ResolveIn(l, f) = e
    BY <1>2, <1>3, <1>8, FiledLeads
  <2>2. e # d /\ e # Dead
    BY <1>3, <1>8, PlacesAssumption DEF Places
  <2>3. rest[e] \in DOMAIN r.by_wd /\ NameOf(r, rest[e]) = f
    BY <1>8
  <2> HIDE DEF f
  <2>4. ResolveIn(l, f) \notin {Dead, d}
    BY <2>1, <2>2
  <2>5. ResolveIn(loc, f) = ResolveIn(l, f)
    <3>1. /\ l \in [Dirs -> Locations] /\ Distinct(loc) /\ d \in Dirs
          /\ (\A e1 \in Dirs : e1 # d => loc[e1] = l[e1]) /\ (\A e1 \in Dirs : l[e1][1] # d)
      BY <1>2, <1>9
    <3> QED
      BY <2>1, <2>4, <3>1, ResolveKept
  <2> QED
    BY <2>1, <2>3, <2>5
<1>11. c \in KernelEvents /\ c.kind = "other"
  BY <1>2, EventType DEF TypeInv, KernelOK, Event
<1>12. Lags(loc, rest, kq', r, << >>) /\ kq' \in Seq(KernelEvents)
  <2>1. Lags(loc, rest, << >>, r, << >>)
    BY <1>8, <1>9, <1>10, NothingLags DEF TypeInv
  <2>2. << >> \in Seq(KernelEvents)
    OBVIOUS
  <2> HIDE DEF c
  <2> QED
    BY <1>7, <1>11, <2>1, <2>2, MirrorOther, AppendProperties
<1>13. Closed(loc, rest)
  <2>1. Closed(loc, kmarks)
    BY DEF Leaving
  <2>2. Out \notin DOMAIN kmarks /\ loc[d][1] = Out
    BY <1>2, <1>3, PlacesAssumption DEF Places
  <2> QED
    BY <1>8, <2>1, <2>2 DEF Closed
<1>14. Root \in DOMAIN rest
  <2>1. Root # d /\ Root \in DOMAIN kmarks
    BY <1>2, PlacesAssumption DEF Places, Leaving, Started
  <2> QED
    BY <1>8, <2>1
<1>15. UnderWay(late', s) /\ Due(rest, kq', s, kq')
  BY <1>0, <1>1, <1>12, DueQueue DEF UnderWay, Idle
<1> QED
  BY <1>1, <1>6, <1>8, <1>12, <1>13, <1>14, <1>15 DEF Lagging, Leaving, Started

\* The tool sees that a directory has left, and then removes its watch.
LEMMA LeavingTool ==
  ASSUME TypeInv, Leaving, NoFilter, Tool, mode' = mode
  PROVE  Leaving' \/ Lagging'
<1>1. PICK l, d, s, due : Gone(l, d) /\ UnderWay(late, s) /\ Due(kmarks, kq, s, due) /\ ToldGone(l, d, due)
  BY DEF Leaving
<1> DEFINE a == Event(kmarks[l[d][1]], "moved_from", l[d][2])
           c == Event(kmarks[d], "other", 0)
<1>2. scan = << >>
  BY DEF Leaving
<1>3. kq # << >> /\ due[1] = E
  BY <1>1, <1>2, NothingFiltered, DueFirst
<1>4. HandleCreate \/ HandleMovedFrom \/ HandleOther \/ HandleMovedIn \/ HandleMovedTo
  BY <1>2, NothingFiltered
<1>5. CASE moved_from = << >> /\ due = <<a, c>>
  <2>1. E = a
    <3>1. due = <<a, c>>
      BY <1>5
    <3> HIDE DEF a, c
    <3> QED
      BY <1>3, <3>1
  <2>2. E.kind = "moved_from"
    BY <2>1 DEF Event
  <2>3. HandleMovedFrom
    BY <1>4, <2>2 DEF HandleCreate, HandleOther, HandleMovedIn, HandleMovedTo, Receives
  <2> QED
    BY <1>1, <1>3, <1>5, <2>3, LeavingFrom
<1>6. CASE moved_from = NameOf(reg, kmarks[d]) /\ due = <<c>>
  <2>1. E = c
    <3>1. due = <<c>>
      BY <1>6
    <3> HIDE DEF c
    <3> QED
      BY <1>3, <3>1
  <2>2. E.kind = "other"
    BY <2>1 DEF Event
  <2>3. HandleOther
    BY <1>4, <2>2 DEF HandleCreate, HandleMovedFrom, HandleMovedIn, HandleMovedTo, Receives
  <2> QED
    BY <1>1, <1>3, <1>6, <2>3, LeavingOther
<1> QED
  BY <1>1, <1>5, <1>6 DEF ToldGone

\* A directory is not in itself.
LEMMA NotInItself ==
  ASSUME NEW l \in [Dirs -> Locations], NEW d \in Dirs, NEW f, IsPath(f), ResolveIn(l, f) = d
  PROVE  l[d][1] # d
<1> SUFFICES ASSUME l[d][1] = d PROVE FALSE
  OBVIOUS
<1>1. d # Root /\ d # Dead
  BY PlacesAssumption DEF Places
<1>2. f # <<RootName>>
  BY <1>1, ResolveSteps
<1>3. PICK q, n : IsPath(q) /\ n \in Names /\ f = Append(q, n)
  BY <1>2, PathCases
<1>4. ResolveIn(l, q) = d
  <2>1. ResolveIn(l, Append(q, n)) = d
    BY <1>3
  <2>2. l[d] = <<ResolveIn(l, q), n>>
    BY <1>1, <1>3, <2>1, EntryAt
  <2> QED
    BY <2>2
<1>5. q = f
  BY <1>1, <1>3, <1>4, OnePath
<1> DEFINE m == Len(q)
<1>6. m \in Nat \ {0} /\ Len(Append(q, n)) = m + 1
  BY <1>3, PathAppend
<1>7. m = m + 1
  <2> HIDE DEF m
  <2>1. Len(f) = m + 1
    BY <1>3, <1>6
  <2> QED
    BY <1>5, <2>1 DEF m
<1> HIDE DEF m
<1> QED
  BY <1>6, <1>7

(***************************************************************************)
(* Every step.                                                             *)
(***************************************************************************)

\* What an operation may do to the tree.
LEMMA TreeChanges ==
  ASSUME TypeInv, [Next]_vars
  PROVE  \/ loc' = loc
         \/ \E x \in Dirs :
              /\ \A e \in Dirs : e # x => loc'[e] = loc[e]
              /\ loc[x][1] = Fresh \/ InTree(x) \/ (loc[x][1] = Out /\ "movein" \in mode.ops)
<1>1. CASE Tool
  BY <1>1 DEF Tool, ScanOpen, ScanEntry, ScanWatch, DropFiltered, HandleCreate, HandleMovedFrom, HandleOther,
              HandleMovedIn, HandleMovedTo, fsvars
<1>2. ASSUME NEW d \in Dirs, NEW p \in Dirs \cup {Root}, NEW n \in Names,
             mkdir(d, p, n) \/ rename(d, p, n) \/ movein(d, p, n)
      PROVE  /\ \A e \in Dirs : e # d => loc'[e] = loc[e]
             /\ loc[d][1] = Fresh \/ InTree(d) \/ (loc[d][1] = Out /\ "movein" \in mode.ops)
  BY <1>2 DEF mkdir, rename, movein, Operation, TypeInv
<1>3. ASSUME NEW d \in Dirs, rmdir(d) \/ moveout(d)
      PROVE  (\A e \in Dirs : e # d => loc'[e] = loc[e]) /\ InTree(d)
  BY <1>3 DEF rmdir, moveout, TypeInv
<1>4. ASSUME NEW d \in Dirs, Notify(d)
      PROVE  loc' = loc
  BY <1>4 DEF Notify
<1>5. CASE UNCHANGED vars
  BY <1>5 DEF vars
<1> QED
  BY <1>1, <1>2, <1>3, <1>4, <1>5 DEF Next

\* A directory was moved out of the tree with one in it.
Stranded == \E d, e \in Dirs : loc[d][1] = Out /\ InitialLoc[d][1] # Out /\ loc[e][1] = d

\* Unless directories are moved in, one that was outside the tree still is.
Away ==
  "movein" \notin mode.ops => \A d \in Dirs : InitialLoc[d][1] = Out => loc[d][1] = Out

\* No step brings one in then.
LEMMA AwayStep ==
  ASSUME TypeInv, Away, [Next]_vars
  PROVE  Away'
<1> SUFFICES ASSUME "movein" \notin mode.ops, NEW d \in Dirs, InitialLoc[d][1] = Out PROVE loc'[d][1] = Out
  BY ModeKept DEF Away
<1>1. loc[d][1] = Out
  BY DEF Away
<1>2. loc[d][1] # Fresh /\ ~InTree(d)
  BY <1>1, TreePlace, PlacesAssumption DEF Places
<1> QED
  BY <1>1, <1>2, TreeChanges

\* Nobody brings it back.
LEMMA StrandedStep ==
  ASSUME TypeInv, Stranded, "movein" \notin mode.ops, [Next]_vars
  PROVE  Stranded'
<1>1. PICK d, e \in Dirs : loc[d][1] = Out /\ InitialLoc[d][1] # Out /\ loc[e][1] = d
  BY DEF Stranded
<1>2. loc[d][1] # Fresh /\ loc[e][1] # Fresh /\ loc[e][1] # Out
  BY <1>1, PlacesAssumption DEF Places
<1>3. ~InTree(d)
  BY <1>1, TreePlace, PlacesAssumption DEF Places
<1>4. ~InTree(e)
  <2> SUFFICES ASSUME InTree(e) PROVE InTree(d)
    BY <1>3
  <2>1. Root \in AboveIn(loc, e)
    BY AboveNow DEF InTree
  <2>2. Root \in AboveIn(loc, loc[e][1])
    BY <2>1, TreeParent DEF TypeInv
  <2> QED
    BY <1>1, <2>2, AboveNow DEF InTree
<1>5. loc'[d] = loc[d] /\ loc'[e] = loc[e]
  BY <1>2, <1>3, <1>4, TreeChanges
<1> QED
  BY <1>1, <1>5 DEF Stranded

\* What others do to the tree, for the tool to follow: directories are made,
\* moved in, renamed and moved out, none of them removed, and none moved both
\* in and out.  They wait for the tool, or one of them renames directories,
\* one after the other, once the first scan has ended.  The tool
\* listens for IN_MOVE_SELF if directories are moved out, may read all of the
\* tree, and has no filter.
Tracked ==
  /\ mode.ops \subseteq {"mkdir", "movein", "rename", "moveout"} /\ ~({"movein", "moveout"} \subseteq mode.ops)
  /\ mode.quiet \/ (mode.alone /\ ~mode.early /\ mode.ops \subseteq {"rename"})
  /\ "moveout" \in mode.ops => mode.move_self
  /\ mode.denied = {} /\ mode.excluded = {} /\ NoFilter /\ HasRoom

\* Three ways the tool may stand to the tree; a directory that took others
\* out with it is given up.
MovesInv ==
  /\ TypeInv
  /\ Tracked =>
       /\ Away
       /\ (Stranded /\ "moveout" \in mode.ops) \/ Scanning \/ Lagging \/ Leaving

\* A directory that is leaving is still to be told of.
LEMMA NoneDue ==
  ASSUME TypeInv, Leaving, kq = << >>, Idle
  PROVE  FALSE
<1>1. PICK l, d, s, due : UnderWay(late, s) /\ Due(kmarks, kq, s, due) /\ ToldGone(l, d, due)
  BY DEF Leaving
<1>2. due = << >>
  BY <1>1, DueIdle
<1> QED
  BY <1>1, <1>2 DEF ToldGone

\* An operation finds the tool idle, or lagging behind renames that have all
\* been told.
LEMMA BeforeOperation ==
  ASSUME TypeInv, Tracked, Scanning \/ Lagging \/ Leaving,
         NEW op, NEW x, NEW locked, NEW told, Operation(op, x, locked, told)
  PROVE  /\ Lagging /\ Idle
         /\ mode.quiet => Scanning /\ Quiescent
         /\ op \in mode.ops /\ mode' = mode
<1>1. /\ op \in mode.ops /\ mode' = mode /\ Idle
      /\ mode.quiet => Quiescent
      /\ ~mode.quiet => Started
  BY DEF Operation, Quiescent, Tracked
<1>2. CASE Scanning
  <2>1. Quiescent
    BY <1>1, <1>2 DEF Scanning
  <2> QED
    BY <1>1, <1>2, <2>1, Settled DEF Tracked
<1>3. CASE Lagging
  <2>1. mode.quiet => kq = << >>
    BY <1>1 DEF Quiescent
  <2> QED
    BY <1>1, <1>3, <2>1, LaggingSettled
<1>4. CASE Leaving
  <2>1. kq = << >>
    BY <1>1, <1>4 DEF Leaving, Quiescent
  <2> QED
    BY <1>1, <1>4, <2>1, NoneDue
<1> QED
  BY <1>2, <1>3, <1>4

\* A directory is made or moved in: the tool waits for it to be told.
LEMMA AppearStep ==
  ASSUME TypeInv, Tracked, Scanning \/ Lagging \/ Leaving,
         NEW d \in Dirs, NEW p \in Dirs \cup {Root}, NEW n \in Names, mkdir(d, p, n) \/ movein(d, p, n)
  PROVE  Scanning'
<1>1. \E op, locked, told : op \in {"mkdir", "movein"} /\ Operation(op, d, locked, told)
  BY DEF mkdir, movein
<1>2. mode.quiet /\ Scanning /\ mode' = mode
  BY <1>1, BeforeOperation DEF Tracked
<1>3. Sync' /\ Cover'
  BY <1>2, MkdirSync, MoveinSync, MkdirCover, MoveinCover DEF Scanning
<1>4. Filed(kmarks', reg')
  BY <1>2 DEF Scanning, mkdir, movein, Operation, toolvars
<1> QED
  BY <1>2, <1>3, <1>4 DEF Scanning

\* A directory is moved out, with others in it or none.
LEMMA MoveoutStep ==
  ASSUME TypeInv, Tracked, Away, Scanning \/ Lagging \/ Leaving, NEW d \in Dirs, moveout(d)
  PROVE  (Stranded' /\ "moveout" \in mode'.ops) \/ Leaving'
<1>1. (\E locked, told : Operation("moveout", d, locked, told)) /\ InTree(d) /\ loc' = [loc EXCEPT ![d] = <<Out, 0>>]
  BY DEF moveout
<1>2. /\ Lagging /\ "moveout" \in mode.ops /\ mode.move_self /\ mode.quiet /\ mode' = mode
      /\ Scanning /\ Quiescent
  BY <1>1, BeforeOperation DEF Tracked
<1>3. CASE Children(d) = {}
  BY <1>2, <1>3, LeavingStarts
<1>4. CASE Children(d) # {}
  <2>1. PICK e \in Dirs : loc[e][1] = d
    BY <1>4 DEF Children
  <2>2. e # d
    <3>1. d \in DOMAIN kmarks
      BY <1>1, <1>2, TreeDir DEF Lagging
    <3>2. Sound(reg) /\ Named(loc, kmarks, reg) /\ Filed(kmarks, reg)
      BY <1>2 DEF Scanning, Sync, TypeInv
    <3> DEFINE f == NameOf(reg, kmarks[d])
    <3>3. IsPath(f) /\ ResolveIn(loc, f) = d
      BY <3>1, <3>2, FiledLeads
    <3> HIDE DEF f
    <3> QED
      BY <2>1, <3>3, NotInItself DEF TypeInv
  <2>3. InitialLoc[d][1] # Out
    <3>1. loc[d][1] # Out
      BY <1>1, TreePlace, PlacesAssumption DEF Places
    <3> QED
      BY <1>2, <3>1 DEF Away, Tracked
  <2>4. loc'[d][1] = Out /\ loc'[e][1] = d
    BY <1>1, <2>1, <2>2 DEF TypeInv
  <2> QED
    BY <1>2, <2>3, <2>4 DEF Stranded
<1> QED
  BY <1>3, <1>4

\* No step leaves the three ways.
LEMMA WaysStep ==
  ASSUME TypeInv, Tracked, Away, Scanning \/ Lagging \/ Leaving, [Next]_vars
  PROVE  (Stranded' /\ "moveout" \in mode'.ops) \/ Scanning' \/ Lagging' \/ Leaving'
<1>1. CASE Tool
  <2>1. mode' = mode /\ NoFilter /\ HasRoom
    BY ModeKept DEF Tracked
  <2> QED
    BY <1>1, <2>1, ScanningTool, LaggingTool, LeavingTool
<1>2. ASSUME NEW d \in Dirs, NEW p \in Dirs \cup {Root}, NEW n \in Names,
             mkdir(d, p, n) \/ rename(d, p, n) \/ movein(d, p, n)
      PROVE  Scanning' \/ Lagging'
  <2>1. CASE rename(d, p, n)
    <3>1. Lagging /\ Idle
      BY <2>1, BeforeOperation DEF rename
    <3> QED
      BY <2>1, <3>1, LaggingRename
  <2> QED
    BY <1>2, <2>1, AppearStep
<1>3. ASSUME NEW d \in Dirs, rmdir(d) \/ moveout(d)
      PROVE  (Stranded' /\ "moveout" \in mode'.ops) \/ Leaving'
  <2>1. ~rmdir(d)
    BY DEF rmdir, Operation, Tracked
  <2> QED
    BY <1>3, <2>1, MoveoutStep
<1>4. ASSUME NEW d \in Dirs, Notify(d)
      PROVE  Scanning' \/ Lagging' \/ Leaving'
  BY <1>4, ScanningNotify, LaggingNotify, LeavingNotify
<1>5. CASE UNCHANGED vars
  <2>1. Scanning => Scanning'
    BY <1>5 DEF vars, Scanning, Sync, Cover, Passed, Begun, Handled, Announced, Tells, Pends, Quiescent, Started, Idle
  <2>2. Lagging => Lagging'
    BY <1>5 DEF vars, Lagging, Started
  <2>3. Leaving => Leaving'
    <3> SUFFICES ASSUME Leaving PROVE Leaving'
      OBVIOUS
    <3>1. PICK l, d, s, due : Gone(l, d) /\ UnderWay(late, s) /\ Due(kmarks, kq, s, due) /\ ToldGone(l, d, due)
      BY DEF Leaving
    <3>2. Gone(l, d)' /\ UnderWay(late', s) /\ Due(kmarks', kq', s, due) /\ ToldGone(l, d, due)'
      BY <1>5, <3>1 DEF vars, Gone, ToldGone
    <3>3. (\E k, c1, s1, due1 :
             Gone(k, c1) /\ UnderWay(late, s1) /\ Due(kmarks, kq, s1, due1) /\ ToldGone(k, c1, due1))'
      BY <3>2
    <3> QED
      BY <1>5, <3>3 DEF vars, Leaving, Started
  <2> QED
    BY <2>1, <2>2, <2>3
<1> QED
  BY <1>1, <1>2, <1>3, <1>4, <1>5 DEF Next

\* At first the scan of the root is about to begin.
LEMMA MovesInit == Init => MovesInv
<1> SUFFICES ASSUME Init PROVE MovesInv
  OBVIOUS
<1>1. TypeInv /\ Sync /\ Cover
  BY TypeInit, SyncInit, CoverInit
<1>2. Away
  BY DEF Away, Init
<1>3. DOMAIN kmarks = {} /\ DOMAIN reg.by_filename = {} /\ kq = << >> /\ Idle
  BY DEF Init, EmptyRegistry, EmptyMap, Idle
<1>4. Filed(kmarks, reg) /\ ~Started
  BY <1>3 DEF Filed, Started
<1>5. OneRoot(scan)
  <2> DEFINE s == <<Frame(<<RootName>>)>>
  <2>1. scan = s
    BY DEF Init
  <2>2. Len(s) = 1 /\ 2..1 = {}
    OBVIOUS
  <2> HIDE DEF s
  <2> QED
    BY <2>1, <2>2 DEF OneRoot
<1> QED
  BY <1>1, <1>2, <1>3, <1>4, <1>5 DEF MovesInv, Scanning

\* Every step keeps the invariant.
LEMMA MovesStep ==
  ASSUME MovesInv, [Next]_vars
  PROVE  MovesInv'
<1>1. TypeInv /\ TypeInv'
  BY TypeStep DEF MovesInv
<1>2. mode' = mode /\ (Tracked' <=> Tracked)
  BY ModeKept DEF Tracked, NoFilter, HasRoom
<1>3. ASSUME Tracked
      PROVE  Away' /\ ((Stranded' /\ "moveout" \in mode'.ops) \/ Scanning' \/ Lagging' \/ Leaving')
  <2>1. Away /\ Away'
    BY <1>1, <1>3, AwayStep DEF MovesInv
  <2>2. CASE Stranded /\ "moveout" \in mode.ops
    <3>1. "movein" \notin mode.ops
      BY <1>3, <2>2 DEF Tracked
    <3> QED
      BY <1>1, <1>2, <2>1, <2>2, <3>1, StrandedStep
  <2>3. CASE Scanning \/ Lagging \/ Leaving
    BY <1>1, <1>3, <2>1, <2>3, WaysStep
  <2> QED
    BY <1>3, <2>1, <2>2, <2>3 DEF MovesInv
<1> QED
  BY <1>1, <1>2, <1>3 DEF MovesInv

\* When it has caught up, and no directory took others out with it, the tool
\* has the view of a scan that has just ended.
LEMMA CaughtUpScanned ==
  ASSUME MovesInv, Tracked, CaughtUp
  PROVE  TypeInv /\ Sync /\ Cover /\ Quiescent
<1>1. TypeInv /\ Quiescent /\ NoneLeftBehind /\ kq = << >> /\ Idle
  BY DEF MovesInv, CaughtUp, Quiescent
<1>2. ~Stranded
  BY <1>1 DEF Stranded, NoneLeftBehind, Children
<1>3. ~Leaving
  BY <1>1, NoneDue
<1>4. Scanning
  BY <1>1, <1>2, <1>3, LaggingSettled DEF MovesInv
<1> QED
  BY <1>1, <1>4 DEF Scanning

\* Where no directory with a name in the tree is renamed, no scan strays.
LEMMA MovesSyncStep ==
  ASSUME MovesInv /\ (Growing => Sync), [Next]_vars
  PROVE  (MovesInv /\ (Growing => Sync))'
<1>1. MovesInv'
  BY MovesStep
<1>2. Growing' = Growing
  BY ModeKept DEF Growing
<1>3. Growing => Sync'
  BY SyncStep DEF MovesInv
<1> QED
  BY <1>1, <1>2, <1>3

\* After the first scan, however one user renames directories, one right
\* after another and while the tool is still reading of the one before, or
\* users who wait for the tool make, move in, rename and move them out, the
\* tool that has caught up reports the events of every watched directory of
\* the tree under its current path: replace_filename renames the watches of
\* all directories below the one that moved and of no other.  (The events of
\* two renames at once get mixed up: this is the run recursivewatch_pair.)
THEOREM NamesFollowMoves == Spec => [](Tracked => NamesInSync)
<1> DEFINE Inv == MovesInv /\ (Growing => Sync)
<1>1. Init => Inv
  BY MovesInit, SyncInit
<1>2. Inv /\ [Next]_vars => Inv'
  BY MovesSyncStep
<1>3. Inv => (Tracked => NamesInSync)
  <2> SUFFICES ASSUME Inv, Tracked, Growing \/ CaughtUp, NEW d \in DOMAIN kmarks
               PROVE  /\ kmarks[d] \in DOMAIN reg.by_wd
                      /\ Resolve(reg.watches[reg.by_wd[kmarks[d]]].filename) = d
    BY DEF NamesInSync
  <2>1. Named(loc, kmarks, reg)
    BY CaughtUpScanned DEF Sync
  <2> QED
    BY <2>1, ResolveNow DEF Named
<1> HIDE DEF Inv
<1> QED
  BY <1>1, <1>2, <1>3, PTL DEF Spec

\* The tool that has caught up watches the whole tree, wherever its
\* directories were moved to.
THEOREM TreeWatchedAfterMoves == Spec => [](Tracked => AllWatched)
<1>1. Init => MovesInv
  BY MovesInit
<1>2. MovesInv /\ [Next]_vars => MovesInv'
  BY MovesStep
<1>3. MovesInv => (Tracked => AllWatched)
  BY CaughtUpScanned, CoverFollows DEF AllWatched
<1> QED
  BY <1>1, <1>2, <1>3, PTL DEF Spec

\* The tool that has caught up watches no directory outside the tree: the
\* watch of one that was moved out is removed when the event after its
\* IN_MOVED_FROM is not the IN_MOVED_TO of a rename.  Where none are moved
\* out, no scan strays.
THEOREM NothingLeftWatched == Spec => [](Tracked \/ Growing => NothingOutsideWatched)
<1> DEFINE Inv == MovesInv /\ (Growing => Sync)
<1>1. Init => Inv
  BY MovesInit, SyncInit
<1>2. Inv /\ [Next]_vars => Inv'
  BY MovesSyncStep
<1>3. Inv => (Tracked \/ Growing => NothingOutsideWatched)
  <2> SUFFICES ASSUME Inv, Tracked \/ Growing, CaughtUp, NEW d \in Dirs, loc[d][1] = Out, d \in DOMAIN kmarks
               PROVE  FALSE
    BY DEF NothingOutsideWatched
  <2>1. TypeInv /\ Sync
    BY CaughtUpScanned DEF MovesInv
  <2> QED
    BY <2>1, WatchedReached, PlacesAssumption DEF Places
<1> HIDE DEF Inv
<1> QED
  BY <1>1, <1>2, <1>3, PTL DEF Spec
=============================================================================
