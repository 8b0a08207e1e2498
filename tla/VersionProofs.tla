----------------------------- MODULE VersionProofs -----------------------------
(***************************************************************************)
(* The comparison of sortGameVersions is a strict weak order of all        *)
(* versions, whatever their strings say, as Array.prototype.sort requires  *)
(* of it: no two versions are each newer than the other, and of two        *)
(* versions one of which is newer, no third one is level with both.  What  *)
(* it sorts is therefore in order throughout, and the default is the same  *)
(* for every order of the rows.                                            *)
(***************************************************************************)
EXTENDS VersionSelection, SequenceTheorems, WellFoundedInduction, TLAPS

\* A set of numbers that is not empty has a least one.
LEMMA LeastNumber ==
    ASSUME NEW D \in SUBSET Nat, D # {}
    PROVE  \E k \in D : \A m \in D : k <= m
<1>1. PICK R : IsWellFoundedOn(R, Nat) /\ \A m, n \in Nat : <<m, n>> \in R <=> m < n
  <2>1. \A m, n \in Nat : <<m, n>> \in OpToRel(<, Nat) <=> m < n
    BY DEF OpToRel
  <2> QED
    BY <2>1, NatLessThanWellFounded, Zenon
<1>2. PICK k \in D : \A m \in D : ~(<<m, k>> \in R)
  <2>1. D \subseteq Nat /\ D # {} /\ IsWellFoundedOn(R, Nat)
    BY <1>1
  <2> QED
    BY <2>1, WFMin, Zenon
<1>3. \A m \in D : k <= m
  <2> SUFFICES ASSUME NEW m \in D
               PROVE  k <= m
    OBVIOUS
  <2>1. m \in Nat /\ k \in Nat /\ ~(<<m, k>> \in R)
    BY <1>2
  <2>2. ~(m < k)
    BY <1>1, <2>1, Zenon
  <2> QED
    BY <2>1, <2>2
<1> QED
  BY <1>3, Zenon

\* Only an index inside the list has a number that counts.
LEMMA NumbersAreNatural ==
    ASSUME NEW a \in Version, NEW i \in Nat
    PROVE  /\ NumberAt(a, i) \in Nat
           /\ NumberAt(a, i) # 0 => i \in DOMAIN a.parts
  BY DEF NumberAt, Version

LEMMA IndexesArePositive ==
    ASSUME NEW a \in Version, NEW i \in DOMAIN a.parts
    PROVE  i \in Nat /\ i >= 1
  BY DEF Version

\* compareNumericParts never puts each of two lists first.
LEMMA NumbersAsymmetric ==
    ASSUME NEW a \in Version, NEW b \in Version, NumbersNewer(a, b), NumbersNewer(b, a)
    PROVE  FALSE
<1>1. PICK i \in DOMAIN a.parts \cup DOMAIN b.parts :
         /\ NumberAt(a, i) > NumberAt(b, i)
         /\ \A k \in 1 .. i - 1 : NumberAt(a, k) = NumberAt(b, k)
  BY DEF NumbersNewer
<1>2. PICK j \in DOMAIN a.parts \cup DOMAIN b.parts :
         /\ NumberAt(b, j) > NumberAt(a, j)
         /\ \A k \in 1 .. j - 1 : NumberAt(b, k) = NumberAt(a, k)
  BY DEF NumbersNewer
<1>3. i \in Nat /\ i >= 1 /\ j \in Nat /\ j >= 1
  BY IndexesArePositive
<1>4. /\ NumberAt(a, i) \in Nat /\ NumberAt(b, i) \in Nat
      /\ NumberAt(a, j) \in Nat /\ NumberAt(b, j) \in Nat
  BY <1>3, NumbersAreNatural
<1>5. CASE i < j
  BY <1>1, <1>2, <1>3, <1>4, <1>5
<1>6. CASE j < i
  BY <1>1, <1>2, <1>3, <1>4, <1>6
<1>7. CASE i = j
  BY <1>1, <1>2, <1>4, <1>7
<1> QED
  BY <1>3, <1>5, <1>6, <1>7

\* A difference at one index, with all numbers before it the same, decides.
LEMMA FirstDifferenceDecides ==
    ASSUME NEW a \in Version, NEW b \in Version, NEW i \in Nat, i >= 1,
           NumberAt(a, i) > NumberAt(b, i),
           \A k \in 1 .. i - 1 : NumberAt(a, k) = NumberAt(b, k)
    PROVE  NumbersNewer(a, b)
<1>1. i \in DOMAIN a.parts
  BY NumbersAreNatural
<1> QED
  BY <1>1 DEF NumbersNewer

\* Of two lists in order, any third one comes after the first or before the second.
LEMMA NumbersSplit ==
    ASSUME NEW a \in Version, NEW b \in Version, NEW c \in Version, NumbersNewer(a, b)
    PROVE  NumbersNewer(a, c) \/ NumbersNewer(c, b)
<1>1. PICK i \in DOMAIN a.parts \cup DOMAIN b.parts :
         /\ NumberAt(a, i) > NumberAt(b, i)
         /\ \A k \in 1 .. i - 1 : NumberAt(a, k) = NumberAt(b, k)
  BY DEF NumbersNewer
<1>2. i \in Nat /\ i >= 1
  BY IndexesArePositive
<1>3. \A k \in Nat : NumberAt(a, k) \in Nat /\ NumberAt(b, k) \in Nat /\ NumberAt(c, k) \in Nat
  BY NumbersAreNatural
<1>4. CASE \A k \in 1 .. i - 1 : NumberAt(c, k) = NumberAt(a, k)
  <2>1. CASE NumberAt(a, i) > NumberAt(c, i)
    BY <1>2, <1>4, <2>1, FirstDifferenceDecides
  <2>2. CASE ~(NumberAt(a, i) > NumberAt(c, i))
    <3>1. NumberAt(c, i) > NumberAt(b, i)
      BY <1>1, <1>2, <1>3, <2>2
    <3>2. \A k \in 1 .. i - 1 : NumberAt(c, k) = NumberAt(b, k)
      BY <1>1, <1>4
    <3> QED
      BY <1>2, <3>1, <3>2, FirstDifferenceDecides
  <2> QED
    BY <2>1, <2>2
<1>5. CASE \E k \in 1 .. i - 1 : NumberAt(c, k) # NumberAt(a, k)
  <2> DEFINE D == {k \in Nat : k \in 1 .. i - 1 /\ NumberAt(c, k) # NumberAt(a, k)}
  <2>1. D \in SUBSET Nat /\ D # {}
    BY <1>2, <1>5
  <2>2. PICK k \in D : \A m \in D : k <= m
    BY <2>1, LeastNumber
  <2>3. k \in Nat /\ k >= 1 /\ k < i /\ NumberAt(c, k) # NumberAt(a, k)
    BY <1>2, <2>2
  <2>4. \A m \in 1 .. k - 1 : NumberAt(c, m) = NumberAt(a, m)
    <3> SUFFICES ASSUME NEW m \in 1 .. k - 1, NumberAt(c, m) # NumberAt(a, m)
                 PROVE  FALSE
      OBVIOUS
    <3>1. m \in D
      BY <1>2, <2>3
    <3> QED
      BY <2>2, <2>3, <3>1
  <2>5. CASE NumberAt(a, k) > NumberAt(c, k)
    BY <2>3, <2>4, <2>5, FirstDifferenceDecides
  <2>6. CASE NumberAt(c, k) > NumberAt(a, k)
    <3>1. NumberAt(c, k) > NumberAt(b, k)
      BY <1>1, <1>2, <2>3, <2>6
    <3>2. \A m \in 1 .. k - 1 : NumberAt(c, m) = NumberAt(b, m)
      BY <1>1, <1>2, <2>3, <2>4
    <3> QED
      BY <2>3, <3>1, <3>2, FirstDifferenceDecides
  <2> QED
    BY <1>3, <2>3, <2>5, <2>6
<1> QED
  BY <1>4, <1>5

\* The marks by which a version is compared before its numbers and after them.
LEMMA ScoresAreNatural ==
    ASSUME NEW a \in Version
    PROVE  /\ Score(a) \in 0 .. 4
           /\ Score(a) = 4 <=> a.semver # 0
           /\ a.semver \in Nat /\ a.date \in Nat /\ a.indexed \in Nat /\ a.text \in Nat
           /\ a.preRelease \in BOOLEAN
  BY DEF Score, Version

\* The comparison of sortGameVersions never finds each of two versions newer.
THEOREM NewerIsAsymmetric ==
    ASSUME NEW a \in Version, NEW b \in Version, Newer(a, b)
    PROVE  ~Newer(b, a)
  BY NumbersAsymmetric, ScoresAreNatural DEF Newer

\* When the comparison of sortGameVersions finds a newer than b, it finds every
\* third version older than a or newer than b: the order in which Array.sort
\* compares does not matter.
THEOREM NewerIsAStrictWeakOrder ==
    ASSUME NEW a \in Version, NEW b \in Version, NEW c \in Version, Newer(a, b)
    PROVE  Newer(a, c) \/ Newer(c, b)
  BY NumbersAsymmetric, NumbersSplit, ScoresAreNatural DEF Newer

(***************************************************************************)
(* The sort.  What is defined by recursion on the length of a sequence has *)
(* its values one after another.                                           *)
(***************************************************************************)
Iterates(f, N, start, step) ==
    f[0] = start /\ \A n \in 1 .. N : f[n] = step[<<f[n - 1], n>>]

LEMMA Iteration ==
    ASSUME NEW N \in Nat, NEW S, NEW start \in S, NEW step \in [S \X (1 .. N) -> S]
    PROVE  \E f \in [0 .. N -> S] : Iterates(f, N, start, step)
<1> DEFINE Runs(f, k) == f[0] = start /\ \A n \in 1 .. k : f[n] = step[<<f[n - 1], n>>]
           D == {k \in 0 .. N : ~\E f \in [0 .. k -> S] : Runs(f, k)}
<1>1. SUFFICES ASSUME N \in D PROVE FALSE
  BY DEF Iterates
<1>2. PICK k \in D : \A m \in D : k <= m
  <2>1. D \in SUBSET Nat
    OBVIOUS
  <2> QED
    BY <1>1, <2>1, LeastNumber
<1>3. CASE k = 0
  <2> DEFINE f == [i \in 0 .. 0 |-> start]
  <2>1. f \in [0 .. 0 -> S]
    OBVIOUS
  <2>2. Runs(f, 0)
    OBVIOUS
  <2> QED
    BY <1>2, <1>3, <2>1, <2>2
<1>4. CASE k # 0
  <2>1. k \in 1 .. N /\ k - 1 \in 0 .. N /\ k - 1 \notin D
    BY <1>2, <1>4
  <2>2. PICK g \in [0 .. k - 1 -> S] : Runs(g, k - 1)
    BY <2>1
  <2> DEFINE f == [i \in 0 .. k |-> IF i = k THEN step[<<g[k - 1], k>>] ELSE g[i]]
  <2>3. step[<<g[k - 1], k>>] \in S
    BY <2>1, <2>2
  <2>4. f \in [0 .. k -> S]
    BY <2>1, <2>2, <2>3
  <2>5. f[k] = step[<<f[k - 1], k>>] /\ \A i \in 0 .. k - 1 : f[i] = g[i]
    BY <2>1
  <2>6. f[0] = start
    BY <2>1, <2>2, <2>5
  <2> HIDE DEF f
  <2>7. ASSUME NEW n \in 1 .. k
        PROVE  f[n] = step[<<f[n - 1], n>>]
    <3>1. CASE n = k
      BY <2>5, <3>1
    <3>2. CASE n # k
      <4>1. n \in 1 .. k - 1 /\ n \in 0 .. k - 1 /\ n - 1 \in 0 .. k - 1
        BY <2>1, <3>2
      <4>2. g[n] = step[<<g[n - 1], n>>]
        BY <2>2, <4>1
      <4> QED
        BY <2>5, <4>1, <4>2
    <3> QED
      BY <3>1, <3>2
  <2>8. Runs(f, k)
    BY <2>6, <2>7
  <2> QED
    BY <1>2, <2>4, <2>8
<1> QED
  BY <1>3, <1>4

\* The elements of three sequences put one behind the other, the second of one element.
ElementsAround(c, a, v, b) ==
    /\ Len(c) = Len(a) + 1 + Len(b)
    /\ \A k \in 1 .. Len(c) :
          c[k] = IF k <= Len(a) THEN a[k]
                 ELSE IF k = Len(a) + 1 THEN v ELSE b[k - Len(a) - 1]

LEMMA AroundOne ==
    ASSUME NEW S, NEW a \in Seq(S), NEW b \in Seq(S), NEW v \in S
    PROVE  /\ a \o <<v>> \o b \in Seq(S)
           /\ ElementsAround(a \o <<v>> \o b, a, v, b)
<1> DEFINE c == a \o <<v>> \o b
<1> DEFINE d == Append(a, v)
<1>1. a \o <<v>> = d
  OBVIOUS
<1>2. /\ d \in Seq(S) /\ Len(d) = Len(a) + 1
      /\ \A k \in 1 .. Len(a) : d[k] = a[k]
      /\ d[Len(a) + 1] = v
  OBVIOUS
<1> HIDE DEF d
<1>3. /\ d \o b \in Seq(S) /\ Len(d \o b) = Len(d) + Len(b)
      /\ \A k \in 1 .. Len(d) + Len(b) :
            (d \o b)[k] = IF k <= Len(d) THEN d[k] ELSE b[k - Len(d)]
  BY <1>2, ConcatProperties, Zenon
<1>4. Len(a) \in Nat /\ Len(b) \in Nat
  OBVIOUS
<1>5. ASSUME NEW k \in 1 .. Len(a) + 1 + Len(b)
      PROVE  c[k] = IF k <= Len(a) THEN a[k]
                    ELSE IF k = Len(a) + 1 THEN v ELSE b[k - Len(a) - 1]
  <2>1. c[k] = IF k <= Len(a) + 1 THEN d[k] ELSE b[k - (Len(a) + 1)]
    BY <1>1, <1>2, <1>3
  <2> QED
    BY <1>2, <1>4, <2>1
<1>6. c \in Seq(S) /\ Len(c) = Len(a) + 1 + Len(b)
  BY <1>1, <1>2, <1>3, <1>4
<1> HIDE DEF c
<1>7. ElementsAround(c, a, v, b)
  BY <1>5, <1>6 DEF ElementsAround
<1> QED
  BY <1>6, <1>7 DEF c

\* A version takes its place before the first one it is newer than.
LEMMA PlacedIsInserted ==
    ASSUME NEW s \in Seq(Version), NEW v \in Version
    PROVE  \E p \in 1 .. Len(s) + 1 :
              /\ Placed(s, v) \in Seq(Version) /\ Len(Placed(s, v)) = Len(s) + 1
              /\ \A k \in 1 .. Len(s) + 1 :
                    Placed(s, v)[k] = IF k < p THEN s[k] ELSE IF k = p THEN v ELSE s[k - 1]
              /\ \A i \in 1 .. Len(s) : i < p => ~Newer(v, s[i])
              /\ p <= Len(s) => Newer(v, s[p])
<1> DEFINE after == {i \in 1 .. Len(s) : Newer(v, s[i])}
           p == IF after = {} THEN Len(s) + 1
                ELSE CHOOSE i \in after : \A j \in after : i <= j
<1>0. Len(s) \in Nat
  OBVIOUS
<1>1. /\ p \in 1 .. Len(s) + 1
      /\ \A i \in 1 .. Len(s) : i < p => ~Newer(v, s[i])
      /\ p <= Len(s) => Newer(v, s[p])
  <2>1. CASE after = {}
    BY <1>0, <2>1
  <2>2. CASE after # {}
    <3>1. after \in SUBSET Nat
      OBVIOUS
    <3>2. \E i \in after : \A j \in after : i <= j
      BY <2>2, <3>1, LeastNumber
    <3>3. p \in after /\ \A j \in after : p <= j
      BY <2>2, <3>2
    <3>4. p \in 1 .. Len(s) /\ Newer(v, s[p])
      BY <3>3
    <3> HIDE DEF p
    <3>5. ASSUME NEW i \in 1 .. Len(s), i < p, Newer(v, s[i])
          PROVE  FALSE
      BY <1>0, <3>3, <3>4, <3>5
    <3> QED
      BY <1>0, <3>4, <3>5
  <2> QED
    BY <2>1, <2>2
<1>2. Placed(s, v) = SubSeq(s, 1, p - 1) \o <<v>> \o SubSeq(s, p, Len(s))
  BY DEF Placed
<1> HIDE DEF p, after
<1> DEFINE a == SubSeq(s, 1, p - 1)
           b == SubSeq(s, p, Len(s))
<1>3. /\ a \in Seq(Version) /\ Len(a) = p - 1
      /\ b \in Seq(Version) /\ Len(b) = Len(s) + 1 - p
      /\ \A k \in 1 .. p - 1 : a[k] = s[k]
      /\ \A k \in 1 .. Len(s) + 1 - p : b[k] = s[p + k - 1]
  BY <1>0, <1>1
<1> HIDE DEF a, b
<1>4. Placed(s, v) = a \o <<v>> \o b
  BY <1>2 DEF a, b
<1>5. /\ Placed(s, v) \in Seq(Version) /\ Len(Placed(s, v)) = Len(s) + 1
      /\ \A k \in 1 .. Len(s) + 1 :
            Placed(s, v)[k] = IF k <= p - 1 THEN a[k]
                              ELSE IF k = p THEN v ELSE b[k - p]
  <2>1. /\ Placed(s, v) \in Seq(Version)
        /\ Len(Placed(s, v)) = Len(a) + 1 + Len(b)
        /\ \A k \in 1 .. Len(Placed(s, v)) :
              Placed(s, v)[k] = IF k <= Len(a) THEN a[k]
                                ELSE IF k = Len(a) + 1 THEN v ELSE b[k - Len(a) - 1]
    <3>1. a \in Seq(Version) /\ b \in Seq(Version)
      BY <1>3
    <3>2. /\ a \o <<v>> \o b \in Seq(Version)
          /\ ElementsAround(a \o <<v>> \o b, a, v, b)
      BY <3>1, AroundOne
    <3>3. Placed(s, v) \in Seq(Version) /\ ElementsAround(Placed(s, v), a, v, b)
      BY <1>4, <3>2
    <3> QED
      BY <3>3 DEF ElementsAround
  <2> QED
    BY <1>0, <1>1, <1>3, <2>1
<1>6. ASSUME NEW k \in 1 .. Len(s) + 1
      PROVE  Placed(s, v)[k] = IF k < p THEN s[k] ELSE IF k = p THEN v ELSE s[k - 1]
  <2>1. CASE k < p
    BY <1>0, <1>1, <1>3, <1>5, <2>1
  <2>2. CASE k = p
    BY <1>0, <1>1, <1>5, <2>2
  <2>3. CASE k > p
    <3>1. Placed(s, v)[k] = b[k - p] /\ k - p \in 1 .. Len(s) + 1 - p
      BY <1>0, <1>1, <1>5, <2>3
    <3>2. b[k - p] = s[p + (k - p) - 1] /\ p + (k - p) - 1 = k - 1
      BY <1>0, <1>1, <1>3, <3>1
    <3> QED
      BY <1>1, <2>3, <3>1, <3>2
  <2> QED
    BY <1>0, <1>1, <2>1, <2>2, <2>3
<1> QED
  BY <1>1, <1>5, <1>6

\* What is true of 0 and of every next number is true of all of them.
LEMMA StepByStep ==
    ASSUME NEW N \in Nat, NEW T \in SUBSET (0 .. N), 0 \in T,
           \A n \in 1 .. N : n - 1 \in T => n \in T
    PROVE  \A n \in 0 .. N : n \in T
<1> DEFINE D == {n \in 0 .. N : n \notin T}
<1>1. SUFFICES ASSUME D # {} PROVE FALSE
  OBVIOUS
<1>2. PICK k \in D : \A m \in D : k <= m
  <2>1. D \in SUBSET Nat
    OBVIOUS
  <2> QED
    BY <1>1, <2>1, LeastNumber
<1>3. k \in 1 .. N /\ k - 1 \in 0 .. N /\ k - 1 \notin D
  BY <1>2
<1> QED
  BY <1>2, <1>3

\* No version in a list is newer than one before it.
InOrder(s) == \A i, j \in 1 .. Len(s) : i < j => ~Newer(s[j], s[i])

\* A version takes its place in an ordered list without disturbing the order.
LEMMA PlacedKeepsOrder ==
    ASSUME NEW s \in Seq(Version), NEW v \in Version, InOrder(s)
    PROVE  InOrder(Placed(s, v))
<1> DEFINE t == Placed(s, v)
<1>0. Len(s) \in Nat /\ \A k \in 1 .. Len(s) : s[k] \in Version
  OBVIOUS
<1>1. PICK p \in 1 .. Len(s) + 1 :
         /\ t \in Seq(Version) /\ Len(t) = Len(s) + 1
         /\ \A k \in 1 .. Len(s) + 1 :
               t[k] = IF k < p THEN s[k] ELSE IF k = p THEN v ELSE s[k - 1]
         /\ \A i \in 1 .. Len(s) : i < p => ~Newer(v, s[i])
         /\ p <= Len(s) => Newer(v, s[p])
  BY PlacedIsInserted
<1> HIDE DEF t
<1>2. SUFFICES ASSUME NEW i \in 1 .. Len(s) + 1, NEW j \in 1 .. Len(s) + 1, i < j
               PROVE  ~Newer(t[j], t[i])
  BY <1>1 DEF InOrder, t
<1>3. \A m, n \in 1 .. Len(s) : m < n => ~Newer(s[n], s[m])
  BY DEF InOrder
<1>4. CASE j < p
  <2>1. t[j] = s[j] /\ t[i] = s[i] /\ i \in 1 .. Len(s) /\ j \in 1 .. Len(s)
    BY <1>0, <1>1, <1>2, <1>4
  <2> QED
    BY <1>2, <1>3, <2>1
<1>5. CASE j = p
  <2>1. t[j] = v /\ t[i] = s[i] /\ i \in 1 .. Len(s) /\ i < p
    BY <1>0, <1>1, <1>2, <1>5
  <2> QED
    BY <1>1, <2>1
<1>6. CASE j > p
  <2>1. t[j] = s[j - 1] /\ j - 1 \in 1 .. Len(s) /\ p <= Len(s) /\ p <= j - 1
    BY <1>0, <1>1, <1>6
  <2>2. CASE i < p
    <3>1. t[i] = s[i] /\ i \in 1 .. Len(s) /\ i < j - 1
      BY <1>0, <1>1, <2>1, <2>2
    <3> QED
      BY <1>3, <2>1, <3>1
  <2>3. CASE i = p
    <3>1. t[i] = v /\ Newer(v, s[p]) /\ p \in 1 .. Len(s)
      BY <1>1, <2>1, <2>3
    <3>2. s[p] \in Version /\ s[j - 1] \in Version
      BY <1>0, <2>1, <3>1
    <3>3. ~Newer(s[p], v)
      BY <3>1, <3>2, NewerIsAsymmetric
    <3>4. ~Newer(s[j - 1], s[p])
      <4>1. CASE p = j - 1
        BY <3>2, <4>1, NewerIsAsymmetric
      <4>2. CASE p < j - 1
        BY <1>3, <2>1, <3>1, <4>2
      <4> QED
        BY <2>1, <4>1, <4>2
    <3>5. ~Newer(s[j - 1], v)
      BY <3>2, <3>3, <3>4, NewerIsAStrictWeakOrder
    <3> QED
      BY <2>1, <3>1, <3>5
  <2>4. CASE i > p
    <3>1. t[i] = s[i - 1] /\ i - 1 \in 1 .. Len(s) /\ i - 1 < j - 1
      BY <1>0, <1>1, <1>2, <2>4
    <3> QED
      BY <1>3, <2>1, <3>1
  <2> QED
    BY <1>1, <2>2, <2>3, <2>4
<1> QED
  BY <1>1, <1>4, <1>5, <1>6

\* The versions in a list.
Listed(s) == {s[k] : k \in 1 .. Len(s)}

LEMMA PlacedAddsOne ==
    ASSUME NEW s \in Seq(Version), NEW v \in Version
    PROVE  Listed(Placed(s, v)) = Listed(s) \cup {v}
<1> DEFINE t == Placed(s, v)
<1>0. Len(s) \in Nat
  OBVIOUS
<1>1. PICK p \in 1 .. Len(s) + 1 :
         /\ t \in Seq(Version) /\ Len(t) = Len(s) + 1
         /\ \A k \in 1 .. Len(s) + 1 :
               t[k] = IF k < p THEN s[k] ELSE IF k = p THEN v ELSE s[k - 1]
  BY PlacedIsInserted
<1> HIDE DEF t
<1>2. ASSUME NEW k \in 1 .. Len(t)
      PROVE  t[k] \in Listed(s) \cup {v}
  <2>1. CASE k < p
    <3>1. t[k] = s[k] /\ k \in 1 .. Len(s)
      BY <1>0, <1>1, <2>1
    <3> QED
      BY <3>1 DEF Listed
  <2>2. CASE k = p
    BY <1>1, <2>2
  <2>3. CASE k > p
    <3>1. t[k] = s[k - 1] /\ k - 1 \in 1 .. Len(s)
      BY <1>0, <1>1, <2>3
    <3> QED
      BY <3>1 DEF Listed
  <2> QED
    BY <1>0, <1>1, <2>1, <2>2, <2>3
<1>3. v \in Listed(t)
  <2>1. t[p] = v /\ p \in 1 .. Len(t)
    BY <1>0, <1>1
  <2> QED
    BY <2>1 DEF Listed
<1>4. ASSUME NEW k \in 1 .. Len(s)
      PROVE  s[k] \in Listed(t)
  <2>1. CASE k < p
    <3>1. t[k] = s[k] /\ k \in 1 .. Len(t)
      BY <1>0, <1>1, <2>1
    <3> QED
      BY <3>1 DEF Listed
  <2>2. CASE k >= p
    <3>1. t[k + 1] = s[k] /\ k + 1 \in 1 .. Len(t)
      BY <1>0, <1>1, <2>2
    <3> QED
      BY <3>1 DEF Listed
  <2> QED
    BY <1>0, <1>1, <2>1, <2>2
<1>5. Listed(t) \subseteq Listed(s) \cup {v}
  BY <1>2 DEF Listed
<1>6. Listed(s) \subseteq Listed(t)
  BY <1>4 DEF Listed
<1> QED
  BY <1>3, <1>5, <1>6 DEF t

\* Sorted inserts the versions that OnePerPath leaves one after another.
LEMMA SortedBySteps ==
    ASSUME NEW s, NEW t \in Seq(Version), t = OnePerPath(s)
    PROVE  \E f \in [0 .. Len(t) -> Seq(Version)] :
              /\ f[0] = <<>> /\ \A n \in 1 .. Len(t) : f[n] = Placed(f[n - 1], t[n])
              /\ Sorted(s) = f[Len(t)]
<1> DEFINE Step(f) == [n \in 0 .. Len(t) |-> IF n = 0 THEN <<>> ELSE Placed(f[n - 1], t[n])]
           f == CHOOSE g : g = Step(g)
           step == [x \in Seq(Version) \X (1 .. Len(t)) |-> Placed(x[1], t[x[2]])]
<1>0. Len(t) \in Nat /\ \A n \in 1 .. Len(t) : t[n] \in Version
  OBVIOUS
<1>1. step \in [Seq(Version) \X (1 .. Len(t)) -> Seq(Version)]
  BY <1>0, PlacedIsInserted
<1>2. PICK g \in [0 .. Len(t) -> Seq(Version)] :
         g[0] = <<>> /\ \A n \in 1 .. Len(t) : g[n] = step[<<g[n - 1], n>>]
  <2>1. <<>> \in Seq(Version)
    OBVIOUS
  <2> HIDE DEF step
  <2> QED
    <3>1. \E g \in [0 .. Len(t) -> Seq(Version)] : Iterates(g, Len(t), <<>>, step)
      BY <1>0, <1>1, <2>1, Iteration
    <3> QED
      BY <3>1 DEF Iterates
<1>3. \A n \in 1 .. Len(t) : g[n] = Placed(g[n - 1], t[n])
  <2> SUFFICES ASSUME NEW n \in 1 .. Len(t)
               PROVE  g[n] = Placed(g[n - 1], t[n])
    OBVIOUS
  <2>1. n - 1 \in 0 .. Len(t)
    BY <1>0
  <2>2. <<g[n - 1], n>> \in Seq(Version) \X (1 .. Len(t))
    BY <1>2, <2>1
  <2> QED
    BY <1>2, <2>2
<1> HIDE DEF step
<1>4. g = Step(g)
  <2>1. \A n \in 0 .. Len(t) : g[n] = Step(g)[n]
    BY <1>0, <1>2, <1>3
  <2> QED
    BY <1>2, <2>1
<1>5. f = Step(f)
  BY <1>4
<1>6. Sorted(s) = f[Len(t)]
  BY DEF Sorted
<1> HIDE DEF f
<1>7. f[0] = <<>> /\ \A n \in 1 .. Len(t) : f[n] = Placed(f[n - 1], t[n])
  BY <1>0, <1>5
<1>8. \A n \in 0 .. Len(t) : f[n] \in Seq(Version)
  <2> DEFINE T == {n \in 0 .. Len(t) : f[n] \in Seq(Version)}
  <2>0. f[0] \in Seq(Version) /\ 0 \in 0 .. Len(t)
    BY <1>0, <1>7
  <2>1. T \in SUBSET (0 .. Len(t)) /\ 0 \in T
    BY <2>0
  <2>2. ASSUME NEW n \in 1 .. Len(t), n - 1 \in T
        PROVE  n \in T
    <3>1. f[n - 1] \in Seq(Version) /\ t[n] \in Version /\ n \in 0 .. Len(t)
      BY <1>0, <2>2
    <3>2. Placed(f[n - 1], t[n]) \in Seq(Version)
      BY <3>1, PlacedIsInserted
    <3> QED
      BY <1>7, <3>1, <3>2
  <2>3. \A n \in 0 .. Len(t) : n \in T
    <3> HIDE DEF T
    <3> QED
      BY <1>0, <2>1, <2>2, StepByStep
  <2> QED
    BY <2>3
<1>9. f \in [0 .. Len(t) -> Seq(Version)]
  BY <1>5, <1>8
<1> QED
  BY <1>6, <1>7, <1>9

LEMMA GreatestNumber ==
    ASSUME NEW N \in Nat, NEW D \in SUBSET (1 .. N), D # {}
    PROVE  \E k \in D : \A m \in D : m <= k
<1> DEFINE R == {N - m : m \in D}
<1>1. R \in SUBSET Nat /\ R # {}
  <2>1. \A m \in D : m \in Nat /\ N - m \in Nat
    OBVIOUS
  <2>2. R \subseteq Nat
    BY <2>1
  <2> QED
    BY <2>2
<1>2. PICK r \in R : \A q \in R : r <= q
  BY <1>1, LeastNumber
<1>3. PICK k \in D : r = N - k
  BY <1>2
<1>4. \A m \in D : N - k <= N - m
  BY <1>2, <1>3
<1>5. \A m \in D : m <= k
  BY <1>3, <1>4
<1> QED
  BY <1>3, <1>5

\* OnePerPath leaves a list of versions as it is when no two have a path in
\* common, and a list of versions in any case.
LEMMA OnePerPathByStep ==
    ASSUME NEW s \in Seq(Version)
    PROVE  /\ OnePerPath(s) \in Seq(Version)
           /\ (\A i, j \in DOMAIN s : i # j => s[i].path # s[j].path) => OnePerPath(s) = s
<1> DEFINE N == Len(s)
           Copies(i) == {j \in DOMAIN s : s[j].path = s[i].path}
           Firsts == {i \in DOMAIN s : \A j \in Copies(i) : i <= j}
           Latest(i) == CHOOSE j \in Copies(i) : \A k \in Copies(i) : k <= j
           Next1(q, n) == IF n \in Firsts THEN Append(q, s[Latest(n)]) ELSE q
           Step(f) == [n \in 0 .. N |->
               IF n = 0 THEN <<>>
               ELSE IF n \in Firsts THEN Append(f[n - 1], s[Latest(n)]) ELSE f[n - 1]]
           f == CHOOSE g : g = Step(g)
           step == [x \in Seq(Version) \X (1 .. N) |-> Next1(x[1], x[2])]
<1>0. /\ N \in Nat /\ DOMAIN s = 1 .. N
      /\ \A n \in 1 .. N : s[n] \in Version
  OBVIOUS
<1>1. ASSUME NEW n \in 1 .. N
      PROVE  Latest(n) \in Copies(n)
  <2>1. Copies(n) \in SUBSET (1 .. N) /\ Copies(n) # {}
    BY <1>0
  <2> HIDE DEF Copies
  <2>2. \E j \in Copies(n) : \A k \in Copies(n) : k <= j
    BY <1>0, <2>1, GreatestNumber
  <2> QED
    BY <2>2
<1>2. \A n \in 1 .. N : s[Latest(n)] \in Version
  <2> SUFFICES ASSUME NEW n \in 1 .. N PROVE s[Latest(n)] \in Version
    OBVIOUS
  <2>1. Latest(n) \in 1 .. N
    BY <1>0, <1>1
  <2> HIDE DEF Latest
  <2> QED
    BY <1>0, <2>1
<1> HIDE DEF Firsts, Latest
<1>3. ASSUME NEW q \in Seq(Version), NEW n \in 1 .. N
      PROVE  Next1(q, n) \in Seq(Version)
  <2>1. s[Latest(n)] \in Version
    BY <1>2
  <2> QED
    BY <2>1
<1> HIDE DEF N
<1>4. step \in [Seq(Version) \X (1 .. N) -> Seq(Version)]
  <2> HIDE DEF Next1
  <2> QED
    BY <1>3
<1>5. PICK g \in [0 .. N -> Seq(Version)] :
         g[0] = <<>> /\ \A n \in 1 .. N : g[n] = step[<<g[n - 1], n>>]
  <2>1. <<>> \in Seq(Version)
    OBVIOUS
  <2> HIDE DEF step
  <2>2. \E g \in [0 .. N -> Seq(Version)] : Iterates(g, N, <<>>, step)
    BY <1>0, <1>4, <2>1, Iteration
  <2> QED
    BY <2>2 DEF Iterates
<1>6. \A n \in 1 .. N : g[n] = Next1(g[n - 1], n)
  <2> SUFFICES ASSUME NEW n \in 1 .. N
               PROVE  g[n] = Next1(g[n - 1], n)
    OBVIOUS
  <2>1. n - 1 \in 0 .. N
    BY <1>0
  <2>2. <<g[n - 1], n>> \in Seq(Version) \X (1 .. N)
    BY <1>5, <2>1
  <2> HIDE DEF Next1
  <2> QED
    BY <1>5, <2>2
<1> HIDE DEF step
<1>7. g = Step(g)
  <2>1. ASSUME NEW n \in 0 .. N
        PROVE  g[n] = Step(g)[n]
    <3>1. CASE n = 0
      BY <1>5, <3>1
    <3>2. CASE n # 0
      <4>1. g[n] = Next1(g[n - 1], n)
        <5>1. n \in 1 .. N
          BY <1>0, <3>2
        <5> HIDE DEF Next1
        <5> QED
          BY <1>6, <5>1
      <4>2. Step(g)[n] = Next1(g[n - 1], n)
        BY <3>2
      <4> QED
        BY <4>1, <4>2
    <3> QED
      BY <3>1, <3>2
  <2> QED
    BY <1>5, <2>1
<1>8. f = Step(f)
  BY <1>7
<1>9. OnePerPath(s) = f[N]
  BY DEF OnePerPath, Firsts, Latest, N
<1> HIDE DEF f
<1>10. f[0] = <<>> /\ \A n \in 1 .. N : f[n] = Next1(f[n - 1], n)
  <2>1. f[0] = <<>>
    BY <1>0, <1>8
  <2>2. ASSUME NEW n \in 1 .. N
        PROVE  f[n] = Next1(f[n - 1], n)
    <3>1. n \in 0 .. N /\ n # 0
      BY <1>0
    <3>2. Step(f)[n] = Next1(f[n - 1], n)
      BY <3>1
    <3> HIDE DEF Next1, Step
    <3> QED
      BY <1>8, <3>2
  <2> QED
    BY <2>1, <2>2
<1>11. OnePerPath(s) \in Seq(Version)
  <2> DEFINE T == {n \in 0 .. N : f[n] \in Seq(Version)}
  <2>1. T \in SUBSET (0 .. N) /\ 0 \in T
    <3>1. f[0] \in Seq(Version) /\ 0 \in 0 .. N
      BY <1>0, <1>10
    <3> QED
      BY <3>1
  <2>2. ASSUME NEW n \in 1 .. N, n - 1 \in T
        PROVE  n \in T
    <3>1. f[n - 1] \in Seq(Version) /\ n \in 0 .. N
      BY <1>0, <2>2
    <3> HIDE DEF Next1
    <3> QED
      BY <1>3, <1>10, <3>1
  <2>3. \A n \in 0 .. N : n \in T
    <3> HIDE DEF T
    <3> QED
      BY <1>0, <2>1, <2>2, StepByStep
  <2>4. N \in 0 .. N
    BY <1>0
  <2> QED
    BY <1>9, <2>3, <2>4
<1>12. ASSUME \A i, j \in DOMAIN s : i # j => s[i].path # s[j].path
       PROVE  OnePerPath(s) = s
  <2>1. ASSUME NEW n \in 1 .. N
        PROVE  n \in Firsts /\ Latest(n) = n
    <3>1. Copies(n) = {n}
      BY <1>0, <1>12
    <3> HIDE DEF Copies
    <3>2. n \in Firsts
      BY <1>0, <3>1 DEF Firsts
    <3>3. Latest(n) = n
      BY <1>0, <1>1, <3>1
    <3> QED
      BY <3>2, <3>3
  <2>2. \A n \in 1 .. N : f[n] = Append(f[n - 1], s[n])
    BY <1>10, <2>1
  <2> DEFINE T == {n \in 0 .. N : f[n] = SubSeq(s, 1, n)}
  <2>3. T \in SUBSET (0 .. N) /\ 0 \in T
    <3>1. f[0] = SubSeq(s, 1, 0) /\ 0 \in 0 .. N
      BY <1>0, <1>10
    <3> QED
      BY <3>1
  <2>4. ASSUME NEW n \in 1 .. N, n - 1 \in T
        PROVE  n \in T
    <3>1. f[n - 1] = SubSeq(s, 1, n - 1) /\ n \in 0 .. N
      BY <1>0, <2>4
    <3>2. Append(SubSeq(s, 1, n - 1), s[n]) = SubSeq(s, 1, n)
      BY <1>0 DEF N
    <3> QED
      BY <2>2, <3>1, <3>2
  <2>5. \A n \in 0 .. N : n \in T
    <3> HIDE DEF T
    <3> QED
      BY <1>0, <2>3, <2>4, StepByStep
  <2>6. f[N] = SubSeq(s, 1, N)
    BY <1>0, <2>5
  <2>7. SubSeq(s, 1, N) = s
    BY <1>0 DEF N
  <2> QED
    BY <1>9, <2>6, <2>7
<1> QED
  BY <1>11, <1>12

\* What Sorted returns is what OnePerPath leaves, in order.
LEMMA SortedIsOrdered ==
    ASSUME NEW s, NEW t \in Seq(Version), t = OnePerPath(s)
    PROVE  /\ Sorted(s) \in Seq(Version) /\ InOrder(Sorted(s))
           /\ Listed(Sorted(s)) = Listed(t) /\ Len(Sorted(s)) = Len(t)
<1>0. Len(t) \in Nat /\ \A n \in 1 .. Len(t) : t[n] \in Version
  OBVIOUS
<1>1. PICK f \in [0 .. Len(t) -> Seq(Version)] :
         /\ f[0] = <<>> /\ \A n \in 1 .. Len(t) : f[n] = Placed(f[n - 1], t[n])
         /\ Sorted(s) = f[Len(t)]
  BY SortedBySteps
<1> DEFINE T == {n \in 0 .. Len(t) :
                   /\ f[n] \in Seq(Version) /\ InOrder(f[n])
                   /\ Listed(f[n]) = {t[k] : k \in 1 .. n} /\ Len(f[n]) = n}
<1>2. T \in SUBSET (0 .. Len(t)) /\ 0 \in T
  <2>1. f[0] \in Seq(Version) /\ Len(f[0]) = 0 /\ 0 \in 0 .. Len(t)
    BY <1>0, <1>1
  <2>2. InOrder(f[0]) /\ Listed(f[0]) = {t[k] : k \in 1 .. 0}
    BY <2>1 DEF InOrder, Listed
  <2> QED
    BY <2>1, <2>2
<1>3. ASSUME NEW n \in 1 .. Len(t), n - 1 \in T
      PROVE  n \in T
  <2> DEFINE q == f[n - 1]
  <2>1. /\ q \in Seq(Version) /\ InOrder(q) /\ Listed(q) = {t[k] : k \in 1 .. n - 1}
        /\ Len(q) = n - 1 /\ n \in 0 .. Len(t) /\ t[n] \in Version
    BY <1>0, <1>3
  <2>2. f[n] = Placed(q, t[n])
    BY <1>1
  <2> HIDE DEF q
  <2>3. InOrder(f[n]) /\ Listed(f[n]) = Listed(q) \cup {t[n]}
    BY <2>1, <2>2, PlacedKeepsOrder, PlacedAddsOne
  <2>4. f[n] \in Seq(Version) /\ Len(f[n]) = n
    <3>1. Placed(q, t[n]) \in Seq(Version) /\ Len(Placed(q, t[n])) = Len(q) + 1
      BY <2>1, PlacedIsInserted
    <3> QED
      BY <2>1, <2>2, <3>1
  <2>5. {t[k] : k \in 1 .. n} = {t[k] : k \in 1 .. n - 1} \cup {t[n]}
    <3>1. \A k \in 1 .. n : k \in 1 .. n - 1 \/ k = n
      OBVIOUS
    <3>2. \A k \in 1 .. n - 1 : k \in 1 .. n
      OBVIOUS
    <3>3. n \in 1 .. n
      OBVIOUS
    <3> QED
      BY <3>1, <3>2, <3>3, Zenon
  <2> QED
    BY <2>1, <2>3, <2>4, <2>5
<1>4. \A n \in 0 .. Len(t) : n \in T
  <2> HIDE DEF T
  <2> QED
    BY <1>0, <1>2, <1>3, StepByStep
<1>5. Len(t) \in T
  BY <1>0, <1>4
<1>6. /\ Sorted(s) \in Seq(Version) /\ InOrder(Sorted(s)) /\ Len(Sorted(s)) = Len(t)
      /\ Listed(Sorted(s)) = {t[k] : k \in 1 .. Len(t)}
  BY <1>1, <1>5
<1>7. Listed(t) = {t[k] : k \in 1 .. Len(t)}
  BY DEF Listed
<1> QED
  BY <1>6, <1>7

\* Two versions of which neither is newer have equal texts: the comparison ends
\* with the text, after all else is found equal.
LEMMA EquallyNewHaveOneText ==
    ASSUME NEW a \in Version, NEW b \in Version, ~Newer(a, b), ~Newer(b, a)
    PROVE  a.text = b.text
  BY ScoresAreNatural DEF Newer

(***************************************************************************)
(* The properties of the selection, for every list of versions.            *)
(***************************************************************************)

\* The list of versions is one, of versions that the indexer may find.
THEOREM VersionsTypeCorrect == VersionsSpec => []VersionsTypeOK
<1>1. VersionsInit => VersionsTypeOK
  BY VersionsAssumption DEF VersionsInit, VersionsTypeOK
<1>2. VersionsTypeOK /\ [VersionsNext]_listed => VersionsTypeOK'
  <2> SUFFICES ASSUME VersionsTypeOK, [VersionsNext]_listed
               PROVE  VersionsTypeOK'
    OBVIOUS
  <2>0. /\ listed \in Seq(OfferedVersions) /\ Len(listed) \in Nat /\ Len(listed) <= MaxListed
        /\ MaxListed \in Nat
    BY VersionsAssumption DEF VersionsTypeOK
  <2>1. CASE RecordOffered
    <3>1. PICK v \in OfferedVersions, i \in 0 .. Len(listed) :
             listed' = SubSeq(listed, 1, i) \o <<v>> \o SubSeq(listed, i + 1, Len(listed))
      BY <2>1 DEF RecordOffered
    <3>2. Len(listed) < MaxListed
      BY <2>1 DEF RecordOffered
    <3> DEFINE a == SubSeq(listed, 1, i)
               b == SubSeq(listed, i + 1, Len(listed))
    <3>3. a \in Seq(OfferedVersions) /\ b \in Seq(OfferedVersions)
      BY <2>0
    <3>4. Len(a) = i /\ Len(b) = Len(listed) - i
      BY <2>0
    <3> HIDE DEF a, b
    <3>5. /\ a \o <<v>> \o b \in Seq(OfferedVersions)
          /\ ElementsAround(a \o <<v>> \o b, a, v, b)
      BY <3>3, AroundOne
    <3>6. listed' = a \o <<v>> \o b
      BY <3>1 DEF a, b
    <3>7. listed' \in Seq(OfferedVersions) /\ ElementsAround(listed', a, v, b)
      BY <3>5, <3>6
    <3>8. Len(listed') = Len(a) + 1 + Len(b)
      BY <3>7 DEF ElementsAround
    <3>9. Len(listed') <= MaxListed
      BY <2>0, <3>2, <3>4, <3>8
    <3> QED
      BY <3>7, <3>9 DEF VersionsTypeOK
  <2>2. CASE DropVersion
    <3>1. PICK i \in DOMAIN listed :
             listed' = SubSeq(listed, 1, i - 1) \o SubSeq(listed, i + 1, Len(listed))
      BY <2>2 DEF DropVersion
    <3>2. i \in 1 .. Len(listed)
      BY <2>0
    <3> DEFINE a == SubSeq(listed, 1, i - 1)
               b == SubSeq(listed, i + 1, Len(listed))
    <3>3. a \in Seq(OfferedVersions) /\ b \in Seq(OfferedVersions)
      BY <2>0, <3>2
    <3>4. Len(a) = i - 1 /\ Len(b) = Len(listed) - i
      BY <2>0, <3>2
    <3>5. listed' = a \o b
      BY <3>1
    <3> HIDE DEF a, b
    <3>6. a \o b \in Seq(OfferedVersions) /\ Len(a \o b) = Len(a) + Len(b)
      BY <3>3, ConcatProperties, Zenon
    <3>7. Len(listed') <= MaxListed
      BY <2>0, <3>2, <3>4, <3>5, <3>6
    <3> QED
      BY <3>5, <3>6, <3>7 DEF VersionsTypeOK
  <2>3. CASE UNCHANGED listed
    BY <2>3 DEF VersionsTypeOK
  <2> QED
    BY <2>1, <2>2, <2>3 DEF VersionsNext
<1> QED
  BY <1>1, <1>2, PTL DEF VersionsSpec

LEMMA VersionsAreListed == VersionsTypeOK => listed \in Seq(Version)
<1>1. VersionsTypeOK => listed \in Seq(OfferedVersions)
  BY DEF VersionsTypeOK
<1>2. Seq(OfferedVersions) \subseteq Seq(Version)
  BY VersionsAssumption
<1> QED
  BY <1>1, <1>2

\* Whatever versions a game has, sortGameVersions returns none of them behind one
\* that it finds older.
THEOREM NewestComesFirst == VersionsSpec => []NewestFirst
<1>1. ASSUME listed \in Seq(Version)
      PROVE  NewestFirst
  <2>1. OnePerPath(listed) \in Seq(Version)
    BY <1>1, OnePerPathByStep
  <2>2. Sorted(listed) \in Seq(Version) /\ InOrder(Sorted(listed))
    BY <2>1, SortedIsOrdered
  <2> QED
    BY <2>2 DEF NewestFirst, InOrder
<1> QED
  BY <1>1, VersionsTypeCorrect, VersionsAreListed, PTL

\* Of versions with a path each, the default is one that no other is newer than.
LEMMA DefaultIsNewest ==
    ASSUME NEW s \in Seq(Version), s # <<>>,
           \A i, j \in DOMAIN s : i # j => s[i].path # s[j].path
    PROVE  Default(s) \in Listed(s) /\ \A v \in Listed(s) : ~Newer(v, Default(s))
<1> DEFINE t == Sorted(s)
<1>1. OnePerPath(s) = s
  BY OnePerPathByStep
<1>2. t \in Seq(Version) /\ InOrder(t) /\ Listed(t) = Listed(s) /\ Len(t) = Len(s)
  BY <1>1, SortedIsOrdered
<1>3. Default(s) = Head(t)
  BY DEF Default
<1> HIDE DEF t
<1>4. Len(t) \in Nat /\ Len(t) >= 1 /\ Head(t) = t[1]
  BY <1>2
<1>5. Head(t) \in Listed(t)
  BY <1>4 DEF Listed
<1>6. ASSUME NEW k \in 1 .. Len(t)
      PROVE  ~Newer(t[k], t[1])
  <2>1. CASE k = 1
    <3>1. t[1] \in Version
      BY <1>2, <1>4
    <3> QED
      BY <2>1, <3>1, NewerIsAsymmetric
  <2>2. CASE k # 1
    BY <1>2, <1>4, <2>2 DEF InOrder
  <2> QED
    BY <2>1, <2>2
<1>7. \A v \in Listed(t) : ~Newer(v, Head(t))
  BY <1>4, <1>6 DEF Listed
<1> QED
  BY <1>2, <1>3, <1>5, <1>7

\* Two queries that return the same rows, a version for each path, in whatever
\* orders, get the same version as the default of selectDefaultGameVersion.
THEOREM DefaultDependsOnTheRows ==
    ASSUME NEW s \in Seq(Version), NEW r \in Seq(Version), s # <<>>, r # <<>>,
           \A i, j \in DOMAIN s : i # j => s[i].path # s[j].path,
           \A i, j \in DOMAIN r : i # j => r[i].path # r[j].path,
           Listed(s) = Listed(r)
    PROVE  Default(s).text = Default(r).text
<1>1. /\ Default(s) \in Listed(s) /\ \A v \in Listed(s) : ~Newer(v, Default(s))
      /\ Default(r) \in Listed(r) /\ \A v \in Listed(r) : ~Newer(v, Default(r))
  BY DefaultIsNewest
<1>2. Listed(s) \subseteq Version
  BY DEF Listed
<1>3. /\ Default(s) \in Version /\ Default(r) \in Version
      /\ ~Newer(Default(s), Default(r)) /\ ~Newer(Default(r), Default(s))
  BY <1>1, <1>2
<1> QED
  BY <1>3, EquallyNewHaveOneText

\* Whatever versions a game has, the default that selectDefaultGameVersion takes
\* is the same for the order of the rows and for its reverse.
THEOREM RowOrderDoesNotCount == VersionsSpec => []DefaultIgnoresRowOrder
<1>1. ASSUME listed \in Seq(Version)
      PROVE  DefaultIgnoresRowOrder
  <2> DEFINE back == [i \in DOMAIN listed |-> listed[Len(listed) + 1 - i]]
  <2> SUFFICES ASSUME \A i, j \in DOMAIN listed : i # j => listed[i].path # listed[j].path,
                      listed # <<>>
               PROVE  Default(listed).text = Default(back).text
    BY DEF DefaultIgnoresRowOrder
  <2>1. Len(listed) \in Nat /\ DOMAIN listed = 1 .. Len(listed)
    BY <1>1
  <2>2. \A i \in 1 .. Len(listed) :
           /\ Len(listed) + 1 - i \in 1 .. Len(listed) /\ back[i] = listed[Len(listed) + 1 - i]
           /\ listed[Len(listed) + 1 - i] \in Version
    BY <1>1, <2>1
  <2>3. back \in Seq(Version) /\ Len(back) = Len(listed) /\ DOMAIN back = 1 .. Len(listed)
    BY <2>1, <2>2
  <2> HIDE DEF back
  <2>4. back # <<>>
    BY <1>1, <2>3
  <2>5. \A i, j \in DOMAIN back : i # j => back[i].path # back[j].path
    BY <2>1, <2>2, <2>3
  <2>6. Listed(back) \subseteq Listed(listed)
    BY <2>2, <2>3 DEF Listed
  <2>7. Listed(listed) \subseteq Listed(back)
    <3>1. ASSUME NEW i \in 1 .. Len(listed)
          PROVE  listed[i] \in Listed(back)
      <4>1. Len(listed) + 1 - i \in 1 .. Len(listed)
        BY <2>1
      <4>2. back[Len(listed) + 1 - i] = listed[i]
        BY <2>1, <2>2, <4>1
      <4> QED
        BY <2>3, <4>1, <4>2 DEF Listed
    <3> QED
      BY <3>1 DEF Listed
  <2>8. Listed(listed) = Listed(back)
    BY <2>6, <2>7
  <2> QED
    BY <1>1, <2>3, <2>4, <2>5, <2>8, DefaultDependsOnTheRows, Zenon
<1> QED
  BY <1>1, VersionsTypeCorrect, VersionsAreListed, PTL
================================================================================
