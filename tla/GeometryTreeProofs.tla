-------------------------- MODULE GeometryTreeProofs --------------------------
(***************************************************************************)
(* For every list of objects that lie within their bounding boxes: the     *)
(* tree loses no object, its divisions shrink, and a point looked up in it *)
(* or lowered by the tile is told what a scan of the whole list says.      *)
(***************************************************************************)
EXTENDS GeometryTree, FiniteSetTheorems, NaturalsInduction, SequenceTheorems,
        WellFoundedInduction, TLAPS

(***************************************************************************)
(* The first and the last index of a set of indices.                       *)
(***************************************************************************)
Less == {ss \in Nat \X Nat : ss[1] < ss[2]}

\* The order of the naturals is well founded.
LEMMA LessWellFounded == IsWellFoundedOn(Less, Nat)
BY NatLessThanWellFounded DEF OpToRel, Less

\* A nonempty set of naturals has a least element, which First picks.
LEMMA FirstIsLeast ==
  ASSUME NEW S, S \subseteq Nat, S # {}
  PROVE  First(S) \in S /\ \A j \in S : First(S) <= j
<1>1. PICK i \in S : \A j \in S : ~(<<j, i>> \in Less)
  BY LessWellFounded, WFMin, Zenon
<1>2. ASSUME NEW j \in S PROVE i <= j
  <2>1. i \in Nat /\ j \in Nat
    OBVIOUS
  <2>2. j < i => <<j, i>> \in Less
    BY <2>1 DEF Less
  <2>3. ~(j < i)
    BY <1>1, <2>2
  <2> QED BY <2>1, <2>3
<1>3. \E k \in S : \A j \in S : k <= j
  BY <1>2
<1> QED BY <1>3, Zenon DEF First

(* S is a set of indices of a list of n objects. *)
Upto(n, S) == n \in Nat /\ S \subseteq 1..n

\* A nonempty set of indices up to n has a greatest element, which Last picks.
LEMMA LastIsGreatest ==
  ASSUME NEW n, NEW S, Upto(n, S), S # {}
  PROVE  Last(S) \in S /\ \A j \in S : j <= Last(S)
<1>0. n \in Nat /\ S \subseteq 1..n
  BY DEF Upto
<1> DEFINE M == {n - i : i \in S}
<1>1. M \subseteq Nat /\ M # {}
  <2>1. \A i \in S : i \in 1..n /\ n - i \in Nat
    BY <1>0
  <2>2. PICK i \in S : TRUE
    OBVIOUS
  <2> QED BY <2>1, <2>2
<1> DEFINE k == First(M)
<1>2. k \in M /\ \A j \in M : k <= j
  BY <1>1, FirstIsLeast
<1> HIDE DEF k
<1>3. PICK i \in S : k = n - i
  BY <1>2
<1>4. ASSUME NEW j \in S PROVE j <= i
  <2>1. k <= n - j
    BY <1>2
  <2>2. i \in Int /\ j \in Int /\ n \in Int
    BY <1>0
  <2> QED BY <1>3, <2>1, <2>2
<1>5. \E m \in S : \A j \in S : j <= m
  BY <1>4
<1> QED BY <1>5, Zenon DEF Last

\* An element at most all the others is the one that First picks.
LEMMA FirstIs ==
  ASSUME NEW S, S \subseteq Nat, NEW i \in S, \A j \in S : i <= j
  PROVE  First(S) = i
<1> DEFINE f == First(S)
<1>1. f \in S /\ f <= i
  BY FirstIsLeast
<1> HIDE DEF f
<1>2. i <= f
  BY <1>1
<1>3. f \in Int /\ i \in Int
  BY <1>1
<1>4. f = i
  BY <1>1, <1>2, <1>3
<1> QED BY <1>4 DEF f

\* An element at least all the others is the one that Last picks.
LEMMA LastIs ==
  ASSUME NEW n, NEW S, Upto(n, S), NEW i \in S, \A j \in S : j <= i
  PROVE  Last(S) = i
<1> DEFINE t == Last(S)
<1>1. t \in S /\ i <= t
  BY LastIsGreatest
<1> HIDE DEF t
<1>2. t <= i
  BY <1>1
<1>3. t \in Int /\ i \in Int
  BY <1>1 DEF Upto
<1>4. t = i
  BY <1>1, <1>2, <1>3
<1> QED BY <1>4 DEF t
-----------------------------------------------------------------------------
(***************************************************************************)
(* find_object                                                             *)
(***************************************************************************)
Hits(s, list, p) == {i \in list : Contains(s, i, p)}

\* find_object returns a member of the list it is given.
LEMMA FindInList ==
  ASSUME NEW n, NEW s, NEW list, Upto(n, list), list # {}, NEW p
  PROVE  FindObject(s, list, p) \in list
<1> DEFINE hits == {i \in list \ {First(list)} : Contains(s, i, p)}
<1>1. First(list) \in list
  <2>1. list \subseteq Nat
    BY DEF Upto
  <2> QED BY <2>1, FirstIsLeast
<1>2. hits # {} => Last(hits) \in hits
  <2>1. Upto(n, hits)
    BY DEF Upto
  <2> QED BY <2>1, LastIsGreatest
<1> QED BY <1>1, <1>2 DEF FindObject

\* When some object of the list holds the point, the last such one is found.
LEMMA FindLastHit ==
  ASSUME NEW n, NEW s, NEW list, Upto(n, list), NEW p,
         Hits(s, list, p) # {}
  PROVE  FindObject(s, list, p) = Last(Hits(s, list, p))
<1> DEFINE hits == {i \in list \ {First(list)} : Contains(s, i, p)}
           H == Hits(s, list, p)
           t == Last(H)
<1>0. Upto(n, H)
  BY DEF Hits, Upto
<1>1. t \in H /\ \A j \in H : j <= t
  BY <1>0, LastIsGreatest
<1>2. First(list) \in list /\ \A j \in list : First(list) <= j
  <2>1. list # {} /\ list \subseteq Nat
    BY DEF Hits, Upto
  <2> QED BY <2>1, FirstIsLeast
<1> HIDE DEF t
<1>3. CASE t = First(list)
  <2>1. ASSUME NEW j \in hits PROVE FALSE
    <3>1. j <= t /\ t <= j /\ j # t
      BY <1>1, <1>2, <1>3 DEF Hits
    <3>2. j \in Int /\ t \in Int
      BY <1>1 DEF Hits, Upto
    <3> QED BY <3>1, <3>2
  <2>2. hits = {}
    BY <2>1
  <2> QED BY <1>3, <2>2 DEF FindObject, t
<1>4. CASE t # First(list)
  <2>1. t \in hits /\ \A j \in hits : j <= t
    BY <1>1, <1>4 DEF Hits
  <2>2. Upto(n, hits)
    BY DEF Upto
  <2>3. Last(hits) = t
    BY <2>1, <2>2, LastIs
  <2> QED BY <2>1, <2>3 DEF FindObject, t
<1> QED BY <1>3, <1>4

After(i, seen) == \A j \in seen : j < i

\* One more object behind the others either holds the point or changes nothing.
LEMMA FindAppend ==
  ASSUME NEW n, NEW s, NEW seen, seen # {}, NEW p, NEW i, After(i, seen),
         NEW list, Upto(n, list), list = seen \cup {i}
  PROVE  /\ Contains(s, i, p) => FindObject(s, list, p) = i
         /\ ~Contains(s, i, p) => FindObject(s, list, p) = FindObject(s, seen, p)
<1> DEFINE f == First(seen)
           old == {j \in seen \ {f} : Contains(s, j, p)}
           more == {j \in list \ {f} : Contains(s, j, p)}
<1>0. list \subseteq 1..n /\ n \in Nat /\ i \in 1..n
  BY DEF Upto
<1>1. f \in seen /\ \A j \in seen : f <= j
  <2>1. seen \subseteq Nat
    BY <1>0
  <2> QED BY <2>1, FirstIsLeast
<1> HIDE DEF f
<1>2. First(list) = f
  <2>1. ASSUME NEW j \in seen \cup {i} PROVE f <= j
    <3>1. CASE j \in seen
      BY <1>1, <3>1
    <3>2. CASE j = i
      <4>1. f < i /\ f \in Int
        BY <1>0, <1>1 DEF After
      <4> QED BY <1>0, <3>2, <4>1
    <3> QED BY <3>1, <3>2
  <2>2. list \subseteq Nat /\ f \in list
    BY <1>0, <1>1
  <2> QED BY <2>1, <2>2, FirstIs
<1>3. CASE Contains(s, i, p)
  <2>1. f # i
    BY <1>0, <1>1 DEF After
  <2>2. i \in more /\ Upto(n, more)
    BY <1>3, <2>1 DEF Upto
  <2>3. ASSUME NEW j \in more PROVE j <= i
    <3>1. j = i \/ j < i
      BY DEF After
    <3> QED BY <1>0, <3>1
  <2>4. Last(more) = i
    BY <2>2, <2>3, LastIs
  <2> QED BY <1>2, <1>3, <2>2, <2>4 DEF FindObject
<1>4. CASE ~Contains(s, i, p)
  <2>1. more = old
    BY <1>4
  <2> QED BY <1>2, <1>4, <2>1 DEF FindObject, f
<1> QED BY <1>3, <1>4

\* The object on top and the one beneath it, after one more object was painted.
LEMMA LookupAppend ==
  ASSUME NEW n, NEW s, NEW seen, seen # {}, NEW p, NEW i, After(i, seen),
         NEW list, Upto(n, list), list = seen \cup {i}
  PROVE  ObjectOfPoint(s, list, p)
           = IF Contains(s, i, p)
               THEN <<i, IF Compound(s, i) THEN ObjectOfPoint(s, seen, p)[1] ELSE None>>
               ELSE ObjectOfPoint(s, seen, p)
<1>1. /\ Contains(s, i, p) => FindObject(s, list, p) = i
      /\ ~Contains(s, i, p) => FindObject(s, list, p) = FindObject(s, seen, p)
  BY FindAppend
<1>2. FindObject(s, seen, p) \in seen
  <2>1. Upto(n, seen)
    BY DEF Upto
  <2> QED BY <2>1, FindInList
<1>3. {j \in list : j < i} = seen
  <2>1. ~(i < i)
    BY DEF Upto
  <2>2. \A j : j \in {k \in list : k < i} <=> j \in seen
    BY <2>1 DEF After
  <2> QED BY <2>2
<1>4. ASSUME NEW t \in seen
      PROVE  {j \in list : j < t} = {j \in seen : j < t}
  <2>1. t < i /\ t \in Int /\ i \in Int
    BY DEF After, Upto
  <2>2. ~(i < t)
    BY <2>1
  <2> QED BY <2>2
<1>5. CASE Contains(s, i, p)
  <2>1. Beneath(s, list, i, p) = FindObject(s, seen, p)
    BY <1>3 DEF Beneath
  <2> QED BY <1>1, <1>5, <2>1 DEF ObjectOfPoint
<1>6. CASE ~Contains(s, i, p)
  <2>1. Beneath(s, list, FindObject(s, seen, p), p)
          = Beneath(s, seen, FindObject(s, seen, p), p)
    BY <1>2, <1>4 DEF Beneath
  <2> QED BY <1>1, <1>6, <2>1 DEF ObjectOfPoint
<1> QED BY <1>5, <1>6

\* A list that keeps every object holding the point answers as the whole list,
\* provided a plain object, such as the default medium, is among them.
LEMMA ShortListSuffices ==
  ASSUME NEW n, NEW s, NEW whole, Upto(n, whole), NEW short, short \subseteq whole,
         NEW p, Hits(s, whole, p) \subseteq short,
         NEW m \in whole, Contains(s, m, p), ~Compound(s, m)
  PROVE  ObjectOfPoint(s, short, p) = ObjectOfPoint(s, whole, p)
<1> DEFINE t == Last(Hits(s, whole, p))
<1>1. Hits(s, short, p) = Hits(s, whole, p) /\ m \in Hits(s, whole, p)
  BY DEF Hits
<1>2. FindObject(s, short, p) = t /\ FindObject(s, whole, p) = t
  <2>1. Upto(n, short)
    BY DEF Upto
  <2> QED BY <1>1, <2>1, FindLastHit
<1>3. t \in 1..n /\ m <= t /\ (Compound(s, t) => m < t)
  <2>1. Upto(n, Hits(s, whole, p))
    BY DEF Hits, Upto
  <2>2. t \in Hits(s, whole, p) /\ m <= t
    BY <1>1, <2>1, LastIsGreatest
  <2> HIDE DEF t
  <2>3. t \in 1..n /\ m \in 1..n
    BY <2>1, <2>2 DEF Upto
  <2>4. Compound(s, t) => m # t
    OBVIOUS
  <2> QED BY <2>2, <2>3, <2>4
<1>4. CASE ~Compound(s, t)
  BY <1>2, <1>4 DEF ObjectOfPoint
<1>5. CASE Compound(s, t)
  <2> DEFINE A == {j \in short : j < t}
             B == {j \in whole : j < t}
  <2>1. Hits(s, A, p) = Hits(s, B, p) /\ m \in Hits(s, B, p)
    BY <1>1, <1>3, <1>5 DEF Hits
  <2>2. A # {} /\ B # {} /\ Upto(n, A) /\ Upto(n, B)
    BY <2>1 DEF Hits, Upto
  <2>3. FindObject(s, A, p) = FindObject(s, B, p)
    BY <2>1, <2>2, FindLastHit
  <2>4. Beneath(s, short, t, p) = Beneath(s, whole, t, p)
    BY <2>2, <2>3 DEF Beneath
  <2> QED BY <1>2, <2>4 DEF ObjectOfPoint
<1> QED BY <1>4, <1>5
-----------------------------------------------------------------------------
(***************************************************************************)
(* Dividing a node                                                         *)
(***************************************************************************)
Proper(b) == b \in Boxes /\ \A a \in Axes : b.low[a] <= b.high[a]

Reaching(s, b) == {i \in DOMAIN s : Meets(b, Box(s, i))}

\* The corner tests of GeomBox.overlap decide whether two boxes meet.
LEMMA OverlapIsMeeting ==
  ASSUME NEW b, NEW c, Proper(b), Proper(c)
  PROVE  Overlap(b, c) <=> Meets(b, c)
<1>1. \A a \in Axes : /\ b.low[a] \in Int /\ b.high[a] \in Int /\ b.low[a] <= b.high[a]
                      /\ c.low[a] \in Int /\ c.high[a] \in Int /\ c.low[a] <= c.high[a]
  BY DEF Proper, Boxes
<1> QED BY <1>1 DEF Overlap, Meets, Between

\* What the assumptions say of a scene.
LEMMA SceneFacts ==
  ASSUME NEW s \in Scenes
  PROVE  /\ Upto(Len(s), DOMAIN s) /\ IsFiniteSet(DOMAIN s)
         /\ \A i \in DOMAIN s : Proper(Box(s, i))
         /\ \A p \in Points : \E m \in DOMAIN s : Contains(s, m, p) /\ ~Compound(s, m)
         /\ \A i \in DOMAIN s, p \in Points : Contains(s, i, p) => InBox(Box(s, i), p)
<1>1. Upto(Len(s), DOMAIN s)
  BY SceneAssumption DEF Upto
<1>2. IsFiniteSet(DOMAIN s)
  BY SceneAssumption, FS_Interval
<1>3. \A i \in DOMAIN s : Proper(Box(s, i))
  BY ShapeAssumption DEF Proper, Box
<1>4. ASSUME NEW p \in Points
      PROVE  \E m \in DOMAIN s : Contains(s, m, p) /\ ~Compound(s, m)
  <2>1. PICK m \in DOMAIN s : s[m].kind = "medium" /\ s[m].compound = FALSE
    BY SceneAssumption
  <2>2. InBox(Everywhere, p)
    BY PointAssumption, InfAssumption DEF InBox, Everywhere, Axes
  <2> QED BY <2>1, <2>2 DEF Contains, InObject, Compound
<1>5. \A i \in DOMAIN s, p \in Points : Contains(s, i, p) => InBox(Box(s, i), p)
  BY ShapeAssumption DEF Contains, Box
<1> QED BY <1>1, <1>2, <1>3, <1>4, <1>5

\* An improving cut has an object wholly above it and one wholly below it.
LEMMA CutSeparates ==
  ASSUME NEW s \in Scenes, NEW list, list \subseteq DOMAIN s,
         NEW c \in Cuts(list), Improves(s, list, c)
  PROVE  /\ \E i \in list : ~(Box(s, i).low[c[1]] <= CutCoordinate(s, c))
         /\ \E i \in list : ~(Box(s, i).high[c[1]] >= CutCoordinate(s, c))
<1> DEFINE x == CutCoordinate(s, c)
           L == {i \in list : Box(s, i).low[c[1]] <= x}
           H == {i \in list : Box(s, i).high[c[1]] >= x}
<1>1. IsFiniteSet(list)
  BY SceneFacts, FS_Subset
<1>2. Cardinality(list) \in Nat /\ Cardinality(L) \in Nat /\ Cardinality(H) \in Nat
  <2>1. L \in SUBSET list /\ H \in SUBSET list
    OBVIOUS
  <2> QED BY <1>1, <2>1, FS_Subset, FS_CardinalityType
<1>3. Cardinality(L) < Cardinality(list) /\ Cardinality(H) < Cardinality(list)
  BY <1>2 DEF Improves, Worst
<1> HIDE DEF L, H
<1>4. L # list /\ H # list
  BY <1>2, <1>3
<1> QED BY <1>4 DEF L, H

\* The two halves of a proper box divided strictly inside it.
LEMMA HalvesProper ==
  ASSUME NEW b, Proper(b), NEW a \in Axes, NEW x \in Int, b.low[a] < x, x < b.high[a]
  PROVE  /\ Proper(Below(b, a, x)) /\ Proper(Above(b, a, x))
         /\ Below(b, a, x).low = b.low /\ Above(b, a, x).high = b.high
         /\ Below(b, a, x).high[a] = x /\ Above(b, a, x).low[a] = x
         /\ \A k \in Axes \ {a} : /\ Below(b, a, x).high[k] = b.high[k]
                                 /\ Above(b, a, x).low[k] = b.low[k]
<1> DEFINE h == [b.high EXCEPT ![a] = x]
           l == [b.low EXCEPT ![a] = x]
<1>1. b \in Boxes /\ b.low \in [Axes -> -Inf .. Inf] /\ b.high \in [Axes -> -Inf .. Inf]
  BY DEF Proper, Boxes
<1>2. x \in -Inf .. Inf
  <2>1. b.low[a] \in -Inf .. Inf /\ b.high[a] \in -Inf .. Inf
    BY <1>1
  <2> QED BY <2>1, InfAssumption
<1>3. h \in [Axes -> -Inf .. Inf] /\ h[a] = x /\ \A k \in Axes \ {a} : h[k] = b.high[k]
  BY <1>1, <1>2
<1>4. l \in [Axes -> -Inf .. Inf] /\ l[a] = x /\ \A k \in Axes \ {a} : l[k] = b.low[k]
  BY <1>1, <1>2
<1>5. Below(b, a, x) = [low |-> b.low, high |-> h]
  BY <1>1 DEF Below, Boxes
<1>6. Above(b, a, x) = [low |-> l, high |-> b.high]
  BY <1>1 DEF Above, Boxes
<1> HIDE DEF h, l
<1>7. \A k \in Axes : b.low[k] <= b.high[k] /\ b.low[k] \in Int /\ b.high[k] \in Int
  BY <1>1 DEF Proper
<1>8. \A k \in Axes : b.low[k] <= h[k]
  BY <1>3, <1>7
<1>9. \A k \in Axes : l[k] <= b.high[k]
  BY <1>4, <1>7
<1>10. Proper(Below(b, a, x)) /\ Proper(Above(b, a, x))
  BY <1>1, <1>3, <1>4, <1>5, <1>6, <1>8, <1>9 DEF Proper, Boxes
<1> QED BY <1>3, <1>4, <1>5, <1>6, <1>10

\* An improving cut of a node that has all the objects reaching into its box
\* gives two halves that have all the objects reaching into theirs, and fewer.
LEMMA HalvesReach ==
  ASSUME NEW s \in Scenes, NEW b, Proper(b), NEW list, list = Reaching(s, b),
         NEW c \in Cuts(list), Improves(s, list, c),
         NEW x, x = CutCoordinate(s, c), NEW a, a = c[1]
  PROVE  /\ a \in Axes /\ x \in Int /\ b.low[a] < x /\ x < b.high[a]
         /\ Overlapping(s, list, Below(b, a, x)) = Reaching(s, Below(b, a, x))
         /\ Overlapping(s, list, Above(b, a, x)) = Reaching(s, Above(b, a, x))
         /\ Cardinality(Overlapping(s, list, Below(b, a, x))) < Cardinality(list)
         /\ Cardinality(Overlapping(s, list, Above(b, a, x))) < Cardinality(list)
<1>1. a \in Axes /\ c[3] \in list /\ list \subseteq DOMAIN s
  BY DEF Cuts, Reaching
<1>2. \A i \in DOMAIN s : Proper(Box(s, i))
  BY SceneFacts
<1>3. \A i \in list, k \in Axes :
        /\ Box(s, i).low[k] \in Int /\ Box(s, i).high[k] \in Int
        /\ Box(s, i).low[k] <= b.high[k] /\ b.low[k] <= Box(s, i).high[k]
  BY <1>1, <1>2 DEF Proper, Boxes, Reaching, Meets
<1>4. \A k \in Axes : b.low[k] \in Int /\ b.high[k] \in Int /\ b.low[k] <= b.high[k]
  BY DEF Proper, Boxes
<1>5. x \in Int
  BY <1>1, <1>3, SceneAssumption DEF CutCoordinate, Offset
<1>6. PICK u \in list : ~(Box(s, u).low[a] <= x)
  BY <1>1, CutSeparates
<1>7. PICK v \in list : ~(Box(s, v).high[a] >= x)
  BY <1>1, CutSeparates
<1>8. b.low[a] < x /\ x < b.high[a]
  BY <1>1, <1>3, <1>4, <1>5, <1>6, <1>7
<1> DEFINE B1 == Below(b, a, x)
           B2 == Above(b, a, x)
<1>9. /\ Proper(B1) /\ Proper(B2) /\ B1.low = b.low /\ B2.high = b.high
      /\ B1.high[a] = x /\ B2.low[a] = x
      /\ \A k \in Axes \ {a} : B1.high[k] = b.high[k] /\ B2.low[k] = b.low[k]
  BY <1>1, <1>5, <1>8, HalvesProper
<1> HIDE DEF B1, B2
<1>10. ASSUME NEW i \in DOMAIN s
       PROVE  (Meets(B1, Box(s, i)) => i \in list) /\ (Meets(B2, Box(s, i)) => i \in list)
  <2>1. \A k \in Axes : Box(s, i).low[k] \in Int /\ Box(s, i).high[k] \in Int
    BY <1>2 DEF Proper, Boxes
  <2>2. \A k \in Axes : B1.high[k] <= b.high[k] /\ B1.high[k] \in Int
    BY <1>4, <1>5, <1>8, <1>9
  <2>3. \A k \in Axes : b.low[k] <= B2.low[k] /\ B2.low[k] \in Int
    BY <1>4, <1>5, <1>8, <1>9
  <2>4. Meets(B1, Box(s, i)) => Meets(b, Box(s, i))
    BY <1>4, <1>9, <2>1, <2>2 DEF Meets
  <2>5. Meets(B2, Box(s, i)) => Meets(b, Box(s, i))
    BY <1>4, <1>9, <2>1, <2>3 DEF Meets
  <2> QED BY <2>4, <2>5 DEF Reaching
<1>11. ASSUME NEW B, Proper(B), \A i \in DOMAIN s : Meets(B, Box(s, i)) => i \in list
       PROVE  Overlapping(s, list, B) = Reaching(s, B)
  <2>1. \A i \in list : Overlap(B, Box(s, i)) <=> Meets(B, Box(s, i))
    BY <1>1, <1>2, <1>11, OverlapIsMeeting
  <2> QED BY <1>1, <1>11, <2>1 DEF Overlapping, Reaching
<1>12. Overlapping(s, list, B1) = Reaching(s, B1) /\ Overlapping(s, list, B2) = Reaching(s, B2)
  BY <1>9, <1>10, <1>11
<1>13. u \notin Reaching(s, B1) /\ v \notin Reaching(s, B2)
  BY <1>1, <1>3, <1>5, <1>6, <1>7, <1>9 DEF Reaching, Meets
<1>14. ASSUME NEW L, L \subseteq list, L # list
       PROVE  Cardinality(L) < Cardinality(list)
  <2>1. IsFiniteSet(list)
    BY <1>1, SceneFacts, FS_Subset
  <2>2. /\ Cardinality(L) <= Cardinality(list) /\ Cardinality(L) # Cardinality(list)
    BY <1>14, <2>1, FS_Subset
  <2>3. Cardinality(L) \in Nat /\ Cardinality(list) \in Nat
    BY <1>14, <2>1, FS_Subset, FS_CardinalityType
  <2> QED BY <2>2, <2>3
<1>15. /\ Overlapping(s, list, B1) \subseteq list /\ Overlapping(s, list, B1) # list
       /\ Overlapping(s, list, B2) \subseteq list /\ Overlapping(s, list, B2) # list
  BY <1>12, <1>13 DEF Overlapping
<1> QED BY <1>1, <1>5, <1>8, <1>12, <1>14, <1>15 DEF B1, B2
-----------------------------------------------------------------------------
(***************************************************************************)
(* The inductive invariant.  Its three parts are about the tree, the two   *)
(* stacks, and what has been painted.                                      *)
(***************************************************************************)
NodeType(s) == [box : Boxes, list : SUBSET (DOMAIN s), cut : {<<>>} \cup (Axes \X Int)]

Halves(n) ==
  /\ Left(n) \in DOMAIN tree /\ Right(n) \in DOMAIN tree
  /\ \E a \in Axes, x \in Int :
       /\ tree[n].box.low[a] < x /\ x < tree[n].box.high[a]
       /\ tree[Left(n)].box = Below(tree[n].box, a, x)
       /\ tree[Right(n)].box = Above(tree[n].box, a, x)
  /\ Cardinality(tree[Left(n)].list) < Cardinality(tree[n].list)
  /\ Cardinality(tree[Right(n)].list) < Cardinality(tree[n].list)

NodeOK(s, nd) ==
  nd \in NodeType(s) /\ Proper(nd.box) /\ nd.list = Reaching(s, nd.box)

TreeOK ==
  /\ scene \in Scenes /\ grid \in Grids
  /\ DOMAIN tree \subseteq Seq(Nat) /\ <<>> \in DOMAIN tree /\ NoLeaf \notin DOMAIN tree
  /\ tree[<<>>].box = Everywhere
  /\ \A n \in DOMAIN tree : NodeOK(scene, tree[n])
  /\ \A n \in DOMAIN tree : ~IsLeaf(n) => Halves(n)

\* Stack entries of _leaf_tiles: a node and positions whose points lie in its box.
NodesOf(t) == DOMAIN t

ItemsOf(t, g) == {e \in NodesOf(t) \X SUBSET Tile(g) :
                    \A q \in e[2] : InBox(t[e[1]].box, PointAt(g, q))}

Nodes == NodesOf(tree)

Items == ItemsOf(tree, grid)

StacksOK ==
  /\ branching \in Seq(Nodes) /\ work \in Seq(Items)
  /\ branching # <<>> => work = <<<<<<>>, Tile(grid)>>>>

\* A position waits in one entry, and nothing is written at it before its leaf.
WorkFresh ==
  /\ \A k \in DOMAIN work : \A q \in work[k][2] : underlying[q] = None /\ q \notin leaf.tile
  /\ \A j, k \in DOMAIN work : j # k => work[j][2] \cap work[k][2] = {}

Answer(q) == <<material[q], underlying[q]>>

LeafOK ==
  /\ leaf \in [tile : SUBSET Tile(grid), list : SUBSET (DOMAIN scene),
               rest : SUBSET (DOMAIN scene)]
  /\ leaf.rest \subseteq leaf.list
  /\ leaf.list # {} => leaf.list \ leaf.rest # {}
  /\ \A i \in leaf.rest : After(i, leaf.list \ leaf.rest)
  /\ \A q \in leaf.tile :
       /\ leaf.list # {}
       /\ Hits(scene, DOMAIN scene, PointAt(grid, q)) \subseteq leaf.list
       /\ Answer(q) = ObjectOfPoint(scene, leaf.list \ leaf.rest, PointAt(grid, q))

MapsOK ==
  /\ material \in [Tile(grid) -> DOMAIN scene \cup {None}]
  /\ underlying \in [Tile(grid) -> DOMAIN scene \cup {None}]

Waiting(q) == \E k \in DOMAIN work : q \in work[k][2]

Settled(q) == Answer(q) = ObjectOfPoint(scene, DOMAIN scene, PointAt(grid, q))

Covered == \A q \in Tile(grid) : Waiting(q) \/ q \in leaf.tile \/ Settled(q)

IInv == TreeOK /\ StacksOK /\ WorkFresh /\ LeafOK /\ MapsOK /\ Covered

\* A node and positions in its box make a stack entry.
LEMMA PairIn ==
  ASSUME NEW A, NEW B, NEW a \in A, NEW b, b \subseteq B
  PROVE  <<a, b>> \in A \X SUBSET B
OBVIOUS

LEMMA ItemIntro ==
  ASSUME NEW t, NEW g, NEW n \in NodesOf(t), NEW tile, tile \subseteq Tile(g),
         \A q \in tile : InBox(t[n].box, PointAt(g, q))
  PROVE  <<n, tile>> \in ItemsOf(t, g)
<1> SUFFICES ASSUME NEW e, e = <<n, tile>> PROVE e \in ItemsOf(t, g)
  OBVIOUS
<1>1. e[1] = n /\ e[2] = tile
  OBVIOUS
<1>2. e \in NodesOf(t) \X SUBSET Tile(g)
  BY PairIn
<1>3. \A q \in e[2] : InBox(t[e[1]].box, PointAt(g, q))
  BY <1>1
<1> QED BY <1>2, <1>3 DEF ItemsOf

\* In the first state the root holds every object and the whole tile waits at it.
LEMMA InitInv == Init => IInv
<1> SUFFICES ASSUME Init PROVE IInv
  OBVIOUS
<1>1. Proper(Everywhere) /\ Everywhere \in Boxes
  BY InfAssumption DEF Proper, Everywhere, Boxes
<1>2. DOMAIN scene = Reaching(scene, Everywhere)
  <2>1. ASSUME NEW i \in DOMAIN scene PROVE Meets(Everywhere, Box(scene, i))
    <3>1. Box(scene, i) \in Boxes
      BY SceneFacts DEF Init, Proper
    <3> QED BY <3>1, InfAssumption DEF Boxes, Meets, Everywhere
  <2> QED BY <2>1 DEF Reaching
<1>3. DOMAIN tree = {<<>>} /\ tree[<<>>] = Node(Everywhere, DOMAIN scene)
  BY DEF Init
<1>4. TreeOK
  <2>1. NodeOK(scene, tree[<<>>])
    BY <1>1, <1>2, <1>3 DEF NodeOK, NodeType, Node
  <2>2. IsLeaf(<<>>)
    BY <1>3 DEF IsLeaf, Node
  <2>3. tree[<<>>].box = Everywhere
    BY <1>3 DEF Node
  <2>4. <<>> \in Seq(Nat) /\ NoLeaf # <<>>
    BY DEF NoLeaf
  <2> QED BY <1>3, <2>1, <2>2, <2>3, <2>4 DEF TreeOK, Init
<1>5. StacksOK
  <2>1. branching \in Seq(Nodes)
    BY <1>3 DEF Init, Nodes, NodesOf
  <2>2. \A q \in Tile(grid) : InBox(Everywhere, PointAt(grid, q))
    BY PointAssumption, InfAssumption DEF Init, InBox, Everywhere
  <2>3. ASSUME NEW n, n = <<>> PROVE <<n, Tile(grid)>> \in Items
    <3>1. n \in Nodes /\ tree[n].box = Everywhere
      BY <1>3, <2>3 DEF Node, Nodes, NodesOf
    <3> QED BY <2>2, <3>1, ItemIntro DEF Items, Nodes
  <2> QED BY <2>1, <2>3 DEF StacksOK, Init
<1>6. LeafOK
  BY DEF LeafOK, Init, Idle
<1>7. MapsOK
  BY DEF MapsOK, Init
<1>8. Covered
  BY DEF Covered, Waiting, Init
<1>9. WorkFresh
  BY DEF WorkFresh, Init, Idle
<1> QED BY <1>4, <1>5, <1>6, <1>7, <1>8, <1>9 DEF IInv
-----------------------------------------------------------------------------
(***************************************************************************)
(* Building the tree                                                       *)
(***************************************************************************)
\* A child's path differs from its parent's, its sibling's and every other one's.
LEMMA Paths ==
  ASSUME NEW n \in Seq(Nat), NEW m \in Seq(Nat)
  PROVE  /\ Left(n) \in Seq(Nat) /\ Right(n) \in Seq(Nat)
         /\ Left(n) # n /\ Right(n) # n /\ Left(n) # Right(m)
         /\ Left(n) # <<>> /\ Right(n) # <<>> /\ Left(n) # NoLeaf /\ Right(n) # NoLeaf
         /\ Left(n) = Left(m) => n = m
         /\ Right(n) = Right(m) => n = m
<1>1. ASSUME NEW u \in Seq(Nat), NEW i \in Nat
      PROVE  /\ Append(u, i) \in Seq(Nat) /\ Len(Append(u, i)) = Len(u) + 1 /\ Append(u, i) # <<>>
             /\ Append(u, i)[Len(u) + 1] = i /\ \A k \in 1..Len(u) : Append(u, i)[k] = u[k]
  <2>1. Append(u, i) \in Seq(Nat)
    BY AppendProperties, Zenon
  <2>2. Len(u) \in Nat /\ Len(Append(u, i)) = Len(u) + 1
    BY AppendProperties
  <2>3. Append(u, i) # <<>>
    BY AppendProperties, ZenonT(30)
  <2>4. Append(u, i)[Len(u) + 1] = i
    BY AppendProperties, Zenon
  <2>5. ASSUME NEW k \in 1..Len(u) PROVE Append(u, i)[k] = u[k]
    BY SMTT(30)
  <2> QED BY <2>1, <2>2, <2>3, <2>4, <2>5, Zenon
<1>2. ASSUME NEW i \in Nat, Append(n, i) = Append(m, i) PROVE n = m
  <2>1. Len(n) \in Nat /\ Len(m) \in Nat /\ Len(n) = Len(m)
    BY <1>1, <1>2
  <2>2. ASSUME NEW k \in 1..Len(n) PROVE n[k] = m[k]
    <3>1. n[k] = Append(n, i)[k]
      BY <1>1
    <3>2. m[k] = Append(m, i)[k]
      BY <1>1, <2>1
    <3> QED BY <1>2, <3>1, <3>2
  <2> QED BY <2>1, <2>2, SeqEqual
<1>3. \A i \in Nat : Append(n, i) # n
  BY <1>1
<1>4. Append(n, 1) # Append(m, 2)
  <2> SUFFICES ASSUME Append(n, 1) = Append(m, 2) PROVE FALSE
    OBVIOUS
  <2>1. Len(n) \in Nat /\ Len(m) \in Nat /\ Len(n) = Len(m)
    BY <1>1
  <2> QED BY <1>1, <2>1
<1>5. \A i \in {1, 2} : Append(n, i) # NoLeaf
  <2> SUFFICES ASSUME NEW i \in {1, 2}, Append(n, i) = NoLeaf PROVE FALSE
    OBVIOUS
  <2>1. Len(NoLeaf) = 1 /\ NoLeaf[1] = 0
    BY DEF NoLeaf
  <2>2. Len(n) \in Nat /\ Len(n) + 1 = 1 /\ Append(n, i)[Len(n) + 1] = i
    BY <1>1, <2>1
  <2> QED BY <2>1, <2>2
<1> QED BY <1>1, <1>2, <1>3, <1>4, <1>5 DEF Left, Right

\* Dividing the next node keeps the invariant.
LEMMA BranchInv == IInv /\ Branch => IInv'
<1> SUFFICES ASSUME IInv, Branch PROVE IInv'
  OBVIOUS
<1> DEFINE n == Head(branching)
<1>1. PICK c \in Cuts(tree[n].list) :
        /\ BestCut(scene, tree[n].list, c) /\ Divide(n, c)
        /\ branching' = <<Left(n), Right(n)>> \o Tail(branching)
  BY DEF Branch
<1>2. /\ branching # <<>> /\ branching \in Seq(Nodes) /\ Nodes \subseteq Seq(Nat)
      /\ UNCHANGED <<scene, grid, work, leaf, material, underlying>>
  BY DEF Branch, IInv, StacksOK, TreeOK, Nodes, NodesOf
<1>3. n \in Nodes /\ Tail(branching) \in Seq(Nodes)
  BY <1>2
<1> HIDE DEF n
<1> DEFINE x == CutCoordinate(scene, c)
           a == c[1]
           b == tree[n].box
           l == tree[n].list
           b1 == Below(b, a, x)
           b2 == Above(b, a, x)
           o1 == Overlapping(scene, l, b1)
           o2 == Overlapping(scene, l, b2)
           nl == Left(n)
           nr == Right(n)
<1>4. NodeOK(scene, tree[n]) /\ scene \in Scenes
  BY <1>3 DEF IInv, TreeOK, Nodes, NodesOf
<1>5. /\ a \in Axes /\ x \in Int /\ b.low[a] < x /\ x < b.high[a]
      /\ o1 = Reaching(scene, b1) /\ o2 = Reaching(scene, b2)
      /\ Cardinality(o1) < Cardinality(l) /\ Cardinality(o2) < Cardinality(l)
  <2>1. Proper(b) /\ l = Reaching(scene, b) /\ Improves(scene, l, c)
    BY <1>1, <1>4 DEF NodeOK, BestCut
  <2> HIDE DEF b, l
  <2> QED BY <1>1, <1>4, <2>1, HalvesReach DEF l
<1>6. Proper(b1) /\ Proper(b2)
  BY <1>4, <1>5, HalvesProper DEF NodeOK
<1>7. NodeOK(scene, Node(b1, o1)) /\ NodeOK(scene, Node(b2, o2))
  <2>1. o1 \subseteq DOMAIN scene /\ o2 \subseteq DOMAIN scene
    BY <1>5 DEF Reaching
  <2>2. b1 \in Boxes /\ b2 \in Boxes
    BY <1>6 DEF Proper
  <2> HIDE DEF o1, o2, b1, b2
  <2> QED BY <1>5, <1>6, <2>1, <2>2 DEF NodeOK, NodeType, Node
<1>8. \A m \in Seq(Nat) :
        /\ nl \in Seq(Nat) /\ nr \in Seq(Nat) /\ nl # n /\ nr # n /\ nl # nr
        /\ nl # <<>> /\ nr # <<>> /\ nl # NoLeaf /\ nr # NoLeaf
        /\ (Left(m) = nl => m = n) /\ (Right(m) = nr => m = n)
        /\ Left(m) # nr /\ Right(m) # nl
  BY <1>2, <1>3, Paths
<1> DEFINE new == [tree[n] EXCEPT !.cut = <<a, x>>]
<1>9. new \in NodeType(scene) /\ new.box = b /\ new.list = l /\ new.cut # <<>>
  BY <1>4, <1>5 DEF NodeOK, NodeType
<1>10. /\ Nodes' = Nodes \cup {nl, nr}
       /\ tree'[n] = new /\ tree'[nl] = Node(b1, o1) /\ tree'[nr] = Node(b2, o2)
       /\ \A m \in Nodes : m \notin {n, nl, nr} => tree'[m] = tree[m]
  BY <1>1, <1>2, <1>3, <1>8 DEF Divide, Nodes, NodesOf
<1> HIDE DEF new, nl, nr, b1, b2, o1, o2, b, l
<1>11. \A m \in Nodes' : NodeOK(scene, tree'[m])
  <2>1. NodeOK(scene, new)
    BY <1>4, <1>9 DEF NodeOK, b, l
  <2>2. \A m \in Nodes : NodeOK(scene, tree[m])
    BY DEF IInv, TreeOK, Nodes, NodesOf
  <2> QED BY <1>7, <1>10, <2>1, <2>2
<1>12. \A m \in Nodes : m \notin {nl, nr} => tree'[m].box = tree[m].box /\ tree'[m].list = tree[m].list
  BY <1>9, <1>10 DEF b, l
<1>13. ASSUME NEW m \in Nodes', ~IsLeaf(m)' PROVE Halves(m)'
  <2>1. CASE m = n
    <3>1. Left(m) \in Nodes' /\ Right(m) \in Nodes'
      BY <1>10, <2>1 DEF nl, nr
    <3>2. /\ tree'[m].box = b /\ tree'[m].list = l
          /\ tree'[Left(m)].box = b1 /\ tree'[Left(m)].list = o1
          /\ tree'[Right(m)].box = b2 /\ tree'[Right(m)].list = o2
      BY <1>9, <1>10, <2>1 DEF nl, nr, Node
    <3> QED BY <1>5, <3>1, <3>2 DEF Halves, Nodes, NodesOf, b1, b2
  <2>2. CASE m # n
    <3>1. m \in Nodes /\ m \notin {nl, nr} /\ tree'[m] = tree[m]
      BY <1>10, <1>13, <2>2 DEF IsLeaf, Node
    <3>2. Halves(m)
      BY <1>13, <3>1 DEF IInv, TreeOK, IsLeaf, Nodes, NodesOf
    <3>3. Left(m) \notin {nl, nr} /\ Right(m) \notin {nl, nr}
      BY <1>2, <1>8, <2>2, <3>1
    <3>4. Left(m) \in Nodes /\ Right(m) \in Nodes
      BY <3>2 DEF Halves, Nodes, NodesOf
    <3> QED BY <1>10, <1>12, <3>1, <3>2, <3>3, <3>4 DEF Halves, Nodes, NodesOf
  <2> QED BY <2>1, <2>2
<1>14. <<>> \in Nodes /\ <<>> \in Nodes' /\ tree[<<>>].box = Everywhere /\ tree'[<<>>].box = Everywhere
  BY <1>8, <1>10, <1>12 DEF IInv, TreeOK, Nodes, NodesOf
<1>15. TreeOK'
  <2>1. Nodes' \subseteq Seq(Nat) /\ NoLeaf \notin Nodes'
    <3>1. NoLeaf \notin Nodes
      BY DEF IInv, TreeOK, Nodes, NodesOf
    <3>2. <<>> \in Seq(Nat)
      OBVIOUS
    <3> QED BY <1>2, <1>8, <1>10, <3>1, <3>2
  <2> QED BY <1>2, <1>11, <1>13, <1>14, <2>1 DEF IInv, TreeOK, Nodes, NodesOf
<1>16. StacksOK'
  <2>1. branching' \in Seq(Nodes')
    <3>1. Tail(branching) \in Seq(Nodes')
      BY <1>3, <1>10
    <3>2. nl \in Nodes' /\ nr \in Nodes'
      BY <1>10
    <3> QED BY <1>1, <3>1, <3>2 DEF nl, nr
  <2>2. work' = <<<<<<>>, Tile(grid)>>>>
    BY <1>2 DEF IInv, StacksOK
  <2>3. ASSUME NEW root, root = <<>> PROVE (<<root, Tile(grid)>> \in Items)'
    <3>1. \A q \in Tile(grid) : InBox(Everywhere, PointAt(grid, q))
      BY PointAssumption, InfAssumption DEF IInv, TreeOK, InBox, Everywhere
    <3>2. root \in Nodes' /\ tree'[root].box = Everywhere /\ grid' = grid
      BY <1>2, <1>14, <2>3
    <3> QED BY <3>1, <3>2, ItemIntro DEF Items, Nodes
  <2>4. <<<<<<>>, Tile(grid)>>>> \in Seq(Items')
    <3>1. <<<<>>, Tile(grid)>> \in Items'
      BY <1>2, <2>3
    <3> HIDE DEF Items
    <3>2. \A e \in Items' : <<e>> \in Seq(Items')
      OBVIOUS
    <3> QED BY <3>1, <3>2
  <2>5. Tile(grid') = Tile(grid)
    BY <1>2
  <2> QED BY <2>1, <2>2, <2>4, <2>5 DEF StacksOK
<1>17. WorkFresh' /\ LeafOK' /\ MapsOK' /\ Covered'
  BY <1>2 DEF IInv, WorkFresh, LeafOK, MapsOK, Covered, Waiting, Settled, Answer
<1> QED BY <1>15, <1>16, <1>17 DEF IInv

\* So does leaving it a leaf.
LEMMA KeepLeafInv == IInv /\ KeepLeaf => IInv'
<1> SUFFICES ASSUME IInv, KeepLeaf PROVE IInv'
  OBVIOUS
<1>1. /\ branching # <<>> /\ branching' = Tail(branching)
      /\ UNCHANGED <<scene, grid, tree, work, leaf, material, underlying>>
  BY DEF KeepLeaf
<1>2. TreeOK' /\ WorkFresh' /\ LeafOK' /\ MapsOK' /\ Covered'
  BY <1>1 DEF IInv, TreeOK, IsLeaf, Halves, WorkFresh, LeafOK, MapsOK, Covered, Waiting, Settled, Answer
<1>3. StacksOK'
  BY <1>1 DEF IInv, StacksOK, Items, Nodes, NodesOf
<1> QED BY <1>2, <1>3 DEF IInv
-----------------------------------------------------------------------------
(***************************************************************************)
(* Lowering a tile                                                         *)
(***************************************************************************)
\* A node whose box holds a point lists every object that holds it, among them
\* one that is no compound.
LEMMA NodeHasHits ==
  ASSUME NEW s \in Scenes, NEW nd, NodeOK(s, nd), NEW p \in Points, InBox(nd.box, p)
  PROVE  /\ Hits(s, DOMAIN s, p) \subseteq nd.list
         /\ \E m \in nd.list : Contains(s, m, p) /\ ~Compound(s, m)
<1>1. ASSUME NEW i \in DOMAIN s, Contains(s, i, p) PROVE i \in nd.list
  <2>1. InBox(Box(s, i), p) /\ Proper(Box(s, i))
    BY <1>1, SceneFacts
  <2>2. p \in [Axes -> -Inf .. Inf]
    BY PointAssumption
  <2>3. Meets(nd.box, Box(s, i))
    BY <2>1, <2>2, InfAssumption DEF NodeOK, Proper, Boxes, InBox, Meets
  <2> QED BY <2>3 DEF NodeOK, Reaching
<1>2. Hits(s, DOMAIN s, p) \subseteq nd.list
  BY <1>1 DEF Hits
<1>3. PICK m \in DOMAIN s : Contains(s, m, p) /\ ~Compound(s, m)
  BY SceneFacts
<1> QED BY <1>1, <1>2, <1>3

\* The lists and points the invariant speaks of.
LEMMA TileFacts ==
  ASSUME IInv
  PROVE  /\ scene \in Scenes /\ \A q \in Tile(grid) : PointAt(grid, q) \in Points
         /\ Upto(Len(scene), DOMAIN scene) /\ Upto(Len(scene), leaf.list)
         /\ leaf.list \subseteq DOMAIN scene /\ leaf.tile \subseteq Tile(grid)
         /\ leaf.rest \subseteq leaf.list
<1>1. scene \in Scenes /\ grid \in Grids /\ leaf.list \subseteq DOMAIN scene
  BY DEF IInv, TreeOK, LeafOK
<1>2. Upto(Len(scene), DOMAIN scene)
  BY <1>1, SceneFacts
<1> QED BY <1>1, <1>2, PointAssumption DEF IInv, LeafOK, Upto

\* A leaf without objects left to paint has settled its tile.
LEMMA LeafSettles ==
  ASSUME IInv, leaf.rest = {}, NEW q \in leaf.tile
  PROVE  Settled(q)
<1> DEFINE p == PointAt(grid, q)
<1>1. /\ Hits(scene, DOMAIN scene, p) \subseteq leaf.list
      /\ Answer(q) = ObjectOfPoint(scene, leaf.list, p)
  <2>1. leaf.list \ leaf.rest = leaf.list
    OBVIOUS
  <2> QED BY <2>1 DEF IInv, LeafOK
<1>2. p \in Points
  BY TileFacts
<1> HIDE DEF p
<1>3. PICK m \in DOMAIN scene : Contains(scene, m, p) /\ ~Compound(scene, m)
  BY <1>2, TileFacts, SceneFacts
<1>4. ObjectOfPoint(scene, leaf.list, p) = ObjectOfPoint(scene, DOMAIN scene, p)
  BY <1>1, <1>3, TileFacts, ShortListSuffices
<1> QED BY <1>1, <1>4 DEF Settled, p

\* The stack without its top entry.
LEMMA PopWork ==
  ASSUME IInv, work # <<>>, NEW n, NEW tile, n = Head(work)[1], tile = Head(work)[2]
  PROVE  /\ n \in Nodes /\ tile \subseteq Tile(grid)
         /\ \A q \in tile : InBox(tree[n].box, PointAt(grid, q)) /\ underlying[q] = None
                             /\ q \notin leaf.tile
         /\ Tail(work) \in Seq(Items)
         /\ \A k \in DOMAIN Tail(work) : /\ k + 1 \in DOMAIN work /\ Tail(work)[k] = work[k + 1]
                                         /\ Tail(work)[k][2] \cap tile = {}
         /\ \A k \in DOMAIN work : k = 1 \/ (k - 1 \in DOMAIN Tail(work) /\ work[k] = Tail(work)[k - 1])
         /\ 1 \in DOMAIN work /\ work[1][2] = tile
<1> DEFINE I == Items
<1>1. work \in Seq(I)
  BY DEF IInv, StacksOK
<1>2. work[1] \in Items /\ Head(work) = work[1]
  BY <1>1
<1>3. n \in Nodes /\ tile \subseteq Tile(grid) /\ \A q \in tile : InBox(tree[n].box, PointAt(grid, q))
  BY <1>2 DEF Items, ItemsOf, Nodes
<1> HIDE DEF I
<1>4. /\ Len(work) \in Nat /\ DOMAIN work = 1..Len(work) /\ Len(work) # 0
      /\ Tail(work) \in Seq(I) /\ Len(Tail(work)) = Len(work) - 1
      /\ DOMAIN Tail(work) = 1..(Len(work) - 1)
      /\ \A k \in 1..(Len(work) - 1) : Tail(work)[k] = work[k + 1]
  BY <1>1, HeadTailProperties
<1>5. 1 \in DOMAIN work /\ work[1][2] = tile
  BY <1>2, <1>4
<1>6. \A q \in tile : underlying[q] = None /\ q \notin leaf.tile
  BY <1>5 DEF IInv, WorkFresh
<1>7. ASSUME NEW k \in DOMAIN Tail(work)
      PROVE  k + 1 \in DOMAIN work /\ Tail(work)[k] = work[k + 1] /\ Tail(work)[k][2] \cap tile = {}
  <2>1. k + 1 \in DOMAIN work /\ Tail(work)[k] = work[k + 1] /\ k + 1 # 1
    BY <1>4
  <2>2. work[k + 1][2] \cap work[1][2] = {}
    BY <1>5, <2>1 DEF IInv, WorkFresh
  <2> QED BY <1>5, <2>1, <2>2
<1>8. ASSUME NEW k \in DOMAIN work, k # 1
      PROVE  k - 1 \in DOMAIN Tail(work) /\ work[k] = Tail(work)[k - 1]
  <2>1. k - 1 \in 1..(Len(work) - 1)
    BY <1>4, <1>8
  <2>2. Tail(work)[k - 1] = work[(k - 1) + 1] /\ (k - 1) + 1 = k
    BY <1>4, <1>8, <2>1
  <2> QED BY <1>4, <2>1, <2>2
<1> QED BY <1>3, <1>4, <1>5, <1>6, <1>7, <1>8 DEF I

\* The finished tree stays as it is.
LEMMA TreeUnchanged ==
  ASSUME TreeOK, UNCHANGED <<scene, grid, tree>>
  PROVE  TreeOK'
BY DEF TreeOK, IsLeaf, Halves

\* An empty entry is dropped.
LEMMA SkipEmptyInv ==
  ASSUME IInv, branching = <<>>, leaf.rest = {}, work # <<>>, SkipEmpty(Head(work)[2]),
         UNCHANGED <<scene, grid, tree, branching>>
  PROVE  IInv'
<1> DEFINE tile == Head(work)[2]
<1>1. /\ tile = {} /\ work' = Tail(work)
      /\ UNCHANGED <<scene, grid, tree, branching, leaf, material, underlying>>
  BY DEF SkipEmpty
<1>2. /\ Tail(work) \in Seq(Items)
      /\ \A k \in DOMAIN Tail(work) : k + 1 \in DOMAIN work /\ Tail(work)[k] = work[k + 1]
      /\ \A k \in DOMAIN work : k = 1 \/ (k - 1 \in DOMAIN Tail(work) /\ work[k] = Tail(work)[k - 1])
      /\ work[1][2] = tile /\ DOMAIN Tail(work) \subseteq Int
  <2>1. DOMAIN Tail(work) \subseteq Int
    BY DEF IInv, StacksOK
  <2> QED BY <2>1, PopWork
<1>3. TreeOK' /\ LeafOK' /\ MapsOK'
  <2>1. TreeOK'
    BY <1>1, TreeUnchanged DEF IInv
  <2>2. LeafOK'
    BY <1>1 DEF IInv, LeafOK, Answer
  <2>3. MapsOK'
    BY <1>1 DEF IInv, MapsOK
  <2> QED BY <2>1, <2>2, <2>3
<1>4. StacksOK'
  BY <1>1, <1>2 DEF IInv, StacksOK, Items, Nodes
<1>5. WorkFresh'
  <2>1. \A k \in DOMAIN Tail(work) : \A q \in Tail(work)[k][2] : underlying[q] = None /\ q \notin leaf.tile
    BY <1>2 DEF IInv, WorkFresh
  <2>2. \A j, k \in DOMAIN Tail(work) : j # k => Tail(work)[j][2] \cap Tail(work)[k][2] = {}
    <3> SUFFICES ASSUME NEW j \in DOMAIN Tail(work), NEW k \in DOMAIN Tail(work), j # k
                 PROVE  Tail(work)[j][2] \cap Tail(work)[k][2] = {}
      OBVIOUS
    <3>1. j + 1 # k + 1
      BY <1>2
    <3> QED BY <1>2, <3>1 DEF IInv, WorkFresh
  <2> QED BY <1>1, <2>1, <2>2 DEF WorkFresh
<1>6. Covered'
  <2>1. \A q : Waiting(q) => \E k \in DOMAIN Tail(work) : q \in Tail(work)[k][2]
    BY <1>1, <1>2 DEF Waiting
  <2> QED BY <1>1, <2>1 DEF IInv, Covered, Waiting, Settled, Answer
<1> QED BY <1>3, <1>4, <1>5, <1>6 DEF IInv

\* A leaf is opened with its first object under the whole tile.
LEMMA OpenLeafInv ==
  ASSUME IInv, branching = <<>>, leaf.rest = {}, work # <<>>,
         Head(work)[2] # {}, OpenLeaf(Head(work)[1], Head(work)[2]),
         UNCHANGED <<scene, grid, tree, branching>>
  PROVE  IInv'
<1> DEFINE n == Head(work)[1]
           tile == Head(work)[2]
           list == tree[n].list
           f == First(list)
<1>1. /\ leaf' = [tile |-> tile, list |-> list, rest |-> list \ {f}]
      /\ material' = [q \in DOMAIN material |-> IF q \in tile THEN f ELSE material[q]]
      /\ work' = Tail(work)
      /\ UNCHANGED <<scene, grid, tree, branching, underlying>>
  BY DEF OpenLeaf
<1>2. /\ n \in Nodes /\ tile \subseteq Tile(grid) /\ tile # {}
      /\ \A q \in tile : InBox(tree[n].box, PointAt(grid, q)) /\ underlying[q] = None
      /\ Tail(work) \in Seq(Items)
      /\ \A k \in DOMAIN Tail(work) : /\ k + 1 \in DOMAIN work /\ Tail(work)[k] = work[k + 1]
                                      /\ Tail(work)[k][2] \cap tile = {}
      /\ \A k \in DOMAIN work : k = 1 \/ (k - 1 \in DOMAIN Tail(work) /\ work[k] = Tail(work)[k - 1])
      /\ work[1][2] = tile
  BY PopWork
<1>3. NodeOK(scene, tree[n]) /\ scene \in Scenes
  BY <1>2 DEF IInv, TreeOK, Nodes, NodesOf
<1> HIDE DEF n, tile
<1>4. \A q \in tile : /\ Hits(scene, DOMAIN scene, PointAt(grid, q)) \subseteq list
                       /\ list # {}
  <2> SUFFICES ASSUME NEW q \in tile
               PROVE  /\ Hits(scene, DOMAIN scene, PointAt(grid, q)) \subseteq list
                      /\ list # {}
    OBVIOUS
  <2>1. PointAt(grid, q) \in Points
    BY <1>2, TileFacts
  <2> QED BY <1>2, <1>3, <2>1, NodeHasHits
<1>5. list \subseteq DOMAIN scene /\ DOMAIN scene \subseteq Nat
  <2>1. DOMAIN scene \subseteq Nat
    BY TileFacts DEF Upto
  <2> QED BY <1>3, <2>1 DEF NodeOK, NodeType
<1> HIDE DEF list
<1>6. f \in list /\ \A j \in list : f <= j
  BY <1>2, <1>4, <1>5, FirstIsLeast
<1> HIDE DEF f
<1>7. \A i \in list \ {f} : After(i, {f})
  BY <1>5, <1>6 DEF After
<1>8. list \ (list \ {f}) = {f}
  BY <1>6
<1>9. \A p : ObjectOfPoint(scene, {f}, p) = <<f, None>>
  <2> TAKE p
  <2>1. \A j \in {f} : f <= j
    BY <1>5, <1>6
  <2>2. First({f}) = f
    BY <1>5, <1>6, <2>1, FirstIs
  <2>3. {f} \ {f} = {}
    OBVIOUS
  <2>4. FindObject(scene, {f}, p) = f
    BY <2>2, <2>3 DEF FindObject
  <2>5. {j \in {f} : j < f} = {}
    BY <1>5, <1>6
  <2> QED BY <2>4, <2>5 DEF ObjectOfPoint, Beneath
<1>10. MapsOK'
  BY <1>1, <1>5, <1>6 DEF IInv, MapsOK
<1>11. \A q \in tile : material'[q] = f /\ underlying'[q] = None
  BY <1>1, <1>2 DEF IInv, MapsOK
<1>12. \A q \in Tile(grid) \ tile : Answer(q)' = Answer(q)
  BY <1>1 DEF IInv, MapsOK, Answer
<1>13. LeafOK'
  <2>1. leaf' \in [tile : SUBSET Tile(grid'), list : SUBSET (DOMAIN scene'),
                   rest : SUBSET (DOMAIN scene')]
    BY <1>1, <1>2, <1>5
  <2>2. leaf.tile' = tile /\ leaf.list' = list /\ leaf.rest' = list \ {f}
    BY <1>1
  <2>3. scene' = scene /\ grid' = grid
    BY <1>1
  <2>4. /\ leaf.rest' \subseteq leaf.list' /\ leaf.list' \ leaf.rest' # {}
        /\ \A i \in leaf.rest' : After(i, leaf.list' \ leaf.rest')
    BY <1>6, <1>7, <1>8, <2>2
  <2>5. ASSUME NEW q \in tile
        PROVE  /\ list # {}
               /\ Hits(scene, DOMAIN scene, PointAt(grid, q)) \subseteq list
               /\ Answer(q)' = ObjectOfPoint(scene, {f}, PointAt(grid, q))
    BY <1>4, <1>9, <1>11 DEF Answer
  <2> HIDE DEF Answer
  <2> QED BY <1>8, <2>1, <2>2, <2>3, <2>4, <2>5 DEF LeafOK
<1>14. TreeOK' /\ StacksOK'
  <2>1. TreeOK'
    BY <1>1, TreeUnchanged DEF IInv
  <2>2. StacksOK'
    BY <1>1, <1>2 DEF IInv, StacksOK, Items, Nodes
  <2> QED BY <2>1, <2>2
<1>15. WorkFresh'
  <2>1. \A k \in DOMAIN Tail(work) : \A q \in Tail(work)[k][2] : underlying[q] = None /\ q \notin tile
    BY <1>2 DEF IInv, WorkFresh
  <2>2. \A j, k \in DOMAIN Tail(work) : j # k => Tail(work)[j][2] \cap Tail(work)[k][2] = {}
    <3> SUFFICES ASSUME NEW j \in DOMAIN Tail(work), NEW k \in DOMAIN Tail(work), j # k
                 PROVE  Tail(work)[j][2] \cap Tail(work)[k][2] = {}
      OBVIOUS
    <3>1. DOMAIN Tail(work) \subseteq Int
      BY <1>2
    <3>2. j + 1 # k + 1
      BY <3>1
    <3> QED BY <1>2, <3>2 DEF IInv, WorkFresh
  <2>3. leaf.tile' = tile
    BY <1>1
  <2> QED BY <1>1, <2>1, <2>2, <2>3 DEF WorkFresh
<1>16. Covered'
  <2> SUFFICES ASSUME NEW q \in Tile(grid), q \notin tile
               PROVE  Waiting(q)' \/ Settled(q)'
    BY <1>1 DEF Covered
  <2>1. Waiting(q) => Waiting(q)'
    BY <1>1, <1>2 DEF Waiting
  <2>2. Settled(q) => Settled(q)'
    BY <1>1, <1>12 DEF Settled
  <2> QED BY <2>1, <2>2, LeafSettles DEF IInv, Covered
<1> QED BY <1>10, <1>13, <1>14, <1>15, <1>16 DEF IInv

\* Two entries on top of a stack.
LEMMA PushTwo ==
  ASSUME NEW S, NEW e1 \in S, NEW e2 \in S, NEW T \in Seq(S), NEW w, w = <<e1, e2>> \o T
  PROVE  /\ w \in Seq(S) /\ w[1] = e1 /\ w[2] = e2 /\ 1 \in DOMAIN w /\ 2 \in DOMAIN w
         /\ DOMAIN T \subseteq Int
         /\ \A k \in DOMAIN T : k + 2 \in DOMAIN w /\ w[k + 2] = T[k]
         /\ \A k \in DOMAIN w : k \in {1, 2} \/ (k - 2 \in DOMAIN T /\ w[k] = T[k - 2])
<1> DEFINE h == <<e1, e2>>
<1>1. h \in Seq(S) /\ Len(h) = 2 /\ h[1] = e1 /\ h[2] = e2
  OBVIOUS
<1>2. w = h \o T
  OBVIOUS
<1> HIDE DEF h
<1>3. /\ w \in Seq(S) /\ Len(w) = 2 + Len(T) /\ Len(T) \in Nat
      /\ \A k \in 1..Len(w) : w[k] = IF k <= 2 THEN h[k] ELSE T[k - 2]
  BY <1>1, <1>2, ConcatProperties
<1>4. DOMAIN w = 1..Len(w) /\ DOMAIN T = 1..Len(T)
  BY <1>3
<1>5. w[1] = e1 /\ w[2] = e2 /\ 1 \in DOMAIN w /\ 2 \in DOMAIN w
  BY <1>1, <1>3, <1>4
<1>6. ASSUME NEW k \in DOMAIN T PROVE k + 2 \in DOMAIN w /\ w[k + 2] = T[k]
  <2>1. k + 2 \in 1..Len(w) /\ ~(k + 2 <= 2) /\ (k + 2) - 2 = k
    BY <1>3, <1>4
  <2> QED BY <1>3, <1>4, <2>1
<1>7. ASSUME NEW k \in DOMAIN w, k \notin {1, 2} PROVE k - 2 \in DOMAIN T /\ w[k] = T[k - 2]
  <2>1. k \in 1..Len(w) /\ ~(k <= 2) /\ k - 2 \in 1..Len(T)
    BY <1>3, <1>4, <1>7
  <2> QED BY <1>3, <1>4, <2>1
<1> QED BY <1>3, <1>4, <1>5, <1>6, <1>7

\* The tile of an inner node is split between its children.
LEMMA DescendInv ==
  ASSUME IInv, branching = <<>>, leaf.rest = {}, work # <<>>,
         ~IsLeaf(Head(work)[1]), Descend(Head(work)[1], Head(work)[2]),
         UNCHANGED <<scene, grid, tree, branching>>
  PROVE  IInv'
<1> DEFINE n == Head(work)[1]
           tile == Head(work)[2]
           T == Tail(work)
           t1 == {q \in tile : InBox(tree[Left(n)].box, PointAt(grid, q))}
           t2 == {q \in tile \ t1 : InBox(tree[Right(n)].box, PointAt(grid, q))}
           e1 == <<Left(n), t1>>
           e2 == <<Right(n), t2>>
<1>1. /\ work' = <<e1, e2>> \o T
      /\ UNCHANGED <<scene, grid, tree, branching, leaf, material, underlying>>
  BY DEF Descend
<1>2. /\ n \in Nodes /\ tile \subseteq Tile(grid)
      /\ \A q \in tile : InBox(tree[n].box, PointAt(grid, q)) /\ underlying[q] = None
                          /\ q \notin leaf.tile
      /\ T \in Seq(Items)
      /\ \A k \in DOMAIN T : /\ k + 1 \in DOMAIN work /\ T[k] = work[k + 1]
                            /\ T[k][2] \cap tile = {}
      /\ \A k \in DOMAIN work : k = 1 \/ (k - 1 \in DOMAIN T /\ work[k] = T[k - 1])
      /\ work[1][2] = tile
  BY PopWork
<1>3. NodeOK(scene, tree[n]) /\ Halves(n)
  BY <1>2 DEF IInv, TreeOK, Nodes, NodesOf
<1> HIDE DEF n, tile, T
<1>4. ASSUME NEW q \in tile PROVE q \in t1 \/ q \in t2
  <2> DEFINE b == tree[n].box
             p == PointAt(grid, q)
  <2>1. PICK a \in Axes, x \in Int :
          /\ b.low[a] < x /\ x < b.high[a]
          /\ tree[Left(n)].box = Below(b, a, x)
          /\ tree[Right(n)].box = Above(b, a, x)
    BY <1>3 DEF Halves
  <2>2. \A k \in Axes : p[k] \in Int /\ b.low[k] <= p[k] /\ p[k] <= b.high[k]
    <3>1. p \in [Axes -> -Inf .. Inf]
      BY <1>2, TileFacts, PointAssumption
    <3> QED BY <1>2, <3>1, InfAssumption DEF InBox
  <2>3. Proper(b)
    BY <1>3 DEF NodeOK
  <2> HIDE DEF b, p
  <2> DEFINE b1 == Below(b, a, x)
             b2 == Above(b, a, x)
  <2>4. /\ b1.low = b.low /\ b2.high = b.high /\ b1.high[a] = x /\ b2.low[a] = x
        /\ \A k \in Axes \ {a} : b1.high[k] = b.high[k] /\ b2.low[k] = b.low[k]
    BY <2>1, <2>3, HalvesProper
  <2> HIDE DEF b1, b2
  <2>5. p[a] <= x => InBox(b1, p)
    BY <2>2, <2>4 DEF InBox
  <2>6. x <= p[a] => InBox(b2, p)
    BY <2>2, <2>4 DEF InBox
  <2>7. InBox(b1, p) \/ InBox(b2, p)
    BY <2>2, <2>5, <2>6
  <2> QED BY <2>1, <2>7 DEF p, b1, b2
<1>5. /\ t1 \subseteq tile /\ t2 \subseteq tile /\ t1 \cap t2 = {}
      /\ \A q \in t1 : InBox(tree[Left(n)].box, PointAt(grid, q))
      /\ \A q \in t2 : InBox(tree[Right(n)].box, PointAt(grid, q))
  OBVIOUS
<1> HIDE DEF t1, t2
<1>6. e1 \in Items /\ e2 \in Items
  <2>1. Left(n) \in NodesOf(tree) /\ Right(n) \in NodesOf(tree)
    BY <1>3 DEF Halves, NodesOf
  <2> QED BY <1>2, <1>5, <2>1, ItemIntro DEF Items
<1>7. e1[2] = t1 /\ e2[2] = t2
  OBVIOUS
<1> HIDE DEF e1, e2
<1>8. /\ work' \in Seq(Items) /\ work'[1] = e1 /\ work'[2] = e2 /\ 1 \in DOMAIN work' /\ 2 \in DOMAIN work'
      /\ DOMAIN T \subseteq Int
      /\ \A k \in DOMAIN T : k + 2 \in DOMAIN work' /\ work'[k + 2] = T[k]
      /\ \A k \in DOMAIN work' : k \in {1, 2} \/ (k - 2 \in DOMAIN T /\ work'[k] = T[k - 2])
  BY <1>1, <1>2, <1>6, PushTwo
<1>9. TreeOK' /\ LeafOK' /\ MapsOK'
  <2>1. TreeOK'
    BY <1>1, TreeUnchanged DEF IInv
  <2>2. LeafOK'
    BY <1>1 DEF IInv, LeafOK, Answer
  <2>3. MapsOK'
    BY <1>1 DEF IInv, MapsOK
  <2> QED BY <2>1, <2>2, <2>3
<1>10. StacksOK'
  BY <1>1, <1>8 DEF IInv, StacksOK, Items, Nodes
<1>11. WorkFresh'
  <2>1. \A k \in DOMAIN work' : \A q \in work'[k][2] : underlying[q] = None /\ q \notin leaf.tile
    <3> SUFFICES ASSUME NEW k \in DOMAIN work', NEW q \in work'[k][2]
                 PROVE  underlying[q] = None /\ q \notin leaf.tile
      OBVIOUS
    <3>1. CASE k \in {1, 2}
      BY <1>2, <1>5, <1>7, <1>8, <3>1
    <3>2. CASE k \notin {1, 2}
      BY <1>2, <1>8, <3>2 DEF IInv, WorkFresh
    <3> QED BY <3>1, <3>2
  <2>2. \A k \in DOMAIN work' : k \notin {1, 2} => work'[k][2] \cap tile = {}
    BY <1>2, <1>8
  <2>3. ASSUME NEW j \in DOMAIN work', NEW k \in DOMAIN work', j # k
        PROVE  work'[j][2] \cap work'[k][2] = {}
    <3>1. CASE j \in {1, 2} /\ k \in {1, 2}
      BY <1>5, <1>7, <1>8, <2>3, <3>1
    <3>2. CASE j \in {1, 2} /\ k \notin {1, 2}
      BY <1>5, <1>7, <1>8, <2>2, <3>2
    <3>3. CASE j \notin {1, 2} /\ k \in {1, 2}
      BY <1>5, <1>7, <1>8, <2>2, <3>3
    <3>4. CASE j \notin {1, 2} /\ k \notin {1, 2}
      <4>1. /\ j - 2 \in DOMAIN T /\ work'[j] = T[j - 2]
            /\ k - 2 \in DOMAIN T /\ work'[k] = T[k - 2]
        BY <1>8, <3>4
      <4>2. (j - 2) + 1 # (k - 2) + 1
        <5>1. DOMAIN work' \subseteq Int
          BY <1>8
        <5> QED BY <2>3, <5>1
      <4> QED BY <1>2, <4>1, <4>2 DEF IInv, WorkFresh
    <3> QED BY <3>1, <3>2, <3>3, <3>4
  <2> QED BY <1>1, <2>1, <2>3 DEF WorkFresh
<1>12. Covered'
  <2>1. ASSUME NEW q, Waiting(q) PROVE Waiting(q)'
    <3>1. PICK k \in DOMAIN work : q \in work[k][2]
      BY <2>1 DEF Waiting
    <3>2. CASE k = 1
      BY <1>2, <1>4, <1>7, <1>8, <3>1, <3>2 DEF Waiting
    <3>3. CASE k # 1
      <4>1. k - 1 \in DOMAIN T /\ work[k] = T[k - 1]
        BY <1>2, <3>3
      <4>2. (k - 1) + 2 \in DOMAIN work' /\ work'[(k - 1) + 2] = work[k]
        BY <1>8, <4>1
      <4> QED BY <3>1, <4>2 DEF Waiting
    <3> QED BY <3>2, <3>3
  <2>2. \A q : Settled(q) => Settled(q)'
    BY <1>1 DEF Settled, Answer
  <2> QED BY <1>1, <2>1, <2>2 DEF IInv, Covered
<1> QED BY <1>9, <1>10, <1>11, <1>12 DEF IInv

\* One more object is painted over the tile of the leaf.
LEMMA PaintInv == IInv /\ Paint => IInv'
<1> SUFFICES ASSUME IInv, Paint PROVE IInv'
  OBVIOUS
<1> DEFINE i == First(leaf.rest)
           seen == leaf.list \ leaf.rest
           hit == {q \in leaf.tile : Contains(scene, i, PointAt(grid, q))}
<1>1. /\ leaf.rest # {}
      /\ leaf' = [leaf EXCEPT !.rest = @ \ {i}]
      /\ underlying' = [q \in DOMAIN underlying |->
                          IF q \notin hit THEN underlying[q]
                          ELSE IF Compound(scene, i) THEN material[q] ELSE None]
      /\ material' = [q \in DOMAIN material |-> IF q \in hit THEN i ELSE material[q]]
      /\ UNCHANGED <<scene, grid, tree, branching, work>>
  BY DEF Paint
<1>2. /\ leaf \in [tile : SUBSET Tile(grid), list : SUBSET (DOMAIN scene),
                   rest : SUBSET (DOMAIN scene)]
      /\ leaf.rest \subseteq leaf.list /\ seen # {}
      /\ \A j \in leaf.rest : After(j, seen)
      /\ \A q \in leaf.tile :
           /\ Hits(scene, DOMAIN scene, PointAt(grid, q)) \subseteq leaf.list
           /\ Answer(q) = ObjectOfPoint(scene, seen, PointAt(grid, q))
  BY <1>1 DEF IInv, LeafOK
<1>3. Upto(Len(scene), leaf.list) /\ leaf.rest \subseteq Nat /\ leaf.list \subseteq DOMAIN scene
  BY <1>2, TileFacts DEF Upto
<1>4. i \in leaf.rest /\ \A j \in leaf.rest : i <= j
  BY <1>1, <1>3, FirstIsLeast
<1> HIDE DEF i
<1>5. /\ leaf'.tile = leaf.tile /\ leaf'.list = leaf.list /\ leaf'.rest = leaf.rest \ {i}
      /\ leaf' \in [tile : SUBSET Tile(grid), list : SUBSET (DOMAIN scene),
                    rest : SUBSET (DOMAIN scene)]
  BY <1>1, <1>2
<1> DEFINE list == leaf.list \ leaf'.rest
<1>6. list = seen \cup {i} /\ Upto(Len(scene), list) /\ After(i, seen)
  BY <1>2, <1>3, <1>4, <1>5 DEF Upto
<1>7. \A j \in leaf'.rest : After(j, list)
  <2> SUFFICES ASSUME NEW j \in leaf'.rest, NEW k \in seen \cup {i} PROVE k < j
    BY <1>6 DEF After
  <2>1. CASE k \in seen
    BY <1>2, <1>5, <2>1 DEF After
  <2>2. CASE k = i
    <3>1. i <= j /\ i # j /\ i \in Nat /\ j \in Nat
      BY <1>3, <1>4, <1>5
    <3> QED BY <2>2, <3>1
  <2> QED BY <2>1, <2>2
<1>8. \A q \in leaf.tile :
        Answer(q)' = IF Contains(scene, i, PointAt(grid, q))
                       THEN <<i, IF Compound(scene, i) THEN material[q] ELSE None>>
                       ELSE Answer(q)
  BY <1>1, <1>2 DEF IInv, MapsOK, Answer
<1>9. \A q \in Tile(grid) \ leaf.tile : Answer(q)' = Answer(q) /\ underlying'[q] = underlying[q]
  BY <1>1 DEF IInv, MapsOK, Answer
<1> HIDE DEF list, seen, hit
<1>10. \A q \in leaf.tile : Answer(q)' = ObjectOfPoint(scene, list, PointAt(grid, q))
  <2> SUFFICES ASSUME NEW q \in leaf.tile
               PROVE  Answer(q)' = ObjectOfPoint(scene, list, PointAt(grid, q))
    OBVIOUS
  <2> DEFINE p == PointAt(grid, q)
  <2>1. ObjectOfPoint(scene, list, p)
           = IF Contains(scene, i, p)
               THEN <<i, IF Compound(scene, i) THEN ObjectOfPoint(scene, seen, p)[1] ELSE None>>
               ELSE ObjectOfPoint(scene, seen, p)
    BY <1>2, <1>6, LookupAppend
  <2>2. Answer(q)[1] = material[q]
    BY DEF Answer
  <2> QED BY <1>2, <1>8, <2>1, <2>2
<1>11. LeafOK'
  <2>1. list # {}
    BY <1>6
  <2> QED BY <1>1, <1>2, <1>5, <1>7, <1>10, <2>1 DEF LeafOK, list
<1>12. MapsOK'
  <2>1. i \in DOMAIN scene
    BY <1>2, <1>4
  <2>2. \A q \in Tile(grid) : material[q] \in DOMAIN scene \cup {None}
                             /\ underlying[q] \in DOMAIN scene \cup {None}
    BY DEF IInv, MapsOK
  <2> QED BY <1>1, <2>1, <2>2 DEF IInv, MapsOK
<1>13. TreeOK'
  BY <1>1, TreeUnchanged DEF IInv
<1>14. StacksOK'
  BY <1>1 DEF IInv, StacksOK, Items, Nodes
<1>15. WorkFresh'
  <2>1. \A k \in DOMAIN work : \A q \in work[k][2] : q \in Tile(grid)
    <3> SUFFICES ASSUME NEW k \in DOMAIN work PROVE work[k][2] \subseteq Tile(grid)
      OBVIOUS
    <3>1. work[k] \in Items
      BY DEF IInv, StacksOK
    <3> QED BY <3>1 DEF Items, ItemsOf
  <2> QED BY <1>1, <1>5, <1>9, <2>1 DEF IInv, WorkFresh
<1>16. Covered'
  <2>1. \A q \in Tile(grid) \ leaf.tile : Settled(q) => Settled(q)'
    BY <1>1, <1>9 DEF Settled
  <2>2. \A q : Waiting(q) => Waiting(q)'
    BY <1>1 DEF Waiting
  <2> QED BY <1>1, <1>5, <2>1, <2>2 DEF IInv, Covered
<1> QED BY <1>11, <1>12, <1>13, <1>14, <1>15, <1>16 DEF IInv

\* Every step keeps the invariant.
LEMMA StepInv == IInv /\ [Next]_vars => IInv'
<1> SUFFICES ASSUME IInv, [Next]_vars PROVE IInv'
  OBVIOUS
<1>1. CASE Branch
  BY <1>1, BranchInv
<1>2. CASE KeepLeaf
  BY <1>2, KeepLeafInv
<1>3. CASE LeafTiles
  <2>1. /\ branching = <<>> /\ leaf.rest = {} /\ work # <<>>
        /\ UNCHANGED <<scene, grid, tree, branching>>
    BY <1>3 DEF LeafTiles
  <2>2. CASE SkipEmpty(Head(work)[2])
    BY <2>1, <2>2, SkipEmptyInv
  <2>3. CASE Head(work)[2] # {} /\ OpenLeaf(Head(work)[1], Head(work)[2])
    BY <2>1, <2>3, OpenLeafInv
  <2>4. CASE ~IsLeaf(Head(work)[1]) /\ Descend(Head(work)[1], Head(work)[2])
    BY <2>1, <2>4, DescendInv
  <2> QED BY <1>3, <2>2, <2>3, <2>4 DEF LeafTiles
<1>4. CASE Paint
  BY <1>4, PaintInv
<1>5. CASE UNCHANGED vars
  <2>1. UNCHANGED <<scene, grid, tree, branching, work, leaf, material, underlying>>
    BY <1>5 DEF vars
  <2>2. TreeOK'
    BY <2>1, TreeUnchanged DEF IInv
  <2>3. LeafOK' /\ MapsOK' /\ Covered' /\ WorkFresh'
    BY <2>1 DEF IInv, LeafOK, MapsOK, Covered, Waiting, Settled, Answer, WorkFresh
  <2>4. StacksOK'
    BY <2>1 DEF IInv, StacksOK, Items, Nodes
  <2> QED BY <2>2, <2>3, <2>4 DEF IInv
<1> QED BY <1>1, <1>2, <1>3, <1>4, <1>5 DEF Next
-----------------------------------------------------------------------------
\* The tree stays well formed, and what has been painted stays right.
THEOREM Invariance == Spec => []IInv
<1>1. Init => IInv
  BY InitInv
<1>2. IInv /\ [Next]_vars => IInv'
  BY StepInv
<1> QED BY <1>1, <1>2, PTL DEF Spec

(***************************************************************************)
(* tree_search.  Its recursion ends because a child lists fewer objects,   *)
(* and ends in a leaf because the children of a node share out its box.    *)
(***************************************************************************)
\* Induction over the naturals, for a set of them.
LEMMA SetInduction ==
  ASSUME NEW T, 0 \in T, \A k \in Nat : k \in T => k + 1 \in T
  PROVE  Nat \subseteq T
<1> SUFFICES ASSUME Nat \ T # {} PROVE FALSE
  OBVIOUS
<1>1. PICK k \in Nat \ T : \A j \in Nat \ T : k <= j
  BY FirstIsLeast
<1>2. k # 0 /\ k - 1 \in Nat /\ k - 1 \in T
  BY <1>1
<1> QED BY <1>1, <1>2

Size(n) == Cardinality(tree[n].list)

\* A node lists finitely many objects, no more than the scene, and its children
\* fewer.
LEMMA SizeFacts ==
  ASSUME TreeOK, NEW n \in Nodes
  PROVE  /\ Size(n) \in Nat /\ Len(scene) \in Nat /\ Size(n) < Len(scene) + 1
         /\ ~IsLeaf(n) => /\ Left(n) \in Nodes /\ Right(n) \in Nodes
                          /\ Size(Left(n)) < Size(n) /\ Size(Right(n)) < Size(n)
<1>1. scene \in Scenes /\ tree[n].list \in SUBSET (DOMAIN scene)
  BY DEF TreeOK, NodeOK, Reaching, Nodes, NodesOf
<1>2. Len(scene) \in Nat /\ DOMAIN scene = 1..Len(scene)
  BY <1>1, SceneAssumption
<1>3. IsFiniteSet(DOMAIN scene) /\ Cardinality(DOMAIN scene) = Len(scene)
  <2>1. \A m \in Nat : IsFiniteSet(1..m) /\ Cardinality(1..m) = IF 1 > m THEN 0 ELSE m - 1 + 1
    BY FS_Interval
  <2>2. \A m \in Nat : IsFiniteSet(1..m) /\ Cardinality(1..m) = m
    BY <2>1
  <2> QED BY <1>2, <2>2
<1>4. /\ IsFiniteSet(tree[n].list) /\ Cardinality(tree[n].list) <= Len(scene)
  BY <1>1, <1>3, FS_Subset
<1>5. Cardinality(tree[n].list) \in Nat
  BY <1>4, FS_CardinalityType
<1>6. ~IsLeaf(n) => Halves(n)
  BY DEF TreeOK, Nodes, NodesOf
<1> QED BY <1>2, <1>4, <1>5, <1>6 DEF Size, Halves, Nodes, NodesOf

\* A point in the box of a node lies in the box of one of its children.
LEMMA HalvesCover ==
  ASSUME TreeOK, NEW n \in Nodes, ~IsLeaf(n), NEW p \in Points, InBox(tree[n].box, p)
  PROVE  InBox(tree[Left(n)].box, p) \/ InBox(tree[Right(n)].box, p)
<1> DEFINE b == tree[n].box
<1>1. Halves(n) /\ Proper(b)
  BY DEF TreeOK, NodeOK, Nodes, NodesOf
<1>2. PICK a \in Axes, x \in Int :
        /\ b.low[a] < x /\ x < b.high[a]
        /\ tree[Left(n)].box = Below(b, a, x) /\ tree[Right(n)].box = Above(b, a, x)
  BY <1>1 DEF Halves
<1> DEFINE B1 == Below(b, a, x)
           B2 == Above(b, a, x)
<1>3. \A k \in Axes : p[k] \in Int /\ b.low[k] <= p[k] /\ p[k] <= b.high[k]
  BY PointAssumption, InfAssumption DEF InBox
<1>4. /\ B1.low = b.low /\ B2.high = b.high /\ B1.high[a] = x /\ B2.low[a] = x
      /\ \A k \in Axes \ {a} : B1.high[k] = b.high[k] /\ B2.low[k] = b.low[k]
  <2> HIDE DEF b
  <2> QED BY <1>1, <1>2, HalvesProper
<1> HIDE DEF b, B1, B2
<1>5. p[a] <= x => InBox(B1, p)
  BY <1>3, <1>4 DEF InBox
<1>6. ~(p[a] <= x) => InBox(B2, p)
  BY <1>3, <1>4 DEF InBox
<1> QED BY <1>2, <1>5, <1>6 DEF B1, B2

\* What one call of tree_search does with the answers g of the deeper ones.
SearchStep(g, n, p) ==
  IF IsLeaf(n) THEN n
  ELSE IF InBox(tree[Left(n)].box, p) THEN g[Left(n)]
  ELSE IF InBox(tree[Right(n)].box, p) THEN g[Right(n)]
  ELSE NoLeaf

\* The recursion has a solution on the nodes of up to any size, and so on all.
LEMMA SearchDefined ==
  ASSUME TreeOK, NEW p
  PROVE  \E g : g = [n \in Nodes |-> SearchStep(g, n, p)]
<1> DEFINE Sized(k) == {n \in Nodes : Size(n) < k}
           Solves(g, k) == g = [n \in Sized(k) |-> SearchStep(g, n, p)]
           T == {k \in Nat : \E g : Solves(g, k)}
<1>1. 0 \in T
  <2>1. Sized(0) = {}
    BY SizeFacts
  <2>2. Solves([n \in {} |-> n], 0)
    BY <2>1
  <2> HIDE DEF Solves
  <2> QED BY <2>2
<1>2. ASSUME NEW k \in Nat, k \in T PROVE k + 1 \in T
  <2>1. PICK g : Solves(g, k)
    BY <1>2
  <2> DEFINE f == [n \in Sized(k + 1) |-> SearchStep(g, n, p)]
  <2>2. \A m \in Sized(k) : m \in Sized(k + 1) /\ f[m] = g[m]
    <3> TAKE m \in Sized(k)
    <3>1. m \in Sized(k + 1)
      BY SizeFacts
    <3>2. g[m] = SearchStep(g, m, p)
      BY <2>1
    <3> HIDE DEF Sized
    <3> QED BY <3>1, <3>2
  <2>3. ASSUME NEW n \in Sized(k + 1) PROVE f[n] = SearchStep(f, n, p)
    <3>1. f[n] = SearchStep(g, n, p)
      BY <2>3
    <3>2. ~IsLeaf(n) => Left(n) \in Sized(k) /\ Right(n) \in Sized(k)
      BY SizeFacts
    <3>3. ~IsLeaf(n) => f[Left(n)] = g[Left(n)] /\ f[Right(n)] = g[Right(n)]
      BY <2>2, <3>2
    <3> HIDE DEF f
    <3> QED BY <3>1, <3>3 DEF SearchStep
  <2>4. Solves(f, k + 1)
    <3>1. f = [n \in Sized(k + 1) |-> f[n]]
      OBVIOUS
    <3> HIDE DEF f, Sized
    <3> QED BY <2>3, <3>1
  <2> HIDE DEF Solves, f
  <2> QED BY <2>4
<1>3. Len(scene) + 1 \in T
  <2>1. <<>> \in Nodes
    BY DEF TreeOK, Nodes, NodesOf
  <2>2. Len(scene) + 1 \in Nat
    BY <2>1, SizeFacts
  <2> HIDE DEF T
  <2> QED BY <1>1, <1>2, <2>2, SetInduction
<1>4. PICK g : Solves(g, Len(scene) + 1)
  BY <1>3
<1>5. Sized(Len(scene) + 1) = Nodes
  BY SizeFacts
<1> HIDE DEF Sized
<1> QED BY <1>4, <1>5

\* A point in the box of a node ends in a leaf below it whose box holds it.
LEMMA SearchEnds ==
  ASSUME TreeOK, NEW p \in Points
  PROVE  /\ TreeSearch(p) \in DOMAIN tree /\ IsLeaf(TreeSearch(p))
         /\ InBox(tree[TreeSearch(p)].box, p)
<1> DEFINE f == CHOOSE g : g = [n \in Nodes |-> SearchStep(g, n, p)]
<1>1. f = [n \in Nodes |-> SearchStep(f, n, p)]
  BY SearchDefined
<1>2. TreeSearch(p) = f[<<>>]
  BY DEF TreeSearch, SearchStep, Nodes, NodesOf
<1> HIDE DEF f
<1> DEFINE Found(n) == f[n] \in Nodes /\ IsLeaf(f[n]) /\ InBox(tree[f[n]].box, p)
           T == {k \in Nat : \A n \in Nodes : Size(n) < k /\ InBox(tree[n].box, p) => Found(n)}
<1>3. 0 \in T
  BY SizeFacts
<1>4. ASSUME NEW k \in Nat, k \in T PROVE k + 1 \in T
  <2> SUFFICES ASSUME NEW n \in Nodes, Size(n) < k + 1, InBox(tree[n].box, p)
               PROVE  Found(n)
    OBVIOUS
  <2>1. f[n] = SearchStep(f, n, p)
    BY <1>1
  <2>2. CASE IsLeaf(n)
    BY <2>1, <2>2 DEF SearchStep
  <2>3. CASE ~IsLeaf(n)
    <3>1. /\ Left(n) \in Nodes /\ Right(n) \in Nodes /\ Size(Left(n)) < k /\ Size(Right(n)) < k
      <4>1. /\ Left(n) \in Nodes /\ Right(n) \in Nodes /\ Size(n) \in Nat
            /\ Size(Left(n)) < Size(n) /\ Size(Right(n)) < Size(n)
        BY <2>3, SizeFacts
      <4>2. Size(Left(n)) \in Nat /\ Size(Right(n)) \in Nat
        BY <4>1, SizeFacts
      <4> QED BY <4>1, <4>2
    <3>2. InBox(tree[Left(n)].box, p) => Found(Left(n))
      BY <1>4, <3>1
    <3>3. InBox(tree[Right(n)].box, p) => Found(Right(n))
      BY <1>4, <3>1
    <3>4. InBox(tree[Left(n)].box, p) \/ InBox(tree[Right(n)].box, p)
      BY <2>3, HalvesCover
    <3>5. (f[n] = f[Left(n)] /\ Found(Left(n))) \/ (f[n] = f[Right(n)] /\ Found(Right(n)))
      <4> HIDE DEF Found
      <4>1. CASE InBox(tree[Left(n)].box, p)
        BY <2>1, <2>3, <3>2, <4>1 DEF SearchStep
      <4>2. CASE ~InBox(tree[Left(n)].box, p)
        BY <2>1, <2>3, <3>3, <3>4, <4>2 DEF SearchStep
      <4> QED BY <4>1, <4>2
    <3> QED BY <3>5
  <2> QED BY <2>2, <2>3
<1>5. <<>> \in Nodes /\ InBox(tree[<<>>].box, p)
  <2>1. <<>> \in Nodes /\ tree[<<>>].box = Everywhere
    BY DEF TreeOK, Nodes, NodesOf
  <2>2. InBox(Everywhere, p)
    BY PointAssumption, InfAssumption DEF InBox, Everywhere
  <2> QED BY <2>1, <2>2
<1>6. Size(<<>>) + 1 \in T
  <2>1. Size(<<>>) + 1 \in Nat
    BY <1>5, SizeFacts
  <2> HIDE DEF T
  <2> QED BY <1>3, <1>4, <2>1, SetInduction
<1>7. Size(<<>>) \in Nat
  BY <1>5, SizeFacts
<1>8. \A n \in Nodes : Size(n) < Size(<<>>) + 1 /\ InBox(tree[n].box, p) => Found(n)
  BY <1>6
<1>9. Found(<<>>)
  <2> HIDE DEF Found
  <2>1. Size(<<>>) < Size(<<>>) + 1
    BY <1>7
  <2> QED BY <1>5, <1>8, <2>1
<1> QED BY <1>2, <1>9 DEF Nodes, NodesOf

\* Nodes carry boxes and indices of the scene, and the maps of the tile hold an
\* index or None.
THEOREM TypeCorrect == Spec => []TypeOK
<1>1. IInv => TypeOK
  BY DEF IInv, TreeOK, NodeOK, NodeType, LeafOK, MapsOK, TypeOK
<1> QED BY <1>1, Invariance, PTL

\* Whatever the scene, a node lists just the objects that reach into its box.
THEOREM NodesComplete == Spec => []LeafComplete
<1>1. IInv => LeafComplete
  BY DEF IInv, TreeOK, NodeOK, Reaching, LeafComplete
<1> QED BY <1>1, Invariance, PTL

\* Whatever the scene, a cut lies inside its box and leaves fewer objects on
\* either side.
THEOREM DivisionsShrink == Spec => []CutsShrink
<1>1. ASSUME IInv, NEW n \in DOMAIN tree, ~IsLeaf(n)
      PROVE  /\ \E a \in Axes : /\ tree[n].box.low[a] < tree[Left(n)].box.high[a]
                                /\ tree[Left(n)].box.high[a] = tree[Right(n)].box.low[a]
                                /\ tree[Right(n)].box.low[a] < tree[n].box.high[a]
             /\ \A m \in {Left(n), Right(n)} : Cardinality(tree[m].list) < Cardinality(tree[n].list)
  <2>1. Halves(n) /\ Proper(tree[n].box)
    BY <1>1 DEF IInv, TreeOK, NodeOK
  <2>2. PICK a \in Axes, x \in Int :
          /\ tree[n].box.low[a] < x /\ x < tree[n].box.high[a]
          /\ tree[Left(n)].box = Below(tree[n].box, a, x)
          /\ tree[Right(n)].box = Above(tree[n].box, a, x)
    BY <2>1 DEF Halves
  <2>3. tree[Left(n)].box.high[a] = x /\ tree[Right(n)].box.low[a] = x
    BY <2>1, <2>2, HalvesProper
  <2> QED BY <2>1, <2>2, <2>3 DEF Halves
<1>2. IInv => CutsShrink
  BY <1>1 DEF CutsShrink
<1> QED BY <1>2, Invariance, PTL

\* Whatever the scene and the tile, the lowered tile says of every point what a
\* scan of the whole list says.
THEOREM LoweringCorrect == Spec => []LoweringMatchesScan
<1>1. ASSUME IInv, Lowered, NEW q \in Tile(grid) PROVE Settled(q)
  <2>1. work = <<>> /\ leaf.rest = {}
    BY <1>1 DEF Lowered
  <2>2. ~Waiting(q)
    BY <2>1 DEF Waiting
  <2> QED BY <1>1, <2>1, <2>2, LeafSettles DEF IInv, Covered
<1>2. IInv => LoweringMatchesScan
  BY <1>1 DEF LoweringMatchesScan, Settled, Answer
<1> QED BY <1>2, Invariance, PTL

\* Whatever the scene, the tree answers every point, the one at infinity too, as
\* a scan of the whole list does: the leaf it reaches lists all that hold it.
THEOREM LookupCorrect == Spec => []LookupMatchesScan
<1>1. ASSUME IInv, NEW p \in Points
      PROVE  /\ TreeSearch(p) # NoLeaf
             /\ ObjectOfPoint(scene, tree[TreeSearch(p)].list, p)
                  = ObjectOfPoint(scene, DOMAIN scene, p)
  <2> DEFINE nd == tree[TreeSearch(p)]
  <2>1. TreeSearch(p) \in DOMAIN tree /\ InBox(nd.box, p) /\ TreeOK
    BY <1>1, SearchEnds DEF IInv
  <2>2. TreeSearch(p) # NoLeaf /\ scene \in Scenes /\ NodeOK(scene, nd)
    BY <2>1 DEF TreeOK
  <2> HIDE DEF nd
  <2>3. /\ Hits(scene, DOMAIN scene, p) \subseteq nd.list
        /\ \E m \in nd.list : Contains(scene, m, p) /\ ~Compound(scene, m)
    BY <2>1, <2>2, NodeHasHits
  <2>4. nd.list \subseteq DOMAIN scene /\ Upto(Len(scene), DOMAIN scene)
    BY <2>2, SceneFacts DEF NodeOK, Reaching
  <2>5. ObjectOfPoint(scene, nd.list, p) = ObjectOfPoint(scene, DOMAIN scene, p)
    BY <2>3, <2>4, ShortListSuffices
  <2> QED BY <2>2, <2>5 DEF nd
<1>2. IInv => LookupMatchesScan
  BY <1>1 DEF LookupMatchesScan
<1> QED BY <1>2, Invariance, PTL
=============================================================================
