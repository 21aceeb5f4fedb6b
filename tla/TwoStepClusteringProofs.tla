------------------------ MODULE TwoStepClusteringProofs ------------------------
(***************************************************************************)
(* The temporal clusterer and the splitter for any sensor, tolerance and   *)
(* number of hits: no hit is lost or in two clusters, no cluster is empty, *)
(* clusters leave in the order of their first toa, and the matrix holds    *)
(* the group that is cut and no more.                                      *)
(*                                                                         *)
(* The last part is about the files that clusters end up in.               *)
(***************************************************************************)
EXTENDS TwoStepClustering, FiniteSetTheorems, WellFoundedInduction, TLAPS

\* The hits of a cluster came one after the other.
Ordered(s) ==
    \A i, j \in DOMAIN s : i < j => s[i].id < s[j].id /\ s[i].toa <= s[j].toa

\* What is said of a sequence o of clusters: its hits, that none is in it twice,
\* that no cluster is empty, and that the first hits are in order.
HitsOf(o) == UNION {Range(o[i]) : i \in DOMAIN o}

Once(o) ==
    \A i, j \in DOMAIN o : \A k \in DOMAIN o[i], l \in DOMAIN o[j] :
        o[i][k] = o[j][l] => i = j /\ k = l

Filled(o) == \A i \in DOMAIN o : o[i] # <<>> /\ Ordered(o[i])

HeadsSorted(o) == \A i, j \in DOMAIN o : i <= j => o[i][1].toa <= o[j][1].toa

\* The hits of s on the pixel of g.
SamePixel(s, g) == {h \in Range(s) : h.x = g.x /\ h.y = g.y}

-----------------------------------------------------------------------------
(* The inductive invariant. *)

\* Which of the variables are in use in which phase.
Shapes ==
    /\ node \in {"temporal", "splitter"}
    /\ phase \in {"read", "process", "label", "closed"}
    /\ arrived \in Seq(Hit) /\ open \in Seq(Hit) /\ group \in Seq(Hit)
    /\ output \in Seq(Seq(Hit))
    /\ Len(open) <= Len(arrived) /\ Len(group) <= Len(arrived)
    /\ Len(arrived) <= MaxHits
    /\ \A i \in DOMAIN arrived : arrived[i].id = i
    /\ lastToa = IF arrived = <<>> THEN 0 ELSE arrived[Len(arrived)].toa
    /\ arrived = <<>> <=> open = <<>>
    /\ phase \in {"read", "closed"} => group = <<>>
    /\ phase \in {"process", "label"} => node = "splitter"
    /\ phase # "label" => DOMAIN matrix = {} /\ frontier = {}
    /\ matrix = [h \in DOMAIN matrix |-> matrix[h]]

\* What is written is older than the group, and that older than the open cluster;
\* of a written cluster that is so of its first hit only.
InTurn ==
    /\ Filled(output) /\ HeadsSorted(output)
    /\ Ordered(group) /\ Ordered(open)
    /\ \A g \in Range(group), h \in Range(open) : g.toa <= h.toa
    /\ \A h \in Range(group) \cup Range(open) : h.toa <= lastToa
    /\ \A i \in DOMAIN output :
          /\ output[i][1].toa <= lastToa
          /\ \A h \in Range(group) \cup Range(open) : output[i][1].toa <= h.toa

\* Labels are given from 1 on, each first to the first hit without one: whatever
\* a hit's label, it comes behind a hit of each lower one, and one without label
\* behind a hit of each.
LabelsInTurn ==
    phase = "label" =>
        /\ DOMAIN matrix = Range(group)
        /\ \A j \in DOMAIN group : matrix[group[j]] \in 0..j
        /\ \A l \in Labels : 1..l \subseteq Labels
        /\ \A j \in DOMAIN group, l \in Labels :
              (matrix[group[j]] = 0 \/ l < matrix[group[j]]) =>
                 \E i \in DOMAIN group : i < j /\ matrix[group[i]] = l
        /\ frontier \subseteq {h \in Range(group) : matrix[h] # 0}

\* Each hit that arrived is written, in the group or open, and is so once.
EachInOnePlace ==
    /\ Once(output)
    /\ HitsOf(output) \cup Range(group) \cup Range(open) \subseteq Range(arrived)
    /\ HitsOf(output) \cap Range(group) = {}
    /\ HitsOf(output) \cap Range(open) = {}
    /\ Range(group) \cap Range(open) = {}
    /\ \A h \in Range(arrived) :
          \/ h \in HitsOf(output) \cup Range(group) \cup Range(open)
          \/ node = "temporal" /\ h.toa = 0

\* A pixel is hit no more often than there is room for.
RoomForEach ==
    node = "splitter" =>
        \A s \in {open, group} : \A g \in Hit :
            Cardinality(SamePixel(s, g)) <= MaxSamePixel

TwoStepInv == Shapes /\ InTurn /\ LabelsInTurn /\ EachInOnePlace /\ RoomForEach

-----------------------------------------------------------------------------
(* Sets of numbers and sequences. *)

\* The elements of a finite set of numbers, from the smallest on.
Upto(S, i) == {j \in S : j <= i}

LEMMA UptoCounts ==
    ASSUME NEW n \in Nat, NEW S \in SUBSET (1..n)
    PROVE  /\ IsFiniteSet(S) /\ Cardinality(S) \in Nat
           /\ S # {} => Cardinality(S) # 0
           /\ \A i \in S : Cardinality(Upto(S, i)) \in 1..Cardinality(S)
           /\ \A i, j \in S : i < j => Cardinality(Upto(S, i)) < Cardinality(Upto(S, j))
<1>0. \A i \in S : i \in Nat
  OBVIOUS
<1>1. IsFiniteSet(1..n)
  BY FS_Interval, 1 \in Int, n \in Int
<1>2. IsFiniteSet(S)
  BY <1>1, FS_Subset
<1>3. Cardinality(S) \in Nat /\ (S # {} => Cardinality(S) # 0)
  BY <1>2, FS_CardinalityType, FS_EmptySet
<1>4. ASSUME NEW i \in S
      PROVE  /\ IsFiniteSet(Upto(S, i)) /\ Cardinality(Upto(S, i)) \in Nat
             /\ Cardinality(Upto(S, i)) # 0 /\ Cardinality(Upto(S, i)) <= Cardinality(S)
  <2>1. Upto(S, i) \in SUBSET S /\ Upto(S, i) # {}
    BY DEF Upto
  <2>2. IsFiniteSet(Upto(S, i)) /\ Cardinality(Upto(S, i)) <= Cardinality(S)
    BY <1>2, <2>1, FS_Subset
  <2>3. Cardinality(Upto(S, i)) \in Nat /\ Cardinality(Upto(S, i)) # 0
    BY <2>1, <2>2, FS_CardinalityType, FS_EmptySet
  <2> QED BY <2>2, <2>3
<1>5. ASSUME NEW i \in S, NEW j \in S, i < j
      PROVE  Cardinality(Upto(S, i)) < Cardinality(Upto(S, j))
  <2>1. Upto(S, i) \in SUBSET Upto(S, j) /\ j \in Upto(S, j) /\ j \notin Upto(S, i)
    <3>1. \A k \in S : k <= i => k <= j
      BY <1>0, <1>5
    <3>2. j <= j /\ ~(j <= i)
      BY <1>0, <1>5
    <3> QED BY <3>1, <3>2 DEF Upto
  <2>2. /\ Cardinality(Upto(S, i)) <= Cardinality(Upto(S, j))
        /\ Cardinality(Upto(S, i)) = Cardinality(Upto(S, j)) => Upto(S, j) = Upto(S, i)
    <3>1. IsFiniteSet(Upto(S, j))
      BY <1>4
    <3> QED BY <2>1, <3>1, FS_Subset
  <2>3. Cardinality(Upto(S, i)) \in Nat /\ Cardinality(Upto(S, j)) \in Nat
    BY <1>4
  <2> QED BY <2>1, <2>2, <2>3
<1>6. \A i \in S : Cardinality(Upto(S, i)) \in 1..Cardinality(S)
  BY <1>3, <1>4
<1> QED BY <1>2, <1>3, <1>5, <1>6

LEMMA NthElement ==
    ASSUME NEW n \in Nat, NEW S \in SUBSET (1..n)
    PROVE  /\ Cardinality(S) \in Nat
           /\ \A k \in 1..Cardinality(S) : Nth(S, k) \in S
           /\ \A k, l \in 1..Cardinality(S) : k < l => Nth(S, k) < Nth(S, l)
           /\ \A i \in S : \E k \in 1..Cardinality(S) : Nth(S, k) = i
           /\ S # {} => 1 \in 1..Cardinality(S)
<1> DEFINE c == Cardinality(S)
           f == [i \in S |-> Cardinality(Upto(S, i))]
<1>1. /\ IsFiniteSet(S) /\ c \in Nat /\ (S # {} => c # 0)
      /\ \A i \in S : f[i] = Cardinality(Upto(S, i))
      /\ f \in [S -> 1..c] /\ \A i \in S : f[i] \in 1..c
      /\ \A i, j \in S : i < j => f[i] < f[j]
  BY UptoCounts
<1>0. \A i \in S : i \in Nat
  OBVIOUS
<1>2. \A k : Nth(S, k) = CHOOSE i \in S : Cardinality(Upto(S, i)) = k
  BY DEF Nth, Upto
<1> HIDE DEF f, c
<1>3. \A i, j \in S : i # j => f[i] # f[j]
  <2>1. \A i, j \in S : f[i] \in Nat /\ (i < j \/ j < i \/ i = j)
    BY <1>1
  <2> QED BY <1>1, <2>1
<1>4. f \in Injection(S, 1..c)
  BY <1>1, <1>3 DEF Injection, IsInjective
<1>5. f \in Surjection(S, 1..c)
  <2>1. IsFiniteSet(1..c) /\ Cardinality(1..c) = c
    BY <1>1, FS_Interval, 1 \in Int
  <2>2. Cardinality(S) = Cardinality(1..c) <=> f \in Surjection(S, 1..c)
    BY <1>4, <2>1, FS_Injection
  <2> QED BY <2>1, <2>2 DEF c
<1>6. ASSUME NEW k \in 1..c PROVE Nth(S, k) \in S /\ f[Nth(S, k)] = k
  <2>1. \E i \in S : f[i] = k
    BY <1>5 DEF Surjection
  <2>2. \E i \in S : Cardinality(Upto(S, i)) = k
    BY <1>1, <2>1
  <2>3. Nth(S, k) \in S /\ Cardinality(Upto(S, Nth(S, k))) = k
    BY <1>2, <2>2
  <2> QED BY <1>1, <2>3
<1>7. ASSUME NEW k \in 1..c, NEW l \in 1..c, k < l
      PROVE  Nth(S, k) < Nth(S, l)
  <2>1. Nth(S, k) \in S /\ Nth(S, l) \in S /\ f[Nth(S, k)] = k /\ f[Nth(S, l)] = l
    BY <1>6
  <2>2. Nth(S, k) \in Nat /\ Nth(S, l) \in Nat /\ k \in Nat /\ l \in Nat
    <3>1. c \in Nat
      BY <1>1
    <3>2. Nth(S, k) \in Nat /\ Nth(S, l) \in Nat
      BY <1>0, <2>1
    <3>3. k \in Nat /\ l \in Nat
      BY <3>1
    <3> QED BY <3>2, <3>3
  <2>3. ~(Nth(S, l) < Nth(S, k)) /\ Nth(S, l) # Nth(S, k)
    BY <1>1, <1>7, <2>1, <2>2
  <2> QED BY <2>2, <2>3
<1>8. ASSUME NEW i \in S PROVE \E k \in 1..c : Nth(S, k) = i
  <2>1. f[i] \in 1..c
    BY <1>1
  <2>2. Nth(S, f[i]) \in S /\ f[Nth(S, f[i])] = f[i]
    BY <1>6, <2>1
  <2> QED BY <1>3, <2>1, <2>2
<1>9. S # {} => 1 \in 1..c
  BY <1>1
<1> QED BY <1>1, <1>6, <1>7, <1>8, <1>9 DEF c

\* Numbers of hits and of their times.
LEMMA HitType ==
    /\ \A h \in Hit : h.id \in 1..MaxHits /\ h.toa \in Nat /\ h.toa \in 0..MaxToa
    /\ {MaxHits, MaxToa, JoinTime, AreaLimit, MaxDt} \subseteq Nat
    /\ MaxSamePixel \in Nat \ {0}
  BY TwoStepAssumption, SensorAssumption DEF Hit

\* One sequence behind another.
LEMMA Concatenation ==
    ASSUME NEW S, NEW o \in Seq(S), NEW p \in Seq(S)
    PROVE  /\ o \o p \in Seq(S)
           /\ Len(o) \in Nat /\ Len(p) \in Nat /\ Len(o \o p) = Len(o) + Len(p)
           /\ DOMAIN o = 1..Len(o) /\ DOMAIN p = 1..Len(p)
           /\ DOMAIN (o \o p) = 1..(Len(o) + Len(p))
           /\ \A i \in 1..Len(o) : (o \o p)[i] = o[i]
           /\ \A i \in 1..Len(p) : (o \o p)[Len(o) + i] = p[i]
           /\ \A i \in 1..(Len(o) + Len(p)) :
                  i \in 1..Len(o) \/ \E k \in 1..Len(p) : i = Len(o) + k
<1>1. /\ o \o p \in Seq(S)
      /\ Len(o) \in Nat /\ Len(p) \in Nat /\ Len(o \o p) = Len(o) + Len(p)
      /\ DOMAIN o = 1..Len(o) /\ DOMAIN p = 1..Len(p)
      /\ DOMAIN (o \o p) = 1..(Len(o) + Len(p))
  OBVIOUS
<1>2. /\ \A i \in 1..Len(o) : (o \o p)[i] = o[i]
      /\ \A i \in 1..Len(p) : (o \o p)[Len(o) + i] = p[i]
  OBVIOUS
<1>3. ASSUME NEW i \in 1..(Len(o) + Len(p)), i \notin 1..Len(o)
      PROVE  \E k \in 1..Len(p) : i = Len(o) + k
  <2>1. i - Len(o) \in 1..Len(p) /\ i = Len(o) + (i - Len(o))
    BY <1>1, <1>3
  <2> QED BY <2>1
<1> QED BY <1>1, <1>2, <1>3

\* The hits of a cluster that another one joins.
LEMMA HitAppended ==
    ASSUME NEW s \in Seq(Hit), NEW h \in Hit
    PROVE  /\ Append(s, h) \in Seq(Hit) /\ Append(s, h) # <<>>
           /\ Len(s) \in Nat /\ Len(Append(s, h)) = Len(s) + 1
           /\ DOMAIN s = 1..Len(s) /\ DOMAIN Append(s, h) = 1..(Len(s) + 1)
           /\ Append(s, h)[Len(s) + 1] = h
           /\ \A i \in DOMAIN s : Append(s, h)[i] = s[i]
           /\ Range(Append(s, h)) = Range(s) \cup {h}
<1>1. /\ Append(s, h) \in Seq(Hit) /\ Append(s, h) # <<>>
      /\ Len(s) \in Nat /\ Len(Append(s, h)) = Len(s) + 1
      /\ DOMAIN s = 1..Len(s) /\ DOMAIN Append(s, h) = 1..(Len(s) + 1)
      /\ Append(s, h)[Len(s) + 1] = h
      /\ \A i \in DOMAIN s : Append(s, h)[i] = s[i]
  OBVIOUS
<1> DEFINE r == Append(s, h)
<1> HIDE DEF r
<1>2. Range(r) = Range(s) \cup {h}
  <2>1. /\ Len(s) \in Nat /\ DOMAIN s = 1..Len(s) /\ DOMAIN r = 1..(Len(s) + 1)
        /\ r[Len(s) + 1] = h /\ \A i \in DOMAIN s : r[i] = s[i]
    BY <1>1 DEF r
  <2>2. \A i \in 1..(Len(s) + 1) : i \in 1..Len(s) \/ i = Len(s) + 1
    BY <2>1
  <2>3. \A i \in 1..Len(s) : i \in 1..(Len(s) + 1)
    BY <2>1
  <2>4. Len(s) + 1 \in 1..(Len(s) + 1)
    BY <2>1
  <2> QED BY <2>1, <2>2, <2>3, <2>4 DEF Range
<1> QED BY <1>1, <1>2 DEF r

LEMMA OrderedAppended ==
    ASSUME NEW s \in Seq(Hit), NEW h \in Hit, Ordered(s),
           \A g \in Range(s) : g.id < h.id /\ g.toa <= h.toa
    PROVE  Ordered(Append(s, h))
<1> DEFINE r == Append(s, h)
<1>1. /\ Len(s) \in Nat /\ DOMAIN s = 1..Len(s) /\ DOMAIN r = 1..(Len(s) + 1)
      /\ r[Len(s) + 1] = h /\ \A i \in DOMAIN s : r[i] = s[i]
  BY HitAppended
<1> HIDE DEF r
<1> SUFFICES ASSUME NEW i \in DOMAIN r, NEW j \in DOMAIN r, i < j
             PROVE  r[i].id < r[j].id /\ r[i].toa <= r[j].toa
  BY DEF Ordered, r
<1>2. i \in DOMAIN s /\ r[i] = s[i]
  BY <1>1
<1>3. CASE j \in DOMAIN s
  BY <1>1, <1>2, <1>3 DEF Ordered
<1>4. CASE j = Len(s) + 1
  BY <1>1, <1>2, <1>4 DEF Range
<1> QED BY <1>1, <1>3, <1>4

\* The first toa of a cluster is that of its first hit.
LEMMA FirstIsHead ==
    ASSUME NEW s \in Seq(Hit), s # <<>>, Ordered(s)
    PROVE  /\ s[1] \in Range(s) /\ s[1].toa \in Nat
           /\ \A h \in Range(s) : s[1].toa <= h.toa
           /\ FirstToa(Range(s)) = s[1].toa
<1>1. 1 \in DOMAIN s /\ DOMAIN s = 1..Len(s) /\ Len(s) \in Nat
  OBVIOUS
<1>2. \A i \in DOMAIN s : s[i] \in Hit /\ s[i].toa \in Nat
  BY HitType
<1>3. \A h \in Range(s) : s[1].toa <= h.toa /\ h.toa \in Nat
  <2> SUFFICES ASSUME NEW i \in DOMAIN s PROVE s[1].toa <= s[i].toa
    BY <1>2 DEF Range
  <2>1. i = 1 \/ 1 < i
    BY <1>1
  <2> QED BY <1>1, <1>2, <2>1 DEF Ordered
<1>4. s[1] \in Range(s) /\ s[1].toa \in Nat
  BY <1>1, <1>2 DEF Range
<1> DEFINE R == Range(s)
           T == {h.toa : h \in R}
<1> HIDE DEF R
<1>5. s[1].toa \in T /\ \A h \in R : s[1].toa <= h.toa
  BY <1>3, <1>4 DEF R
<1>6. FirstToa(R) \in T /\ \A h \in R : FirstToa(R) <= h.toa
  <2> HIDE DEF T
  <2>1. FirstToa(R) = CHOOSE t \in T : \A h \in R : t <= h.toa
    BY DEF FirstToa, T
  <2> QED BY <1>5, <2>1
<1>7. PICK h \in R : FirstToa(R) = h.toa
  BY <1>6
<1>8. FirstToa(R) = s[1].toa
  BY <1>3, <1>4, <1>6, <1>7 DEF R
<1> QED BY <1>3, <1>4, <1>8 DEF R

\* What holds of two sequences of clusters holds of one behind the other, if no
\* hit is in both and the first hits are in order.
LEMMA ClustersAppended ==
    ASSUME NEW o \in Seq(Seq(Hit)), NEW p \in Seq(Seq(Hit))
    PROVE  /\ o \o p \in Seq(Seq(Hit))
           /\ HitsOf(o \o p) = HitsOf(o) \cup HitsOf(p)
           /\ \A i \in DOMAIN (o \o p) :
                 \/ i \in DOMAIN o /\ (o \o p)[i] = o[i]
                 \/ \E k \in DOMAIN p : (o \o p)[i] = p[k]
           /\ Filled(o) /\ Filled(p) => Filled(o \o p)
           /\ Once(o) /\ Once(p) /\ HitsOf(o) \cap HitsOf(p) = {} => Once(o \o p)
           /\ /\ HeadsSorted(o) /\ HeadsSorted(p)
              /\ \A i \in DOMAIN o, k \in DOMAIN p : o[i][1].toa <= p[k][1].toa
              => HeadsSorted(o \o p)
<1> DEFINE r == o \o p
           n == Len(o)
           m == Len(p)
<1>1. /\ r \in Seq(Seq(Hit))
      /\ n \in Nat /\ m \in Nat
      /\ DOMAIN o = 1..n /\ DOMAIN p = 1..m /\ DOMAIN r = 1..(n + m)
      /\ \A i \in 1..n : r[i] = o[i]
      /\ \A i \in 1..m : r[n + i] = p[i]
      /\ \A i \in 1..(n + m) : i \in 1..n \/ \E k \in 1..m : i = n + k
  BY Concatenation
<1> HIDE DEF r, n, m
<1>2. (\A i \in 1..n : i \in 1..(n + m)) /\ (\A k \in 1..m : n + k \in 1..(n + m))
  BY <1>1
<1>3. \A i \in DOMAIN r : \/ i \in DOMAIN o /\ r[i] = o[i]
                          \/ \E k \in DOMAIN p : i = n + k /\ r[i] = p[k]
  <2> SUFFICES ASSUME NEW i \in 1..(n + m), i \notin 1..n
               PROVE  \E k \in 1..m : i = n + k /\ r[i] = p[k]
    BY <1>1
  <2>1. PICK k \in 1..m : i = n + k
    BY <1>1
  <2> QED BY <1>1, <2>1
<1>4. HitsOf(r) = HitsOf(o) \cup HitsOf(p)
  <2>1. \A h : h \in HitsOf(r) => h \in HitsOf(o) \/ h \in HitsOf(p)
    <3> SUFFICES ASSUME NEW i \in DOMAIN r, NEW h \in Range(r[i])
                 PROVE  h \in HitsOf(o) \/ h \in HitsOf(p)
      BY DEF HitsOf
    <3> QED BY <1>3 DEF HitsOf
  <2>2. \A h : h \in HitsOf(o) => h \in HitsOf(r)
    <3> SUFFICES ASSUME NEW i \in DOMAIN o, NEW h \in Range(o[i])
                 PROVE  h \in HitsOf(r)
      BY DEF HitsOf
    <3>1. i \in DOMAIN r /\ r[i] = o[i]
      BY <1>1, <1>2
    <3> QED BY <3>1 DEF HitsOf
  <2>3. \A h : h \in HitsOf(p) => h \in HitsOf(r)
    <3> SUFFICES ASSUME NEW i \in DOMAIN p, NEW h \in Range(p[i])
                 PROVE  h \in HitsOf(r)
      BY DEF HitsOf
    <3>1. n + i \in DOMAIN r /\ r[n + i] = p[i]
      BY <1>1, <1>2
    <3> QED BY <3>1 DEF HitsOf
  <2> QED BY <2>1, <2>2, <2>3
<1>5. Filled(o) /\ Filled(p) => Filled(r)
  BY <1>3 DEF Filled
<1>6. ASSUME Once(o), Once(p), HitsOf(o) \cap HitsOf(p) = {}
      PROVE  Once(r)
  <2> SUFFICES ASSUME NEW i \in DOMAIN r, NEW j \in DOMAIN r,
                      NEW k \in DOMAIN r[i], NEW l \in DOMAIN r[j], r[i][k] = r[j][l]
               PROVE  i = j /\ k = l
    BY DEF Once
  <2>1. r[i][k] \in Range(r[i]) /\ r[j][l] \in Range(r[j])
    BY DEF Range
  <2>2. \A a \in DOMAIN o, b \in DOMAIN p : \A h : ~(h \in Range(o[a]) /\ h \in Range(p[b]))
    BY <1>6 DEF HitsOf
  <2>3. CASE i \in DOMAIN o /\ r[i] = o[i] /\ j \in DOMAIN o /\ r[j] = o[j]
    BY <1>6, <2>3 DEF Once
  <2>4. CASE /\ \E a \in DOMAIN p : i = n + a /\ r[i] = p[a]
             /\ \E b \in DOMAIN p : j = n + b /\ r[j] = p[b]
    <3>1. PICK a \in DOMAIN p : i = n + a /\ r[i] = p[a]
      BY <2>4
    <3>2. PICK b \in DOMAIN p : j = n + b /\ r[j] = p[b]
      BY <2>4
    <3>3. k \in DOMAIN p[a] /\ l \in DOMAIN p[b] /\ p[a][k] = p[b][l]
      BY <3>1, <3>2
    <3>4. a = b /\ k = l
      BY <1>6, <3>3 DEF Once
    <3> QED BY <3>1, <3>2, <3>4
  <2> QED BY <1>3, <2>1, <2>2, <2>3, <2>4
<1>7. ASSUME HeadsSorted(o), HeadsSorted(p),
             \A i \in DOMAIN o, k \in DOMAIN p : o[i][1].toa <= p[k][1].toa
      PROVE  HeadsSorted(r)
  <2> SUFFICES ASSUME NEW i \in DOMAIN r, NEW j \in DOMAIN r, i <= j
               PROVE  r[i][1].toa <= r[j][1].toa
    BY DEF HeadsSorted
  <2>1. CASE i \in DOMAIN o /\ r[i] = o[i] /\ j \in DOMAIN o /\ r[j] = o[j]
    BY <1>7, <2>1 DEF HeadsSorted
  <2>2. CASE /\ i \in DOMAIN o /\ r[i] = o[i]
             /\ \E b \in DOMAIN p : j = n + b /\ r[j] = p[b]
    BY <1>7, <2>2
  <2>3. CASE /\ \E a \in DOMAIN p : i = n + a /\ r[i] = p[a]
             /\ \E b \in DOMAIN p : j = n + b /\ r[j] = p[b]
    <3>1. PICK a \in DOMAIN p : i = n + a /\ r[i] = p[a]
      BY <2>3
    <3>2. PICK b \in DOMAIN p : j = n + b /\ r[j] = p[b]
      BY <2>3
    <3>3. a <= b
      BY <1>1, <3>1, <3>2
    <3>4. p[a][1].toa <= p[b][1].toa
      BY <1>7, <3>3 DEF HeadsSorted
    <3> QED BY <3>1, <3>2, <3>4
  <2>4. ~((\E a \in DOMAIN p : i = n + a /\ r[i] = p[a]) /\ j \in DOMAIN o)
    BY <1>1
  <2> QED BY <1>3, <2>1, <2>2, <2>3, <2>4
<1> QED BY <1>1, <1>3, <1>4, <1>5, <1>6, <1>7 DEF r

\* A cluster is a sequence of clusters too.
LEMMA OneCluster ==
    ASSUME NEW c \in Seq(Hit), c # <<>>, Ordered(c)
    PROVE  /\ <<c>> \in Seq(Seq(Hit))
           /\ DOMAIN <<c>> = {1} /\ <<c>>[1] = c
           /\ HitsOf(<<c>>) = Range(c)
           /\ Filled(<<c>>) /\ Once(<<c>>) /\ HeadsSorted(<<c>>)
<1> DEFINE p == <<c>>
<1>1. p \in Seq(Seq(Hit)) /\ DOMAIN p = {1} /\ p[1] = c
  OBVIOUS
<1> HIDE DEF p
<1>2. HitsOf(p) = Range(c)
  BY <1>1 DEF HitsOf
<1>3. Filled(p)
  BY <1>1 DEF Filled
<1>4. Once(p)
  <2>1. \A k, l \in DOMAIN c : c[k].id \in Nat /\ c[l].id \in Nat /\ (k < l \/ l < k \/ k = l)
    BY HitType
  <2>2. \A k, l \in DOMAIN c : c[k] = c[l] => k = l
    BY <2>1 DEF Ordered
  <2> QED BY <1>1, <2>2 DEF Once
<1>5. HeadsSorted(p)
  <2>1. 1 \in DOMAIN c /\ c[1] \in Hit
    OBVIOUS
  <2>2. c[1].toa \in Nat /\ c[1].toa <= c[1].toa
    BY <2>1, HitType
  <2> QED BY <1>1, <2>2 DEF HeadsSorted
<1> QED BY <1>1, <1>2, <1>3, <1>4, <1>5 DEF p

LEMMA ClusterAppended ==
    ASSUME NEW o \in Seq(Seq(Hit)), NEW c \in Seq(Hit)
    PROVE  Append(o, c) = o \o <<c>>
  OBVIOUS

\* A set of numbers with all those below any of it are the first numbers.
LEMMA FirstNumbers ==
    ASSUME NEW n \in Nat, NEW S \in SUBSET (1..n), \A l \in S : 1..l \subseteq S
    PROVE  Cardinality(S) \in Nat /\ S = 1..Cardinality(S)
<1> DEFINE c == Cardinality(S)
<1>1. c \in Nat
  BY NthElement
<1>2. CASE S = {}
  BY <1>2, FS_EmptySet
<1>3. CASE S # {}
  <2>1. 1 \in 1..c
    BY <1>3, NthElement
  <2>2. c \in 1..c
    BY <1>1, <2>1
  <2>3. PICK m : m = Nth(S, c)
    OBVIOUS
  <2>4. m \in S
    BY <2>2, <2>3, NthElement
  <2>5. \A i \in S : i <= m
    <3> SUFFICES ASSUME NEW i \in S PROVE i <= m
      OBVIOUS
    <3>1. PICK k \in 1..c : Nth(S, k) = i
      BY NthElement
    <3>2. k < c => i < m
      BY <2>2, <2>3, <3>1, NthElement
    <3>3. k < c \/ k = c
      BY <1>1
    <3>4. i \in Nat /\ m \in Nat
      BY <2>4
    <3> QED BY <2>3, <3>1, <3>2, <3>3, <3>4
  <2>6. m \in 1..n
    BY <2>4
  <2>7. \A i \in S : i \in 1..m
    <3>1. \A i \in S : i \in 1..n
      OBVIOUS
    <3> QED BY <2>5, <2>6, <3>1
  <2>8. S = 1..m
    BY <2>4, <2>7
  <2>9. Cardinality(1..m) = m
    BY <2>6, FS_Interval, 1 \in Int, m \in Int
  <2> QED BY <2>6, <2>8, <2>9
<1> QED BY <1>2, <1>3

-----------------------------------------------------------------------------
(* Cutting a group. *)

Marked(l) == {i \in DOMAIN group : matrix[group[i]] = l}

\* The part of a label is the hits with it, in order, from the first one on.
LEMMA PartFacts ==
    ASSUME group \in Seq(Hit), Ordered(group), NEW l, Marked(l) # {}
    PROVE  /\ Part(l) \in Seq(Hit) /\ Part(l) # <<>> /\ Ordered(Part(l))
           /\ Range(Part(l)) = {h \in Range(group) : matrix[h] = l}
           /\ \E f \in Marked(l) : Part(l)[1] = group[f] /\ \A i \in Marked(l) : f <= i
<1> DEFINE c == Cardinality(Marked(l))
           p == Part(l)
<1>1. PICK n \in Nat : n = Len(group) /\ DOMAIN group = 1..n
  OBVIOUS
<1>2. \A i \in 1..n : group[i] \in Hit
  BY <1>1
<1>3. Marked(l) \in SUBSET (1..n)
  BY <1>1 DEF Marked
<1>4. /\ c \in Nat /\ 1 \in 1..c
      /\ \A k \in 1..c : Nth(Marked(l), k) \in Marked(l)
      /\ \A k, m \in 1..c : k < m => Nth(Marked(l), k) < Nth(Marked(l), m)
      /\ \A i \in Marked(l) : \E k \in 1..c : Nth(Marked(l), k) = i
  BY <1>3, NthElement
<1>5. p = [k \in 1..c |-> group[Nth(Marked(l), k)]]
  BY DEF Part, Marked
<1> HIDE DEF c, p
<1>6. \A k \in 1..c : Nth(Marked(l), k) \in 1..n /\ p[k] = group[Nth(Marked(l), k)]
  BY <1>3, <1>4, <1>5
<1>7. p \in Seq(Hit) /\ DOMAIN p = 1..c /\ Len(p) = c
  <2>1. p \in [1..c -> Hit]
    BY <1>2, <1>4, <1>5, <1>6
  <2> QED BY <1>4, <2>1
<1>8. p # <<>>
  BY <1>4, <1>7
<1>9. Ordered(p)
  <2> SUFFICES ASSUME NEW k \in 1..c, NEW m \in 1..c, k < m
               PROVE  p[k].id < p[m].id /\ p[k].toa <= p[m].toa
    BY <1>7 DEF Ordered
  <2>1. Nth(Marked(l), k) < Nth(Marked(l), m)
    BY <1>4
  <2> QED BY <1>1, <1>6, <2>1 DEF Ordered
<1>10. Range(p) = {h \in Range(group) : matrix[h] = l}
  <2>1. \A k \in 1..c : p[k] \in Range(group) /\ matrix[p[k]] = l
    <3> SUFFICES ASSUME NEW k \in 1..c
                 PROVE  p[k] \in Range(group) /\ matrix[p[k]] = l
      OBVIOUS
    <3>1. Nth(Marked(l), k) \in Marked(l)
      BY <1>4
    <3> QED BY <1>6, <3>1 DEF Marked, Range
  <2>2. \A h \in Range(group) : matrix[h] = l => \E k \in 1..c : p[k] = h
    <3> SUFFICES ASSUME NEW i \in DOMAIN group, matrix[group[i]] = l
                 PROVE  \E k \in 1..c : p[k] = group[i]
      BY DEF Range
    <3>1. i \in Marked(l)
      BY DEF Marked
    <3>2. PICK k \in 1..c : Nth(Marked(l), k) = i
      BY <1>4, <3>1
    <3>3. p[k] = group[Nth(Marked(l), k)]
      BY <1>6
    <3> QED BY <3>2, <3>3
  <2> QED BY <1>7, <2>1, <2>2 DEF Range
<1>11. \E f \in Marked(l) : p[1] = group[f] /\ \A i \in Marked(l) : f <= i
  <2>1. PICK f : f = Nth(Marked(l), 1)
    OBVIOUS
  <2>2. f \in Marked(l) /\ p[1] = group[f]
    BY <1>4, <1>6, <2>1
  <2>3. ASSUME NEW i \in Marked(l) PROVE f <= i
    <3>1. PICK k \in 1..c : Nth(Marked(l), k) = i
      BY <1>4
    <3>2. k = 1 \/ 1 < k
      BY <1>4
    <3>3. f \in Nat /\ i \in Nat
      BY <1>3, <2>2
    <3>4. 1 < k => f < i
      BY <1>4, <2>1, <3>1
    <3> QED BY <2>1, <3>1, <3>2, <3>3, <3>4
  <2> QED BY <2>2, <2>3
<1> QED BY <1>7, <1>8, <1>9, <1>10, <1>11 DEF p

\* A hit bears a label, and a label is borne by a hit.
LEMMA LabelsBorne ==
    \A l : l \in Labels <=> l # 0 /\ Marked(l) # {}
<1> SUFFICES ASSUME NEW l PROVE l \in Labels <=> l # 0 /\ Marked(l) # {}
  OBVIOUS
<1>1. l \in Labels => l # 0 /\ Marked(l) # {}
  BY DEF Labels, Marked, Range
<1>2. l # 0 /\ Marked(l) # {} => l \in Labels
  BY DEF Labels, Marked, Range
<1> QED BY <1>1, <1>2

\* The labels are the first numbers.
LEMMA LabelsAreFirst ==
    ASSUME Shapes, LabelsInTurn, phase = "label"
    PROVE  /\ Cardinality(Labels) \in Nat /\ Labels = 1..Cardinality(Labels)
           /\ \A h \in Range(group) : matrix[h] \in Nat
<1>1. PICK n \in Nat : n = Len(group) /\ DOMAIN group = 1..n
  <2>1. group \in Seq(Hit)
    BY DEF Shapes
  <2> QED BY <2>1
<1>2. \A j \in 1..n : matrix[group[j]] \in 0..j
  BY <1>1 DEF LabelsInTurn
<1>3. \A l \in Labels : l \in 1..n
  <2> SUFFICES ASSUME NEW l \in Labels PROVE l \in 1..n
    OBVIOUS
  <2>1. l # 0 /\ Marked(l) # {}
    BY LabelsBorne
  <2>2. PICK j \in 1..n : matrix[group[j]] = l
    BY <1>1, <2>1 DEF Marked
  <2> QED BY <1>2, <2>1, <2>2
<1>4. Labels \in SUBSET (1..n)
  BY <1>3
<1>5. \A l \in Labels : 1..l \subseteq Labels
  BY DEF LabelsInTurn
<1>6. \A h \in Range(group) : matrix[h] \in Nat
  BY <1>1, <1>2 DEF Range
<1> HIDE DEF Labels
<1> QED BY <1>4, <1>5, <1>6, FirstNumbers

\* The parts make up the group, and the first of each come in order.
LEMMA PartsFacts ==
    ASSUME Shapes, LabelsInTurn, phase = "label", Ordered(group), Unlabelled = {}
    PROVE  /\ Parts \in Seq(Seq(Hit))
           /\ HitsOf(Parts) = Range(group)
           /\ Filled(Parts) /\ Once(Parts) /\ HeadsSorted(Parts)
           /\ \A l \in DOMAIN Parts : Parts[l][1] \in Range(group)
<1> DEFINE n == Cardinality(Labels)
<1>1. /\ n \in Nat /\ Labels = 1..n
      /\ \A h \in Range(group) : matrix[h] \in Nat
  BY LabelsAreFirst
<1>2. DOMAIN Parts = 1..n /\ \A l \in 1..n : Parts[l] = Part(l)
  BY DEF Parts
<1>3. \A l \in 1..n :
        /\ l # 0 /\ Part(l) \in Seq(Hit) /\ Part(l) # <<>> /\ Ordered(Part(l))
        /\ Range(Part(l)) = {h \in Range(group) : matrix[h] = l}
        /\ \E f \in Marked(l) : Part(l)[1] = group[f] /\ \A i \in Marked(l) : f <= i
  <2> SUFFICES ASSUME NEW l \in 1..n
               PROVE  /\ l # 0
                      /\ Part(l) \in Seq(Hit) /\ Part(l) # <<>> /\ Ordered(Part(l))
                      /\ Range(Part(l)) = {h \in Range(group) : matrix[h] = l}
                      /\ \E f \in Marked(l) :
                            Part(l)[1] = group[f] /\ \A i \in Marked(l) : f <= i
    OBVIOUS
  <2> HIDE DEF n
  <2>1. l # 0 /\ Marked(l) # {}
    BY <1>1, LabelsBorne
  <2>2. group \in Seq(Hit)
    BY DEF Shapes
  <2> QED BY <2>1, <2>2, PartFacts
<1>4. Parts = [l \in 1..n |-> Part(l)]
  BY DEF Parts
<1> HIDE DEF n
<1>5. Parts \in Seq(Seq(Hit))
  <2>1. Parts \in [1..n -> Seq(Hit)]
    BY <1>3, <1>4
  <2> QED BY <1>1, <2>1
<1>6. Filled(Parts)
  BY <1>2, <1>3 DEF Filled
<1>7. HitsOf(Parts) = Range(group)
  <2>1. \A l \in 1..n : Range(Part(l)) \subseteq Range(group)
    BY <1>3
  <2>2. ASSUME NEW h \in Range(group)
        PROVE  matrix[h] \in 1..n /\ h \in Range(Part(matrix[h]))
    <3>1. PICK i \in DOMAIN group : group[i] = h
      BY DEF Range
    <3>2. matrix[h] # 0
      BY <3>1 DEF Unlabelled
    <3>3. matrix[h] \in Labels
      BY <3>2 DEF Labels
    <3> QED BY <1>1, <1>3, <3>3
  <2> QED BY <1>2, <2>1, <2>2 DEF HitsOf
<1>8. Once(Parts)
  <2> SUFFICES ASSUME NEW l \in 1..n, NEW m \in 1..n,
                      NEW i \in DOMAIN Part(l), NEW j \in DOMAIN Part(m),
                      Part(l)[i] = Part(m)[j]
               PROVE  l = m /\ i = j
    BY <1>2 DEF Once
  <2>1. Part(l)[i] \in Range(Part(l)) /\ Part(m)[j] \in Range(Part(m))
    BY DEF Range
  <2>2. matrix[Part(l)[i]] = l /\ matrix[Part(m)[j]] = m
    BY <1>3, <2>1
  <2>3. l = m
    BY <2>2
  <2>4. /\ i \in Int /\ j \in Int
        /\ Part(l)[i].id \in Nat /\ Part(l)[j].id \in Nat
    BY <1>3, <2>3, HitType
  <2>5. i < j \/ j < i \/ i = j
    BY <2>4
  <2>6. Ordered(Part(l))
    BY <1>3
  <2> QED BY <2>3, <2>4, <2>5, <2>6 DEF Ordered
<1>9. \A l \in 1..n : Part(l)[1] \in Range(group)
  BY <1>3 DEF Marked, Range
<1>10. HeadsSorted(Parts)
  <2> SUFFICES ASSUME NEW l \in 1..n, NEW m \in 1..n, l <= m
               PROVE  Part(l)[1].toa <= Part(m)[1].toa
    BY <1>2 DEF HeadsSorted
  <2>1. PICK f \in Marked(l) : Part(l)[1] = group[f] /\ \A i \in Marked(l) : f <= i
    BY <1>3
  <2>2. PICK g \in Marked(m) : Part(m)[1] = group[g] /\ \A i \in Marked(m) : g <= i
    BY <1>3
  <2>3. /\ f \in DOMAIN group /\ matrix[group[f]] = l
        /\ g \in DOMAIN group /\ matrix[group[g]] = m
    BY DEF Marked
  <2>4. f \in Nat /\ g \in Nat /\ l \in Nat /\ m \in Nat
        /\ group[f].toa \in Nat /\ group[g].toa \in Nat
    <3>1. group \in Seq(Hit)
      BY DEF Shapes
    <3>2. f \in Nat /\ g \in Nat /\ group[f] \in Hit /\ group[g] \in Hit
      BY <2>3, <3>1
    <3> QED BY <1>1, <3>2, HitType
  <2>5. CASE l = m
    BY <1>3, <2>1, <2>2, <2>4, <2>5
  <2>6. CASE l < m
    <3>1. l \in Labels
      BY <1>1
    <3>2. \E i \in DOMAIN group : i < g /\ matrix[group[i]] = l
      BY <2>3, <2>6, <3>1 DEF LabelsInTurn
    <3>3. PICK i \in DOMAIN group : i < g /\ matrix[group[i]] = l
      BY <3>2
    <3>4. i \in Marked(l) /\ i \in Nat
      BY <3>3 DEF Marked, Shapes
    <3>5. f < g
      BY <2>1, <2>4, <3>3, <3>4
    <3> QED BY <2>1, <2>2, <2>3, <3>5 DEF Ordered
  <2> QED BY <2>4, <2>5, <2>6
<1> QED BY <1>2, <1>5, <1>6, <1>7, <1>8, <1>9, <1>10

-----------------------------------------------------------------------------
(* The steps. *)

LEMMA NextCases ==
    ASSUME Shapes, [Next]_vars
    PROVE  \/ \E h \in Hit : JoinGroup(h)
           \/ \E h \in Hit : StartGroup(h)
           \/ WriteCompact \/ StoreToMatrix \/ StartLabel \/ Split
           \/ \E h \in frontier : Tag(h)
           \/ /\ UNCHANGED <<node, arrived, lastToa, open, group, matrix, frontier, output>>
              /\ phase' = phase \/ (phase = "read" /\ phase' = "closed")
<1>1. ASSUME NEW p \in HitPixels, NEW t \in 0..MaxToa, NEW h,
             h = [id |-> Len(arrived) + 1, x |-> p[1], y |-> p[2], toa |-> t], Arrives(h)
      PROVE  h \in Hit
  <2>1. Len(arrived) \in Nat /\ Len(arrived) < MaxHits
    BY <1>1 DEF Arrives, Shapes
  <2>2. Len(arrived) + 1 \in 1..MaxHits
    BY <2>1, HitType
  <2> QED BY <1>1, <2>2 DEF Hit
<1>2. CASE \E p \in HitPixels, t \in 0..MaxToa :
             LET h == [id |-> Len(arrived) + 1, x |-> p[1], y |-> p[2], toa |-> t]
             IN  JoinGroup(h) \/ StartGroup(h)
  <2>1. PICK p \in HitPixels, t \in 0..MaxToa :
           LET h == [id |-> Len(arrived) + 1, x |-> p[1], y |-> p[2], toa |-> t]
           IN  JoinGroup(h) \/ StartGroup(h)
    BY <1>2
  <2>2. PICK h : h = [id |-> Len(arrived) + 1, x |-> p[1], y |-> p[2], toa |-> t]
    OBVIOUS
  <2>3. JoinGroup(h) \/ StartGroup(h)
    BY <2>1, <2>2
  <2>4. Arrives(h)
    BY <2>3 DEF JoinGroup, StartGroup
  <2>5. h \in Hit
    BY <1>1, <2>2, <2>4
  <2> QED BY <2>3, <2>5
<1>3. CASE Close
  BY <1>3 DEF Close
<1>4. CASE Finished
  BY <1>4 DEF Finished, vars
<1>5. CASE UNCHANGED vars
  BY <1>5 DEF vars
<1> QED BY <1>2, <1>3, <1>4, <1>5 DEF Next

\* The hit that arrives is newer than all before.
LEMMA ArrivesFacts ==
    ASSUME Shapes, EachInOnePlace, InTurn, NEW h \in Hit, Arrives(h)
    PROVE  /\ phase = "read" /\ group = <<>> /\ Range(group) = {}
           /\ h.toa \in Nat /\ lastToa \in Nat /\ lastToa <= h.toa
           /\ h \notin Range(arrived)
           /\ \A g \in Range(arrived) : g.id < h.id
           /\ \A g \in Range(open) : g \in Hit /\ g.toa \in Nat /\ g.id < h.id /\ g.toa <= h.toa
<1>1. phase = "read" /\ group = <<>> /\ Range(group) = {}
  BY DEF Arrives, Shapes, Range
<1>2. PICK n \in Nat : n = Len(arrived) /\ DOMAIN arrived = 1..n /\ h.id = n + 1
  <2>1. arrived \in Seq(Hit) /\ h.id = Len(arrived) + 1
    BY DEF Arrives, Shapes
  <2> QED BY <2>1
<1>3. h.toa \in Nat /\ \A i \in 1..n : arrived[i] \in Hit /\ arrived[i].toa \in Nat
  BY <1>2, HitType DEF Shapes
<1>4. lastToa \in Nat /\ lastToa <= h.toa
  <2>1. CASE arrived = <<>>
    BY <1>3, <2>1 DEF Shapes
  <2>2. CASE arrived # <<>>
    <3>1. n \in 1..n
      BY <1>2, <2>2 DEF Shapes
    <3>2. Last(arrived) = arrived[n]
      BY <1>2 DEF Last
    <3> QED BY <1>2, <1>3, <2>2, <3>1, <3>2 DEF Shapes, Arrives
  <2> QED BY <2>1, <2>2
<1>5. \A g \in Range(arrived) : g.id < h.id
  <2> SUFFICES ASSUME NEW i \in 1..n PROVE arrived[i].id < h.id
    BY <1>2 DEF Range
  <2> QED BY <1>2 DEF Shapes
<1>6. h \notin Range(arrived)
  <2>1. ~(h.id < h.id)
    BY <1>2
  <2> QED BY <1>5, <2>1
<1>7. ASSUME NEW g \in Range(open)
      PROVE  g \in Hit /\ g.toa \in Nat /\ g.id < h.id /\ g.toa <= h.toa
  <2>1. g \in Hit
    BY DEF Range, Shapes
  <2>2. g.id < h.id
    BY <1>5 DEF EachInOnePlace
  <2>3. g.toa \in Nat /\ g.toa <= lastToa
    BY <2>1, HitType DEF InTurn
  <2> QED BY <1>3, <1>4, <2>1, <2>2, <2>3
<1> QED BY <1>1, <1>3, <1>4, <1>5, <1>6, <1>7

\* Of arrived, after one more.
LEMMA ArrivedMore ==
    ASSUME Shapes, NEW h \in Hit, Arrives(h), arrived' = Append(arrived, h), lastToa' = h.toa
    PROVE  /\ arrived' \in Seq(Hit) /\ arrived' # <<>>
           /\ Len(arrived) \in Nat /\ Len(arrived') = Len(arrived) + 1
           /\ Len(arrived') <= MaxHits
           /\ \A i \in DOMAIN arrived' : arrived'[i].id = i
           /\ Range(arrived') = Range(arrived) \cup {h}
           /\ lastToa' = IF arrived' = <<>> THEN 0 ELSE arrived'[Len(arrived')].toa
<1>1. PICK r : r = Append(arrived, h)
  OBVIOUS
<1>2. arrived \in Seq(Hit)
  BY DEF Shapes
<1>3. /\ r \in Seq(Hit) /\ r # <<>>
      /\ Len(arrived) \in Nat /\ Len(r) = Len(arrived) + 1
      /\ DOMAIN arrived = 1..Len(arrived) /\ DOMAIN r = 1..(Len(arrived) + 1)
      /\ r[Len(arrived) + 1] = h
      /\ \A i \in DOMAIN arrived : r[i] = arrived[i]
      /\ Range(r) = Range(arrived) \cup {h}
  BY <1>1, <1>2, HitAppended
<1>4. Len(arrived) < MaxHits /\ h.id = Len(arrived) + 1
  BY DEF Arrives
<1>5. Len(r) <= MaxHits
  BY <1>3, <1>4, HitType
<1>6. \A i \in DOMAIN r : r[i].id = i
  <2> SUFFICES ASSUME NEW i \in DOMAIN r PROVE r[i].id = i
    OBVIOUS
  <2>1. i \in DOMAIN arrived \/ i = Len(arrived) + 1
    BY <1>3
  <2> QED BY <1>3, <1>4, <2>1 DEF Shapes
<1>7. arrived' = r
  BY <1>1
<1> QED BY <1>3, <1>5, <1>6, <1>7

\* A group that is written whole is not empty: the box of an empty one is large.
LEMMA EmptyIsLarge == IsLarge(<<>>)
<1>1. Range(<<>>) = {}
  BY DEF Range
<1>2. {h.x : h \in Range(<<>>)} = {} /\ {h.y : h \in Range(<<>>)} = {}
  BY <1>1
<1>3. Width \in Nat /\ AreaLimit \in Nat /\ (Width - 2) * (Width - 2) > AreaLimit
      /\ Width # 0 /\ Width # 1
  <2>1. /\ Width \in Nat /\ Width # 0 /\ AreaLimit \in Nat /\ AreaLimit # 0
        /\ (Width - 2) * (Width - 2) > AreaLimit
    BY SensorAssumption, TwoStepAssumption
  <2>2. Width # 1
    <3>1. SUFFICES ASSUME Width = 1 PROVE FALSE
      OBVIOUS
    <3>2. (Width - 2) * (Width - 2) = 1
      BY <3>1
    <3> QED BY <2>1, <3>2
  <2> QED BY <2>1, <2>2
<1>4. Extent({}) = 2 - Width
  BY <1>3 DEF Extent
<1>5. (2 - Width) * (2 - Width) = (Width - 2) * (Width - 2)
  BY <1>3
<1>6. Area(<<>>) = Extent({}) * Extent({})
  BY <1>2 DEF Area
<1> QED BY <1>3, <1>4, <1>5, <1>6 DEF IsLarge

\* What a compact group that is written looks like.
LEMMA CompactNotEmpty ==
    ASSUME ~IsLarge(group)
    PROVE  group # <<>>
  BY EmptyIsLarge

\* Where a hit begins a group while lastToa is not 0, there is one to write.
LEMMA OpenNotEmpty ==
    ASSUME Shapes, lastToa > 0
    PROVE  open # <<>>
<1>1. CASE arrived = <<>>
  <2>1. lastToa = 0
    BY <1>1 DEF Shapes
  <2> QED BY <2>1
<1> QED BY <1>1 DEF Shapes

LEMMA ShapesInit == Init => Shapes
<1> SUFFICES ASSUME Init PROVE Shapes
  OBVIOUS
<1>1. <<>> \in Seq(Hit) /\ <<>> \in Seq(Seq(Hit)) /\ Len(<<>>) = 0 /\ DOMAIN <<>> = {}
  OBVIOUS
<1>2. DOMAIN [h \in {} |-> 0] = {}
  OBVIOUS
<1>3. 0 <= MaxHits
  BY HitType
<1> QED BY <1>1, <1>2, <1>3 DEF Init, Shapes

LEMMA ShapesStep ==
    ASSUME TwoStepInv, [Next]_vars
    PROVE  Shapes'
<1>1. Shapes /\ InTurn /\ LabelsInTurn /\ EachInOnePlace
  BY DEF TwoStepInv
<1>2. ASSUME NEW h \in Hit, JoinGroup(h) PROVE Shapes'
  <2>1. Arrives(h)
    BY <1>2 DEF JoinGroup
  <2>2. PICK c \in Seq(Hit) : c = Append(open, h) /\ c # <<>> /\ Len(c) = Len(open) + 1
    BY <1>1, HitAppended DEF Shapes
  <2>3. /\ arrived' \in Seq(Hit) /\ arrived' # <<>>
        /\ Len(arrived) \in Nat /\ Len(arrived') = Len(arrived) + 1
        /\ Len(arrived') <= MaxHits
        /\ \A i \in DOMAIN arrived' : arrived'[i].id = i
        /\ lastToa' = IF arrived' = <<>> THEN 0 ELSE arrived'[Len(arrived')].toa
    BY <1>1, <1>2, <2>1, ArrivedMore DEF JoinGroup
  <2>4. open' = c /\ UNCHANGED <<node, phase, group, matrix, frontier, output>>
    BY <1>2, <2>2 DEF JoinGroup
  <2>5. Len(open') <= Len(arrived') /\ Len(group') <= Len(arrived')
    BY <1>1, <2>2, <2>3, <2>4 DEF Shapes
  <2> QED BY <1>1, <2>2, <2>3, <2>4, <2>5 DEF Shapes
<1>3. ASSUME NEW h \in Hit, StartGroup(h) PROVE Shapes'
  <2>1. Arrives(h) /\ phase = "read"
    BY <1>3 DEF StartGroup, Arrives
  <2>2. PICK c \in Seq(Hit) : c = <<h>> /\ c # <<>> /\ Len(c) = 1
    <3>1. <<h>> \in Seq(Hit) /\ <<h>> # <<>> /\ Len(<<h>>) = 1
      OBVIOUS
    <3> QED BY <3>1
  <2>3. /\ arrived' \in Seq(Hit) /\ arrived' # <<>>
        /\ Len(arrived) \in Nat /\ Len(arrived') = Len(arrived) + 1
        /\ Len(arrived') <= MaxHits
        /\ \A i \in DOMAIN arrived' : arrived'[i].id = i
        /\ lastToa' = IF arrived' = <<>> THEN 0 ELSE arrived'[Len(arrived')].toa
    BY <1>1, <1>3, <2>1, ArrivedMore DEF StartGroup
  <2>4. open' = c /\ UNCHANGED <<node, matrix, frontier>>
    BY <1>3, <2>2 DEF StartGroup
  <2>5. CASE node = "temporal"
    <3>1. output' \in Seq(Seq(Hit)) /\ UNCHANGED <<phase, group>>
      <4>1. output \in Seq(Seq(Hit)) /\ Append(output, open) \in Seq(Seq(Hit))
        BY <1>1 DEF Shapes
      <4>2. output' = Append(output, open) \/ output' = output
        BY <1>3, <2>5 DEF StartGroup
      <4> QED BY <1>3, <2>5, <4>1, <4>2 DEF StartGroup
    <3>2. Len(open') <= Len(arrived') /\ Len(group') <= Len(arrived')
      BY <1>1, <2>2, <2>3, <2>4, <3>1 DEF Shapes
    <3> QED BY <1>1, <2>2, <2>3, <2>4, <3>1, <3>2 DEF Shapes
  <2>6. CASE node = "splitter"
    <3>1. output' = output /\ phase' = "process" /\ group' = open
      BY <1>3, <2>6 DEF StartGroup
    <3>2. Len(open') <= Len(arrived') /\ Len(group') <= Len(arrived')
      BY <1>1, <2>2, <2>3, <2>4, <3>1 DEF Shapes
    <3> QED BY <1>1, <2>1, <2>2, <2>3, <2>4, <2>6, <3>1, <3>2 DEF Shapes
  <2> QED BY <1>1, <2>5, <2>6 DEF Shapes
<1>4. CASE WriteCompact
  <2>1. <<>> \in Seq(Hit) /\ Len(<<>>) = 0 /\ Len(arrived) \in Nat
    BY <1>1 DEF Shapes
  <2>2. Append(output, group) \in Seq(Seq(Hit))
    BY <1>1 DEF Shapes
  <2> QED BY <1>1, <1>4, <2>1, <2>2 DEF WriteCompact, Shapes
<1>5. CASE StoreToMatrix
  BY <1>1, <1>5 DEF StoreToMatrix, Shapes
<1>6. CASE StartLabel
  BY <1>1, <1>6 DEF StartLabel, Shapes
<1>7. CASE Split
  <2>1. phase = "label" /\ Unlabelled = {} /\ frontier = {}
    BY <1>7 DEF Split
  <2>2. Parts \in Seq(Seq(Hit))
    BY <1>1, <2>1, PartsFacts DEF InTurn
  <2>3. output \o Parts \in Seq(Seq(Hit))
    BY <1>1, <2>2, Concatenation DEF Shapes
  <2>4. DOMAIN matrix' = {}
    <3>1. DOMAIN matrix = Range(group)
      BY <1>1, <2>1 DEF LabelsInTurn
    <3> QED BY <1>7, <3>1 DEF Split
  <2>5. <<>> \in Seq(Hit) /\ Len(<<>>) = 0 /\ Len(arrived) \in Nat
    BY <1>1 DEF Shapes
  <2> QED BY <1>1, <1>7, <2>1, <2>3, <2>4, <2>5 DEF Split, Shapes
<1>8. ASSUME NEW h \in frontier, Tag(h) PROVE Shapes'
  BY <1>1, <1>8 DEF Tag, Shapes
<1>9. CASE /\ UNCHANGED <<node, arrived, lastToa, open, group, matrix, frontier, output>>
           /\ phase' = phase \/ (phase = "read" /\ phase' = "closed")
  BY <1>1, <1>9 DEF Shapes
<1> QED BY <1>1, <1>2, <1>3, <1>4, <1>5, <1>6, <1>7, <1>8, <1>9, NextCases

LEMMA InTurnInit == Init => InTurn
<1> SUFFICES ASSUME Init PROVE InTurn
  OBVIOUS
<1>1. DOMAIN <<>> = {} /\ Range(<<>>) = {}
  BY DEF Range
<1> QED BY <1>1 DEF Init, InTurn, Filled, HeadsSorted, Ordered

\* One more cluster written that was behind those written: a group, or what is
\* open.
LEMMA InTurnWritten ==
    ASSUME Shapes, InTurn, NEW c \in Seq(Hit), c # <<>>, Ordered(c),
           NEW o, o = Append(output, c),
           \A i \in DOMAIN output : output[i][1].toa <= c[1].toa
    PROVE  /\ o \in Seq(Seq(Hit)) /\ Filled(o) /\ HeadsSorted(o)
           /\ HitsOf(o) = HitsOf(output) \cup Range(c)
           /\ Once(output) /\ HitsOf(output) \cap Range(c) = {} => Once(o)
           /\ \A i \in DOMAIN o : \/ i \in DOMAIN output /\ o[i] = output[i]
                                  \/ o[i] = c
<1>1. PICK p : p = <<c>>
  OBVIOUS
<1>2. /\ p \in Seq(Seq(Hit)) /\ DOMAIN p = {1} /\ p[1] = c
      /\ HitsOf(p) = Range(c) /\ Filled(p) /\ Once(p) /\ HeadsSorted(p)
  BY <1>1, OneCluster
<1>3. output \in Seq(Seq(Hit)) /\ Filled(output) /\ HeadsSorted(output)
  BY DEF Shapes, InTurn
<1>4. o = output \o p
  BY <1>1, <1>3, ClusterAppended
<1>5. \A i \in DOMAIN output, k \in DOMAIN p : output[i][1].toa <= p[k][1].toa
  BY <1>2
<1>6. /\ o \in Seq(Seq(Hit)) /\ Filled(o) /\ HeadsSorted(o)
      /\ HitsOf(o) = HitsOf(output) \cup HitsOf(p)
      /\ Once(output) /\ HitsOf(output) \cap HitsOf(p) = {} => Once(o)
      /\ \A i \in DOMAIN o : \/ i \in DOMAIN output /\ o[i] = output[i]
                             \/ \E k \in DOMAIN p : o[i] = p[k]
  <2>1. PICK r : r = output \o p
    OBVIOUS
  <2>2. /\ r \in Seq(Seq(Hit)) /\ HitsOf(r) = HitsOf(output) \cup HitsOf(p)
        /\ \A i \in DOMAIN r : \/ i \in DOMAIN output /\ r[i] = output[i]
                               \/ \E k \in DOMAIN p : r[i] = p[k]
    BY <1>2, <1>3, <2>1, ClustersAppended
  <2>3. Filled(r)
    BY <1>2, <1>3, <2>1, ClustersAppended
  <2>4. HeadsSorted(r)
    BY <1>2, <1>3, <1>5, <2>1, ClustersAppended
  <2>5. Once(output) /\ HitsOf(output) \cap HitsOf(p) = {} => Once(r)
    BY <1>2, <1>3, <2>1, ClustersAppended
  <2> QED BY <1>4, <2>1, <2>2, <2>3, <2>4, <2>5
<1> QED BY <1>2, <1>6

LEMMA InTurnStep ==
    ASSUME TwoStepInv, [Next]_vars
    PROVE  InTurn'
<1>1. Shapes /\ InTurn /\ LabelsInTurn /\ EachInOnePlace
  BY DEF TwoStepInv
<1>2. /\ output \in Seq(Seq(Hit)) /\ open \in Seq(Hit) /\ group \in Seq(Hit)
      /\ Filled(output) /\ HeadsSorted(output) /\ Ordered(group) /\ Ordered(open)
  BY <1>1 DEF Shapes, InTurn
<1>3. ASSUME NEW i \in DOMAIN output PROVE output[i][1].toa \in Nat
  <2>1. output[i] \in Seq(Hit) /\ output[i] # <<>> /\ Ordered(output[i])
    BY <1>2 DEF Filled
  <2> QED BY <2>1, FirstIsHead
<1>4. ASSUME NEW h \in Hit, JoinGroup(h) PROVE InTurn'
  <2>1. Arrives(h)
    BY <1>4 DEF JoinGroup
  <2>2. /\ group = <<>> /\ Range(group) = {}
        /\ h.toa \in Nat /\ lastToa \in Nat /\ lastToa <= h.toa
        /\ \A g \in Range(open) : g.toa \in Nat /\ g.id < h.id /\ g.toa <= h.toa
    BY <1>1, <2>1, ArrivesFacts
  <2>3. /\ open' = Append(open, h) /\ lastToa' = h.toa
        /\ UNCHANGED <<node, phase, group, matrix, frontier, output>>
    BY <1>4 DEF JoinGroup
  <2>4. Ordered(open') /\ Range(open') = Range(open) \cup {h}
    BY <1>2, <2>2, <2>3, HitAppended, OrderedAppended
  <2>5. Filled(output') /\ HeadsSorted(output') /\ Ordered(group') /\ Range(group') = {}
    BY <1>2, <2>2, <2>3
  <2>6. ASSUME NEW i \in DOMAIN output
        PROVE  output[i][1].toa <= h.toa /\ \A g \in Range(open) : output[i][1].toa <= g.toa
    BY <1>1, <1>3, <2>2 DEF InTurn
  <2>7. \A g \in Range(open) : g.toa <= h.toa
    BY <2>2
  <2> QED BY <2>2, <2>3, <2>4, <2>5, <2>6, <2>7 DEF InTurn
<1>5. ASSUME NEW h \in Hit, StartGroup(h) PROVE InTurn'
  <2>1. Arrives(h)
    BY <1>5 DEF StartGroup
  <2>2. /\ group = <<>> /\ Range(group) = {}
        /\ h.toa \in Nat /\ lastToa \in Nat /\ lastToa <= h.toa
        /\ \A g \in Range(open) : g.toa \in Nat /\ g.id < h.id /\ g.toa <= h.toa
    BY <1>1, <2>1, ArrivesFacts
  <2>3. /\ open' = <<h>> /\ lastToa' = h.toa
        /\ UNCHANGED <<node, matrix, frontier>>
    BY <1>5 DEF StartGroup
  <2>4. Ordered(open') /\ Range(open') = {h}
    BY <2>3 DEF Ordered, Range
  <2>5. ASSUME NEW i \in DOMAIN output
        PROVE  output[i][1].toa <= h.toa /\ \A g \in Range(open) : output[i][1].toa <= g.toa
    BY <1>1, <1>3, <2>2 DEF InTurn
  <2>6. CASE node = "temporal" /\ lastToa > 0
    <3>1. output' = Append(output, open) /\ group' = group
      BY <1>5, <2>6 DEF StartGroup
    <3>2. open # <<>>
      BY <1>1, <2>6, OpenNotEmpty
    <3>3. open[1] \in Range(open)
      BY <1>2, <3>2, FirstIsHead
    <3>4. \A i \in DOMAIN output : output[i][1].toa <= open[1].toa
      BY <2>5, <3>3
    <3>5. PICK o : o = Append(output, open)
      OBVIOUS
    <3>6. /\ Filled(o) /\ HeadsSorted(o)
          /\ \A i \in DOMAIN o : \/ i \in DOMAIN output /\ o[i] = output[i]
                                 \/ o[i] = open
      BY <1>1, <1>2, <3>2, <3>4, <3>5, InTurnWritten
    <3>7. output' = o
      BY <3>1, <3>5
    <3>8. \A i \in DOMAIN o : o[i][1].toa <= h.toa
      BY <2>2, <2>5, <3>3, <3>6
    <3>9. Ordered(group') /\ Range(group') = {} /\ h.toa <= h.toa
      BY <1>2, <2>2, <3>1
    <3> QED BY <2>3, <2>4, <3>6, <3>7, <3>8, <3>9 DEF InTurn
  <2>7. CASE node = "temporal" /\ ~(lastToa > 0)
    <3>1. output' = output /\ group' = group
      BY <1>5, <2>7 DEF StartGroup
    <3>2. Ordered(group') /\ Range(group') = {} /\ h.toa <= h.toa
      BY <1>2, <2>2, <3>1
    <3> QED BY <1>2, <2>3, <2>4, <2>5, <3>1, <3>2 DEF InTurn
  <2>8. CASE node = "splitter"
    <3>1. output' = output /\ group' = open
      BY <1>5, <2>8 DEF StartGroup
    <3>2. Ordered(group') /\ Range(group') = Range(open) /\ h.toa <= h.toa
      BY <1>2, <2>2, <3>1
    <3> QED BY <1>2, <2>2, <2>3, <2>4, <2>5, <3>1, <3>2 DEF InTurn
  <2> QED BY <1>1, <2>6, <2>7, <2>8 DEF Shapes
<1>6. CASE WriteCompact
  <2>1. /\ output' = Append(output, group) /\ group' = <<>>
        /\ UNCHANGED <<node, arrived, lastToa, open, matrix, frontier>>
    BY <1>6 DEF WriteCompact
  <2>2. group # <<>>
    BY <1>6, CompactNotEmpty DEF WriteCompact
  <2>3. group[1] \in Range(group)
    BY <1>2, <2>2, FirstIsHead
  <2>4. \A i \in DOMAIN output : output[i][1].toa <= group[1].toa
    BY <1>1, <2>3 DEF InTurn
  <2>5. PICK o : o = Append(output, group)
    OBVIOUS
  <2>6. /\ Filled(o) /\ HeadsSorted(o)
        /\ \A i \in DOMAIN o : \/ i \in DOMAIN output /\ o[i] = output[i]
                               \/ o[i] = group
    BY <1>1, <1>2, <2>2, <2>4, <2>5, InTurnWritten
  <2>7. output' = o
    BY <2>1, <2>5
  <2>8. Range(group') = {} /\ Ordered(group')
    BY <2>1 DEF Range, Ordered
  <2>9. \A i \in DOMAIN o :
           o[i][1].toa <= lastToa /\ \A h \in Range(open) : o[i][1].toa <= h.toa
    BY <1>1, <2>3, <2>6 DEF InTurn
  <2> QED BY <1>1, <1>2, <2>1, <2>6, <2>7, <2>8, <2>9 DEF InTurn
<1>7. CASE Split
  <2>1. phase = "label" /\ Unlabelled = {} /\ output' = output \o Parts /\ group' = <<>>
        /\ UNCHANGED <<node, arrived, lastToa, open, frontier>>
    BY <1>7 DEF Split
  <2>2. PICK p : p = Parts
    OBVIOUS
  <2>3. /\ p \in Seq(Seq(Hit)) /\ Filled(p) /\ HeadsSorted(p)
        /\ \A l \in DOMAIN p : p[l][1] \in Range(group)
    BY <1>1, <1>2, <2>1, <2>2, PartsFacts
  <2>4. PICK o : o = output \o p
    OBVIOUS
  <2>5. \A i \in DOMAIN output, k \in DOMAIN p : output[i][1].toa <= p[k][1].toa
    BY <1>1, <2>3 DEF InTurn
  <2>6. /\ Filled(o) /\ HeadsSorted(o)
        /\ \A i \in DOMAIN o : \/ i \in DOMAIN output /\ o[i] = output[i]
                               \/ \E k \in DOMAIN p : o[i] = p[k]
    BY <1>2, <2>3, <2>4, <2>5, ClustersAppended
  <2>7. output' = o
    BY <2>1, <2>2, <2>4
  <2>8. Range(group') = {} /\ Ordered(group')
    BY <2>1 DEF Range, Ordered
  <2>9. ASSUME NEW i \in DOMAIN o
        PROVE  o[i][1].toa <= lastToa /\ \A h \in Range(open) : o[i][1].toa <= h.toa
    <3>1. CASE i \in DOMAIN output /\ o[i] = output[i]
      BY <1>1, <3>1 DEF InTurn
    <3>2. CASE \E k \in DOMAIN p : o[i] = p[k]
      <4>1. o[i][1] \in Range(group)
        BY <2>3, <3>2
      <4> QED BY <1>1, <4>1 DEF InTurn
    <3> QED BY <2>6, <3>1, <3>2
  <2> QED BY <1>1, <1>2, <2>1, <2>6, <2>7, <2>8, <2>9 DEF InTurn
<1>8. CASE UNCHANGED <<lastToa, open, group, output>>
  BY <1>1, <1>8 DEF InTurn, Filled, HeadsSorted, Ordered
<1>9. StoreToMatrix \/ StartLabel \/ (\E h \in frontier : Tag(h))
         => UNCHANGED <<lastToa, open, group, output>>
  BY DEF StoreToMatrix, StartLabel, Tag
<1> QED BY <1>1, <1>4, <1>5, <1>6, <1>7, <1>8, <1>9, NextCases

LEMMA LabelsInTurnInit == Init => LabelsInTurn
  BY DEF Init, LabelsInTurn

\* An ordered cluster holds a hit once.
LEMMA OrderedOnce ==
    ASSUME NEW s \in Seq(Hit), Ordered(s)
    PROVE  \A i, j \in DOMAIN s : s[i] = s[j] => i = j
<1> SUFFICES ASSUME NEW i \in DOMAIN s, NEW j \in DOMAIN s, s[i] = s[j]
             PROVE  i = j
  OBVIOUS
<1>1. i \in Int /\ j \in Int /\ s[i].id \in Nat /\ s[j].id \in Nat
  BY HitType
<1>2. i < j \/ j < i \/ i = j
  BY <1>1
<1> QED BY <1>1, <1>2 DEF Ordered

\* The labels of the hits of the group, by their places.
LEMMA LabelsOfPlaces ==
    Labels = {matrix[group[j]] : j \in DOMAIN group} \ {0}
  BY DEF Labels, Range

\* The next label goes to the first hit without one.
LEMMA StartLabelKeeps ==
    ASSUME Shapes, LabelsInTurn, Ordered(group), StartLabel
    PROVE  LabelsInTurn'
<1> DEFINE n == Cardinality(Labels)
<1>1. /\ phase = "label" /\ phase' = "label" /\ group' = group
      /\ Unlabelled # {}
    BY DEF StartLabel
<1>2. PICK m \in Nat : m = Len(group) /\ DOMAIN group = 1..m
  <2>1. group \in Seq(Hit)
    BY DEF Shapes
  <2> QED BY <2>1
<1>3. PICK i \in Unlabelled :
         /\ \A k \in Unlabelled : i <= k
         /\ matrix' = [matrix EXCEPT ![group[i]] = n + 1]
         /\ frontier' = {group[i]}
  <2>1. Unlabelled \in SUBSET (1..m)
    BY <1>2 DEF Unlabelled
  <2>2. \E i \in Unlabelled : \A k \in Unlabelled : i <= k
    <3>1. PICK S : S = Unlabelled
      OBVIOUS
    <3>2. S \in SUBSET (1..m) /\ S # {}
      BY <1>1, <2>1, <3>1
    <3>3. PICK i : i = Nth(S, 1)
      OBVIOUS
    <3>4. i \in S
      BY <3>2, <3>3, NthElement
    <3>5. ASSUME NEW k \in S PROVE i <= k
      <4>1. 1 \in 1..Cardinality(S) /\ Cardinality(S) \in Nat
        BY <3>2, NthElement
      <4>2. PICK c \in 1..Cardinality(S) : Nth(S, c) = k
        BY <3>2, NthElement
      <4>3. 1 < c => i < k
        BY <3>2, <3>3, <4>1, <4>2, NthElement
      <4>4. i \in 1..m /\ k \in 1..m /\ (c = 1 \/ 1 < c)
        BY <3>2, <3>4, <4>1
      <4> QED BY <3>3, <4>2, <4>3, <4>4
    <3> QED BY <3>1, <3>4, <3>5
  <2> QED BY <2>2 DEF StartLabel
<1>4. n \in Nat /\ Labels = 1..n
  BY <1>1, LabelsAreFirst
<1> HIDE DEF n
<1>5. i \in 1..m /\ matrix[group[i]] = 0
  BY <1>2 DEF Unlabelled
<1>6. /\ \A j \in 1..m : group[j] \in DOMAIN matrix
      /\ DOMAIN matrix = Range(group)
  BY <1>1, <1>2 DEF LabelsInTurn, Range
<1>7. \A j \in 1..m : matrix'[group'[j]] = IF j = i THEN n + 1 ELSE matrix[group[j]]
  <2>1. \A j \in 1..m : group[j] = group[i] => j = i
    BY <1>2, <1>5, OrderedOnce DEF Shapes
  <2> QED BY <1>1, <1>3, <1>6, <2>1
<1>8. \A j \in 1..m : matrix[group[j]] \in 0..j
  BY <1>1, <1>2 DEF LabelsInTurn
<1>9. \A j \in 1..m, l \in 1..n : matrix[group[j]] = 0 \/ l < matrix[group[j]] =>
         \E k \in 1..m : k < j /\ k # i /\ matrix[group[k]] = l
  <2> SUFFICES ASSUME NEW j \in 1..m, NEW l \in 1..n,
                      matrix[group[j]] = 0 \/ l < matrix[group[j]]
               PROVE  \E k \in 1..m : k < j /\ k # i /\ matrix[group[k]] = l
    OBVIOUS
  <2>1. l \in Labels /\ l # 0
    BY <1>4
  <2>2. \E k \in DOMAIN group : k < j /\ matrix[group[k]] = l
    BY <1>1, <1>2, <2>1 DEF LabelsInTurn
  <2> QED BY <1>2, <1>5, <2>1, <2>2
<1>10. n + 1 <= i
  <2>1. CASE n = 0
    BY <1>2, <1>5, <2>1
  <2>2. CASE n # 0
    <3>1. n \in 1..n
      BY <1>4, <2>2
    <3>2. PICK k \in 1..m : k < i /\ matrix[group[k]] = n
      BY <1>5, <1>9, <3>1
    <3>3. n <= k
      BY <1>8, <3>2
    <3> QED BY <1>2, <1>4, <1>5, <3>2, <3>3
  <2> QED BY <2>1, <2>2
<1>11. Labels' = 1..(n + 1)
  <2>1. \A l : l \in Labels <=> l # 0 /\ \E j \in 1..m : matrix[group[j]] = l
    BY <1>2, LabelsOfPlaces
  <2>2. \A l : l \in Labels' <=> l # 0 /\ \E j \in 1..m : matrix'[group'[j]] = l
    <3>1. Labels' = {matrix'[group'[j]] : j \in DOMAIN group'} \ {0}
      BY DEF Labels, Range
    <3> QED BY <1>1, <1>2, <3>1
  <2>3. ASSUME NEW l PROVE l \in Labels' <=> l \in 1..n \/ l = n + 1
    <3>1. l \in 1..n => l # 0 /\ \E j \in 1..m : j # i /\ matrix[group[j]] = l
      BY <1>4, <1>5, <2>1
    <3>2. l = n + 1 => l # 0 /\ matrix'[group'[i]] = l
      BY <1>4, <1>5, <1>7
    <3>3. l \in Labels' => l \in 1..n \/ l = n + 1
      BY <1>4, <1>7, <2>1, <2>2
    <3> QED BY <1>5, <1>7, <2>2, <3>1, <3>2, <3>3
  <2>4. \A l : l \in 1..n \/ l = n + 1 <=> l \in 1..(n + 1)
    BY <1>4
  <2> QED BY <2>3, <2>4
<1>12. \A j \in DOMAIN group' : matrix'[group'[j]] \in 0..j
  BY <1>1, <1>2, <1>4, <1>5, <1>7, <1>8, <1>10
<1>13. \A l \in Labels' : 1..l \subseteq Labels'
  BY <1>4, <1>11
<1>14. \A j \in DOMAIN group', l \in Labels' :
          matrix'[group'[j]] = 0 \/ l < matrix'[group'[j]] =>
             \E k \in DOMAIN group' : k < j /\ matrix'[group'[k]] = l
  <2> SUFFICES ASSUME NEW j \in 1..m, NEW l \in 1..(n + 1),
                      matrix'[group'[j]] = 0 \/ l < matrix'[group'[j]]
               PROVE  \E k \in 1..m : k < j /\ matrix'[group'[k]] = l
    BY <1>1, <1>2, <1>11
  <2>1. CASE l \in 1..n
    <3>1. matrix[group[j]] = 0 \/ l < matrix[group[j]]
      BY <1>4, <1>5, <1>7
    <3>2. PICK k \in 1..m : k < j /\ k # i /\ matrix[group[k]] = l
      BY <1>9, <2>1, <3>1
    <3> QED BY <1>7, <3>2
  <2>2. CASE l = n + 1
    <3>1. j # i
      BY <1>4, <1>7, <2>2
    <3>2. matrix[group[j]] = 0
      <4>1. matrix[group[j]] # 0 => matrix[group[j]] \in 1..n
        BY <1>2, <1>4, LabelsOfPlaces
      <4> QED BY <1>4, <1>7, <2>2, <3>1, <4>1
    <3>3. i < j
      <4>1. j \in Unlabelled
        BY <1>2, <3>2 DEF Unlabelled
      <4> QED BY <1>2, <1>3, <1>5, <3>1, <4>1
    <3> QED BY <1>5, <1>7, <2>2, <3>3
  <2>3. l \in 1..n \/ l = n + 1
    BY <1>4
  <2> QED BY <2>1, <2>2, <2>3
<1>15. DOMAIN matrix' = Range(group') /\ group[i] \in Range(group') /\ matrix'[group[i]] # 0
  <2>1. group[i] \in Range(group)
    BY <1>2, <1>5 DEF Range
  <2>2. n + 1 # 0
    BY <1>4
  <2> QED BY <1>1, <1>3, <1>6, <2>1, <2>2
<1> HIDE DEF Labels
<1> QED BY <1>1, <1>3, <1>12, <1>13, <1>14, <1>15 DEF LabelsInTurn

\* A hit that is reached gets a label that was given before it was.
LEMMA TagKeeps ==
    ASSUME Shapes, LabelsInTurn, NEW h \in frontier, Tag(h)
    PROVE  LabelsInTurn'
<1>1. phase = "label" /\ phase' = "label" /\ group' = group
  BY DEF Tag
<1>2. PICK m \in Nat : m = Len(group) /\ DOMAIN group = 1..m
  <2>1. group \in Seq(Hit)
    BY DEF Shapes
  <2> QED BY <2>1
<1>3. DOMAIN matrix = Range(group) /\ h \in Range(group) /\ matrix[h] # 0
  BY <1>1 DEF LabelsInTurn
<1>4. PICK R \in SUBSET Range(group) :
         /\ \A g \in R : matrix[g] = 0
         /\ matrix' = [g \in DOMAIN matrix |-> IF g \in R THEN matrix[h] ELSE matrix[g]]
         /\ frontier' = (frontier \ {h}) \cup R
  <2>1. PICK R : R = {g \in DOMAIN matrix : matrix[g] = 0 /\ NearInMatrix(g, h)}
    OBVIOUS
  <2> QED BY <1>3, <2>1 DEF Tag
<1>5. PICK v : v = matrix[h]
  OBVIOUS
<1>6. PICK c : c \in 1..m /\ group[c] = h
  BY <1>2, <1>3 DEF Range
<1>7. v \in Labels /\ v # 0
  BY <1>3, <1>5 DEF Labels
<1>8. \A j \in 1..m : /\ group[j] \in DOMAIN matrix
                      /\ matrix'[group'[j]] = matrix[group[j]]
                            \/ (matrix[group[j]] = 0 /\ matrix'[group'[j]] = v)
                      /\ matrix[group[j]] # 0 => matrix'[group'[j]] = matrix[group[j]]
  <2> SUFFICES ASSUME NEW j \in 1..m
               PROVE  /\ group[j] \in DOMAIN matrix
                      /\ matrix'[group'[j]] = matrix[group[j]]
                            \/ (matrix[group[j]] = 0 /\ matrix'[group'[j]] = v)
                      /\ matrix[group[j]] # 0 => matrix'[group'[j]] = matrix[group[j]]
    OBVIOUS
  <2>1. group[j] \in DOMAIN matrix
    BY <1>2, <1>3 DEF Range
  <2>2. PICK g : g = group[j]
    OBVIOUS
  <2>3. matrix'[g] = IF g \in R THEN v ELSE matrix[g]
    BY <1>4, <1>5, <2>1, <2>2
  <2>4. g \in R => matrix[g] = 0
    BY <1>4
  <2>5. matrix'[group'[j]] = matrix'[g]
    BY <1>1, <2>2
  <2> QED BY <2>1, <2>2, <2>3, <2>4, <2>5
<1>9. \A j \in 1..m : matrix[group[j]] \in 0..j
  BY <1>1, <1>2 DEF LabelsInTurn
<1>10. \A l : l \in Labels <=> l # 0 /\ \E j \in 1..m : matrix[group[j]] = l
  BY <1>2, LabelsOfPlaces
<1>11. \A j \in 1..m, l \in Labels : matrix[group[j]] = 0 \/ l < matrix[group[j]] =>
         \E k \in 1..m : k < j /\ matrix[group[k]] = l
  BY <1>1, <1>2 DEF LabelsInTurn
<1>12. \A l \in Labels : l \in Nat /\ l # 0 /\ 1..l \subseteq Labels
  <2>1. \A l \in Labels : 1..l \subseteq Labels
    BY <1>1 DEF LabelsInTurn
  <2>2. \A l \in Labels : l \in Nat /\ l # 0
    BY <1>9, <1>10
  <2> QED BY <2>1, <2>2
<1>13. Labels' = Labels
  <2>1. Labels' = {matrix'[group'[j]] : j \in DOMAIN group'} \ {0}
    BY DEF Labels, Range
  <2>2. \A l : l \in Labels' <=> l # 0 /\ \E j \in 1..m : matrix'[group'[j]] = l
    BY <1>1, <1>2, <2>1
  <2>3. ASSUME NEW l \in Labels' PROVE l \in Labels
    BY <1>7, <1>8, <1>10, <2>2
  <2>4. ASSUME NEW l \in Labels PROVE l \in Labels'
    BY <1>8, <1>10, <2>2
  <2> HIDE DEF Labels
  <2> QED BY <2>3, <2>4
<1> HIDE DEF Labels
<1>14. \A j \in DOMAIN group' : matrix'[group'[j]] \in 0..j
  <2> SUFFICES ASSUME NEW j \in 1..m PROVE matrix'[group'[j]] \in 0..j
    BY <1>1, <1>2
  <2>1. CASE matrix'[group'[j]] = matrix[group[j]]
    BY <1>9, <2>1
  <2>2. CASE matrix[group[j]] = 0 /\ matrix'[group'[j]] = v
    <3>1. PICK k \in 1..m : k < j /\ matrix[group[k]] = v
      BY <1>7, <1>11, <2>2
    <3> QED BY <1>2, <1>9, <2>2, <3>1
  <2> QED BY <1>8, <2>1, <2>2
<1>15. \A j \in DOMAIN group', l \in Labels' :
          matrix'[group'[j]] = 0 \/ l < matrix'[group'[j]] =>
             \E k \in DOMAIN group' : k < j /\ matrix'[group'[k]] = l
  <2> SUFFICES ASSUME NEW j \in 1..m, NEW l \in Labels,
                      matrix'[group'[j]] = 0 \/ l < matrix'[group'[j]]
               PROVE  \E k \in 1..m : k < j /\ matrix'[group'[k]] = l
    BY <1>1, <1>2, <1>13
  <2>1. matrix[group[j]] = 0 \/ l < matrix[group[j]]
    BY <1>7, <1>8
  <2>2. PICK k \in 1..m : k < j /\ matrix[group[k]] = l
    BY <1>11, <2>1
  <2> QED BY <1>8, <1>12, <2>2
<1>16. DOMAIN matrix' = Range(group')
  BY <1>1, <1>3, <1>4
<1>17. frontier' \subseteq {g \in Range(group') : matrix'[g] # 0}
  <2> SUFFICES ASSUME NEW g \in frontier'
               PROVE  g \in Range(group') /\ matrix'[g] # 0
    OBVIOUS
  <2>1. CASE g \in R
    BY <1>1, <1>3, <1>4, <2>1
  <2>2. CASE g \in frontier /\ g \notin R
    BY <1>1, <1>3, <1>4, <2>2 DEF LabelsInTurn
  <2> QED BY <1>4, <2>1, <2>2
<1> QED BY <1>12, <1>13, <1>14, <1>15, <1>16, <1>17 DEF LabelsInTurn

LEMMA StoreToMatrixKeeps ==
    ASSUME Shapes, StoreToMatrix
    PROVE  LabelsInTurn'
<1>1. /\ DOMAIN matrix = {} /\ frontier = {} /\ group' = group /\ frontier' = {}
  BY DEF Shapes, StoreToMatrix
<1>2. DOMAIN matrix' = Range(group) /\ \A h \in Range(group) : matrix'[h] = 0
  BY <1>1 DEF StoreToMatrix
<1>3. PICK m \in Nat : m = Len(group) /\ DOMAIN group = 1..m
  <2>1. group \in Seq(Hit)
    BY DEF Shapes
  <2> QED BY <2>1
<1>4. \A j \in DOMAIN group : matrix'[group'[j]] = 0 /\ matrix'[group'[j]] \in 0..j
  BY <1>1, <1>2, <1>3 DEF Range
<1>5. Labels' = {}
  <2>1. Labels' = {matrix'[h] : h \in Range(group')} \ {0}
    BY DEF Labels
  <2> QED BY <1>1, <1>2, <2>1
<1> QED BY <1>1, <1>2, <1>4, <1>5 DEF LabelsInTurn

LEMMA LabelsInTurnStep ==
    ASSUME TwoStepInv, [Next]_vars
    PROVE  LabelsInTurn'
<1>1. Shapes /\ InTurn /\ LabelsInTurn /\ Ordered(group)
  BY DEF TwoStepInv, InTurn
<1>2. ASSUME phase' # "label" PROVE LabelsInTurn'
  BY <1>2 DEF LabelsInTurn
<1>3. ASSUME NEW h \in Hit, JoinGroup(h) \/ StartGroup(h)
      PROVE  phase' # "label"
  <2>1. phase = "read" /\ (node = "temporal" \/ node = "splitter")
    BY <1>1, <1>3 DEF JoinGroup, StartGroup, Arrives, Shapes
  <2> QED BY <1>3, <2>1 DEF JoinGroup, StartGroup
<1>4. WriteCompact \/ Split => phase' # "label"
  BY DEF WriteCompact, Split
<1>5. ASSUME UNCHANGED <<node, arrived, lastToa, open, group, matrix, frontier, output>>,
             phase' = phase \/ (phase = "read" /\ phase' = "closed")
      PROVE  LabelsInTurn'
  <2>1. phase' = "label" => phase = "label"
    BY <1>5
  <2>2. Labels' = Labels
    BY <1>5 DEF Labels
  <2> QED BY <1>1, <1>5, <2>1, <2>2 DEF LabelsInTurn
<1> QED BY <1>1, <1>2, <1>3, <1>4, <1>5, NextCases, StoreToMatrixKeeps, StartLabelKeeps, TagKeeps

LEMMA EachInOnePlaceInit == Init => EachInOnePlace
<1> SUFFICES ASSUME Init PROVE EachInOnePlace
  OBVIOUS
<1>1. DOMAIN <<>> = {} /\ Range(<<>>) = {} /\ HitsOf(<<>>) = {}
  BY DEF Range, HitsOf
<1> QED BY <1>1 DEF Init, EachInOnePlace, Once

LEMMA EachInOnePlaceStep ==
    ASSUME TwoStepInv, [Next]_vars
    PROVE  EachInOnePlace'
<1>1. Shapes /\ InTurn /\ LabelsInTurn /\ EachInOnePlace
  BY DEF TwoStepInv
<1>2. /\ output \in Seq(Seq(Hit)) /\ open \in Seq(Hit) /\ group \in Seq(Hit)
      /\ Filled(output) /\ HeadsSorted(output) /\ Ordered(group) /\ Ordered(open)
      /\ arrived \in Seq(Hit)
  BY <1>1 DEF Shapes, InTurn
<1>3. Range(<<>>) = {}
  BY DEF Range
<1>4. ASSUME NEW h \in Hit, JoinGroup(h) PROVE EachInOnePlace'
  <2>1. Arrives(h)
    BY <1>4 DEF JoinGroup
  <2>2. Range(group) = {} /\ h \notin Range(arrived)
    BY <1>1, <2>1, ArrivesFacts
  <2>3. /\ open' = Append(open, h) /\ arrived' = Append(arrived, h)
        /\ UNCHANGED <<node, group, output>>
    BY <1>4 DEF JoinGroup
  <2>4. Range(open') = Range(open) \cup {h} /\ Range(arrived') = Range(arrived) \cup {h}
    BY <1>2, <2>3, HitAppended
  <2>5. Once(output') /\ HitsOf(output') = HitsOf(output)
    BY <1>1, <2>3 DEF EachInOnePlace
  <2>6. Range(group') = {}
    BY <2>2, <2>3
  <2> QED BY <1>1, <2>2, <2>3, <2>4, <2>5, <2>6 DEF EachInOnePlace
<1>5. ASSUME NEW h \in Hit, StartGroup(h) PROVE EachInOnePlace'
  <2>1. Arrives(h)
    BY <1>5 DEF StartGroup
  <2>2. /\ group = <<>> /\ Range(group) = {} /\ h \notin Range(arrived)
        /\ \A g \in Range(open) : g.toa \in Nat
    BY <1>1, <2>1, ArrivesFacts
  <2>3. /\ open' = <<h>> /\ arrived' = Append(arrived, h) /\ node' = node
    BY <1>5 DEF StartGroup
  <2>4. Range(open') = {h} /\ Range(arrived') = Range(arrived) \cup {h}
    <3>1. Range(<<h>>) = {h}
      BY DEF Range
    <3> QED BY <1>2, <2>3, <3>1, HitAppended
  <2>5. CASE node = "temporal" /\ lastToa > 0
    <3>1. output' = Append(output, open) /\ group' = group
      BY <1>5, <2>5 DEF StartGroup
    <3>2. open # <<>>
      BY <1>1, <2>5, OpenNotEmpty
    <3>3. open[1] \in Range(open)
      BY <1>2, <3>2, FirstIsHead
    <3>4. \A i \in DOMAIN output : output[i][1].toa <= open[1].toa
      BY <1>1, <3>3 DEF InTurn
    <3>5. PICK o : o = Append(output, open)
      OBVIOUS
    <3>6. /\ HitsOf(o) = HitsOf(output) \cup Range(open)
          /\ Once(output) /\ HitsOf(output) \cap Range(open) = {} => Once(o)
      BY <1>1, <1>2, <3>2, <3>4, <3>5, InTurnWritten
    <3>7. Once(o)
      BY <1>1, <3>6 DEF EachInOnePlace
    <3>8. Once(output') /\ HitsOf(output') = HitsOf(output) \cup Range(open)
      BY <3>1, <3>5, <3>6, <3>7
    <3>9. Range(group') = {}
      BY <2>2, <3>1
    <3> QED BY <1>1, <2>2, <2>3, <2>4, <3>8, <3>9 DEF EachInOnePlace
  <2>6. CASE node = "temporal" /\ ~(lastToa > 0)
    <3>1. output' = output /\ group' = group
      BY <1>5, <2>6 DEF StartGroup
    <3>2. \A g \in Range(open) : g.toa = 0
      <4>1. lastToa \in Nat
        BY <1>1, <2>1, ArrivesFacts
      <4> QED BY <1>1, <2>2, <2>6, <4>1 DEF InTurn
    <3>3. Once(output') /\ HitsOf(output') = HitsOf(output)
      BY <1>1, <3>1 DEF EachInOnePlace
    <3>4. Range(group') = {}
      BY <2>2, <3>1
    <3> QED BY <1>1, <2>2, <2>3, <2>4, <2>6, <3>2, <3>3, <3>4 DEF EachInOnePlace
  <2>7. CASE node = "splitter"
    <3>1. output' = output /\ group' = open
      BY <1>5, <2>7 DEF StartGroup
    <3>2. Once(output') /\ HitsOf(output') = HitsOf(output)
      BY <1>1, <3>1 DEF EachInOnePlace
    <3>3. Range(group') = Range(open)
      BY <3>1
    <3> QED BY <1>1, <2>2, <2>3, <2>4, <3>2, <3>3 DEF EachInOnePlace
  <2> QED BY <1>1, <2>5, <2>6, <2>7 DEF Shapes
<1>6. CASE WriteCompact
  <2>1. output' = Append(output, group) /\ group' = <<>> /\ UNCHANGED <<node, arrived, open>>
    BY <1>6 DEF WriteCompact
  <2>2. group # <<>>
    BY <1>6, CompactNotEmpty DEF WriteCompact
  <2>3. group[1] \in Range(group)
    BY <1>2, <2>2, FirstIsHead
  <2>4. \A i \in DOMAIN output : output[i][1].toa <= group[1].toa
    BY <1>1, <2>3 DEF InTurn
  <2>5. PICK o : o = Append(output, group)
    OBVIOUS
  <2>6. /\ HitsOf(o) = HitsOf(output) \cup Range(group)
        /\ Once(output) /\ HitsOf(output) \cap Range(group) = {} => Once(o)
    BY <1>1, <1>2, <2>2, <2>4, <2>5, InTurnWritten
  <2>7. Once(o)
    BY <1>1, <2>6 DEF EachInOnePlace
  <2>8. Once(output') /\ HitsOf(output') = HitsOf(output) \cup Range(group)
    BY <2>1, <2>5, <2>6, <2>7
  <2>9. Range(group') = {} /\ Range(open') = Range(open) /\ Range(arrived') = Range(arrived)
    BY <1>3, <2>1
  <2> QED BY <1>1, <2>1, <2>8, <2>9 DEF EachInOnePlace
<1>7. CASE Split
  <2>1. phase = "label" /\ Unlabelled = {} /\ output' = output \o Parts /\ group' = <<>>
        /\ UNCHANGED <<node, arrived, open>>
    BY <1>7 DEF Split
  <2>2. PICK p : p = Parts
    OBVIOUS
  <2>3. p \in Seq(Seq(Hit)) /\ Once(p) /\ HitsOf(p) = Range(group)
    BY <1>1, <1>2, <2>1, <2>2, PartsFacts
  <2>4. PICK o : o = output \o p
    OBVIOUS
  <2>5. /\ HitsOf(o) = HitsOf(output) \cup HitsOf(p)
        /\ Once(output) /\ Once(p) /\ HitsOf(output) \cap HitsOf(p) = {} => Once(o)
    BY <1>2, <2>3, <2>4, ClustersAppended
  <2>6. Once(o)
    BY <1>1, <2>3, <2>5 DEF EachInOnePlace
  <2>7. Once(output') /\ HitsOf(output') = HitsOf(output) \cup Range(group)
    BY <2>1, <2>2, <2>3, <2>4, <2>5, <2>6
  <2>8. Range(group') = {} /\ Range(open') = Range(open) /\ Range(arrived') = Range(arrived)
    BY <1>3, <2>1
  <2> QED BY <1>1, <2>1, <2>7, <2>8 DEF EachInOnePlace
<1>8. CASE UNCHANGED <<node, arrived, open, group, output>>
  <2>1. /\ Range(group') = Range(group) /\ Range(open') = Range(open)
        /\ Range(arrived') = Range(arrived)
        /\ HitsOf(output') = HitsOf(output)
    BY <1>8
  <2>2. Once(output')
    BY <1>1, <1>8 DEF EachInOnePlace
  <2> QED BY <1>1, <1>8, <2>1, <2>2 DEF EachInOnePlace
<1>9. StoreToMatrix \/ StartLabel \/ (\E h \in frontier : Tag(h))
         => UNCHANGED <<node, arrived, open, group, output>>
  BY DEF StoreToMatrix, StartLabel, Tag
<1> QED BY <1>1, <1>4, <1>5, <1>6, <1>7, <1>8, <1>9, NextCases

\* The hits on a pixel are finitely many, one more with each that is on it.
LEMMA RangeFinite ==
    ASSUME NEW s \in Seq(Hit)
    PROVE  /\ IsFiniteSet(Range(s))
           /\ \A g : /\ IsFiniteSet(SamePixel(s, g))
                     /\ Cardinality(SamePixel(s, g)) \in Nat
<1>1. s \in Surjection(1..Len(s), Range(s))
  <2>1. DOMAIN s = 1..Len(s) /\ s \in [1..Len(s) -> Range(s)]
    BY DEF Range
  <2>2. \A h \in Range(s) : \E i \in 1..Len(s) : s[i] = h
    BY <2>1 DEF Range
  <2> QED BY <2>1, <2>2 DEF Surjection
<1>2. IsFiniteSet(1..Len(s))
  <2>1. Len(s) \in Int /\ 1 \in Int
    OBVIOUS
  <2> QED BY <2>1, FS_Interval
<1>3. IsFiniteSet(Range(s))
  BY <1>1, <1>2, FS_Surjection
<1>4. ASSUME NEW g
      PROVE  IsFiniteSet(SamePixel(s, g)) /\ Cardinality(SamePixel(s, g)) \in Nat
  <2>1. SamePixel(s, g) \in SUBSET Range(s)
    BY DEF SamePixel
  <2>2. IsFiniteSet(SamePixel(s, g))
    BY <1>3, <2>1, FS_Subset
  <2> QED BY <2>2, FS_CardinalityType
<1> QED BY <1>3, <1>4

LEMMA NoneOnPixel ==
    \A g : Cardinality(SamePixel(<<>>, g)) <= MaxSamePixel
<1> SUFFICES ASSUME NEW g PROVE Cardinality(SamePixel(<<>>, g)) <= MaxSamePixel
  OBVIOUS
<1>1. SamePixel(<<>>, g) = {}
  BY DEF SamePixel, Range
<1>2. Cardinality(SamePixel(<<>>, g)) = 0
  BY <1>1, FS_EmptySet
<1> QED BY <1>2, HitType

LEMMA OneOnPixel ==
    ASSUME NEW h \in Hit
    PROVE  \A g : Cardinality(SamePixel(<<h>>, g)) <= MaxSamePixel
<1> SUFFICES ASSUME NEW g PROVE Cardinality(SamePixel(<<h>>, g)) <= MaxSamePixel
  OBVIOUS
<1>1. Range(<<h>>) = {h}
  BY DEF Range
<1>2. SamePixel(<<h>>, g) \in SUBSET {h}
  BY <1>1 DEF SamePixel
<1>3. IsFiniteSet({h}) /\ Cardinality({h}) = 1
  BY FS_Singleton
<1>4. Cardinality(SamePixel(<<h>>, g)) <= 1
  BY <1>2, <1>3, FS_Subset
<1>5. Cardinality(SamePixel(<<h>>, g)) \in Nat
  BY <1>2, <1>3, FS_Subset, FS_CardinalityType
<1> QED BY <1>4, <1>5, HitType

LEMMA RoomForEachInit == Init => RoomForEach
  BY NoneOnPixel DEF Init, RoomForEach

LEMMA RoomForEachStep ==
    ASSUME TwoStepInv, [Next]_vars
    PROVE  RoomForEach'
<1>1. Shapes /\ RoomForEach
  BY DEF TwoStepInv
<1>2. ASSUME NEW h \in Hit, JoinGroup(h) PROVE RoomForEach'
  <2>1. open' = Append(open, h) /\ UNCHANGED <<node, group>> /\ Arrives(h) /\ ~StartsGroup(h)
    BY <1>2 DEF JoinGroup
  <2> SUFFICES ASSUME node = "splitter", NEW g \in Hit
               PROVE  Cardinality(SamePixel(open', g)) <= MaxSamePixel
    BY <1>1, <2>1 DEF RoomForEach
  <2>2. PICK c : c = Append(open, h)
    OBVIOUS
  <2>3. open \in Seq(Hit) /\ Range(c) = Range(open) \cup {h}
    BY <1>1, <2>2, HitAppended DEF Shapes
  <2>4. Cardinality(SamePixel(open, g)) <= MaxSamePixel
    BY <1>1 DEF RoomForEach
  <2>5. CASE g.x = h.x /\ g.y = h.y
    <3>1. SamePixel(c, g) = SamePixel(open, g) \cup {h}
      BY <2>3, <2>5 DEF SamePixel
    <3>2. Cardinality(SamePixel(open, g)) < MaxSamePixel
      BY <2>1, <2>5 DEF Arrives, SamePixel
    <3>3. IsFiniteSet(SamePixel(open, g)) /\ Cardinality(SamePixel(open, g)) \in Nat
      BY <2>3, RangeFinite
    <3>4. \/ Cardinality(SamePixel(c, g)) = Cardinality(SamePixel(open, g))
          \/ Cardinality(SamePixel(c, g)) = Cardinality(SamePixel(open, g)) + 1
      BY <3>1, <3>3, FS_AddElement
    <3>5. Cardinality(SamePixel(c, g)) <= MaxSamePixel
      BY <3>2, <3>3, <3>4, HitType
    <3> QED BY <2>1, <2>2, <3>5
  <2>6. CASE ~(g.x = h.x /\ g.y = h.y)
    <3>1. SamePixel(c, g) = SamePixel(open, g)
      BY <2>3, <2>6 DEF SamePixel
    <3> QED BY <2>1, <2>2, <2>4, <3>1
  <2> QED BY <2>5, <2>6
<1>3. ASSUME NEW h \in Hit, StartGroup(h) PROVE RoomForEach'
  <2>1. open' = <<h>> /\ node' = node /\ (node = "splitter" => group' = open)
    BY <1>3 DEF StartGroup
  <2>2. PICK c : c = <<h>>
    OBVIOUS
  <2>3. \A g : Cardinality(SamePixel(c, g)) <= MaxSamePixel
    BY <2>2, OneOnPixel
  <2>4. open' = c
    BY <2>1, <2>2
  <2> QED BY <1>1, <2>1, <2>3, <2>4 DEF RoomForEach
<1>4. CASE UNCHANGED <<node, open>> /\ group' = <<>>
  BY <1>1, <1>4, NoneOnPixel DEF RoomForEach
<1>5. CASE UNCHANGED <<node, open, group>>
  BY <1>1, <1>5 DEF RoomForEach
<1>6. /\ WriteCompact \/ Split => UNCHANGED <<node, open>> /\ group' = <<>>
      /\ StoreToMatrix \/ StartLabel \/ (\E h \in frontier : Tag(h))
            => UNCHANGED <<node, open, group>>
  BY DEF WriteCompact, Split, StoreToMatrix, StartLabel, Tag
<1> QED BY <1>1, <1>2, <1>3, <1>4, <1>5, <1>6, NextCases

-----------------------------------------------------------------------------
(* What follows. *)

\* The invariant of both clusterers. (node never changes; it says which of the
\* two a behaviour is of.)
THEOREM TwoStepInvariant == Spec => []TwoStepInv
<1>1. Init => TwoStepInv
  BY ShapesInit, InTurnInit, LabelsInTurnInit, EachInOnePlaceInit, RoomForEachInit
     DEF TwoStepInv
<1>2. TwoStepInv /\ [Next]_vars => TwoStepInv'
  BY ShapesStep, InTurnStep, LabelsInTurnStep, EachInOnePlaceStep, RoomForEachStep
     DEF TwoStepInv
<1> QED BY <1>1, <1>2, PTL DEF Spec

\* Types, and that nothing of a group is left in the matrix or on the stack of
\* dfs_tag when the next hit is read; labels do not outnumber hits.
THEOREM TwoStepTypeOK == Spec => []TypeOK
<1>1. TwoStepInv => TypeOK
  <2> SUFFICES ASSUME TwoStepInv PROVE TypeOK
    OBVIOUS
  <2>1. Shapes /\ InTurn /\ LabelsInTurn /\ EachInOnePlace
    BY DEF TwoStepInv
  <2>2. lastToa \in 0..MaxToa
    <3>1. CASE arrived = <<>>
      <4>1. 0 \in 0..MaxToa
        BY HitType
      <4> QED BY <2>1, <3>1, <4>1 DEF Shapes
    <3>2. CASE arrived # <<>>
      <4>1. arrived[Len(arrived)] \in Hit
        BY <2>1, <3>2 DEF Shapes
      <4> QED BY <2>1, <3>2, <4>1, HitType DEF Shapes
    <3> QED BY <3>1, <3>2
  <2>3. DOMAIN matrix = Range(group) \/ (DOMAIN matrix = {} /\ frontier = {})
    BY <2>1 DEF Shapes, LabelsInTurn
  <2>4. matrix \in [DOMAIN matrix -> 0..MaxHits]
    <3>1. CASE phase # "label"
      BY <2>1, <3>1 DEF Shapes
    <3>2. CASE phase = "label"
      <4>1. \A h \in Range(group) : matrix[h] \in 0..MaxHits
        <5> SUFFICES ASSUME NEW j \in DOMAIN group PROVE matrix[group[j]] \in 0..MaxHits
          BY DEF Range
        <5>1. matrix[group[j]] \in 0..j
          BY <2>1, <3>2 DEF LabelsInTurn
        <5>2. j \in Nat /\ j <= Len(group) /\ Len(group) \in Nat /\ Len(arrived) \in Nat
          BY <2>1 DEF Shapes
        <5>3. j <= MaxHits
          BY <2>1, <5>2, HitType DEF Shapes
        <5>4. 0..j \subseteq 0..MaxHits
          BY <5>2, <5>3, HitType
        <5> QED BY <5>1, <5>4
      <4> QED BY <2>1, <3>2, <4>1 DEF LabelsInTurn, Shapes
    <3> QED BY <3>1, <3>2
  <2>5. frontier \subseteq DOMAIN matrix
    BY <2>1, <2>3 DEF Shapes, LabelsInTurn
  <2>6. \A i \in DOMAIN output : Range(output[i]) \subseteq Range(arrived)
    BY <2>1 DEF EachInOnePlace, HitsOf
  <2>7. {Range(open), Range(group), DOMAIN matrix} \subseteq SUBSET Range(arrived)
    BY <2>1, <2>3 DEF EachInOnePlace
  <2> QED BY <2>1, <2>2, <2>4, <2>5, <2>6, <2>7 DEF Shapes, TypeOK
<1> QED BY <1>1, TwoStepInvariant, PTL

\* No written cluster is empty, so that the nodes behind do not take one for an
\* end token: should_create_new_cluster lets the splitter process an empty group
\* before its first, and process_cluster must find that one too large to write.
THEOREM TwoStepNoEndTokenInside == Spec => []NoEndTokenInside
<1>1. TwoStepInv => NoEndTokenInside
  BY DEF TwoStepInv, InTurn, Filled, NoEndTokenInside
<1> QED BY <1>1, TwoStepInvariant, PTL

\* Clusters leave in the order of their first toa, the parts that split_cluster
\* cuts a group into among them: label_components gives labels in the order of
\* the hits.
THEOREM TwoStepOutputSorted == Spec => []OutputSorted
<1>1. TwoStepInv => OutputSorted
  <2> SUFFICES ASSUME TwoStepInv, NEW i \in DOMAIN output, NEW j \in DOMAIN output, i <= j
               PROVE  FirstToa(Range(output[i])) <= FirstToa(Range(output[j]))
    BY DEF OutputSorted
  <2>1. \A k \in DOMAIN output :
           output[k] \in Seq(Hit) /\ output[k] # <<>> /\ Ordered(output[k])
    BY DEF TwoStepInv, Shapes, InTurn, Filled
  <2>2. \A k \in DOMAIN output : FirstToa(Range(output[k])) = output[k][1].toa
    BY <2>1, FirstIsHead
  <2>3. output[i][1].toa <= output[j][1].toa
    BY DEF TwoStepInv, InTurn, HeadsSorted
  <2> QED BY <2>2, <2>3
<1> QED BY <1>1, TwoStepInvariant, PTL

\* The matrix holds the hits of the group that is cut and no others, and no pixel
\* has more of them than store_to_matrix reserved: the references into its
\* vectors stay valid.
THEOREM TwoStepReferencesStayValid == Spec => []ReferencesStayValid
<1>1. TwoStepInv => ReferencesStayValid
  <2> SUFFICES ASSUME TwoStepInv PROVE ReferencesStayValid
    OBVIOUS
  <2>1. Shapes /\ LabelsInTurn /\ RoomForEach
    BY DEF TwoStepInv
  <2>2. CASE phase # "label"
    BY <2>1, <2>2 DEF Shapes, ReferencesStayValid
  <2>3. CASE phase = "label"
    <3>1. DOMAIN matrix = Range(group) /\ node = "splitter"
      BY <2>1, <2>3 DEF LabelsInTurn, Shapes
    <3>2. ASSUME NEW g \in Range(group)
          PROVE  Cardinality({h \in Range(group) : h.x = g.x /\ h.y = g.y}) <= MaxSamePixel
      <4>1. g \in Hit
        BY <2>1 DEF Shapes, Range
      <4> QED BY <2>1, <3>1, <4>1 DEF RoomForEach, SamePixel
    <3> QED BY <3>1, <3>2 DEF ReferencesStayValid
  <2> QED BY <2>2, <2>3
<1> QED BY <1>1, TwoStepInvariant, PTL

\* Where a hit is in a sequence of clusters: nowhere, or in one place.
PlacesOf(o, h) == UNION {{i} \X {k \in DOMAIN o[i] : o[i][k] = h} : i \in DOMAIN o}

LEMMA OncePlaced ==
    ASSUME NEW o, Once(o), NEW h
    PROVE  /\ h \in HitsOf(o) => Cardinality(PlacesOf(o, h)) = 1
           /\ h \notin HitsOf(o) => Cardinality(PlacesOf(o, h)) = 0
<1>1. \A p : p \in PlacesOf(o, h) <=>
                \E i \in DOMAIN o : \E k \in DOMAIN o[i] : o[i][k] = h /\ p = <<i, k>>
  BY DEF PlacesOf
<1>2. ASSUME h \in HitsOf(o) PROVE Cardinality(PlacesOf(o, h)) = 1
  <2>1. PICK i \in DOMAIN o : \E k \in DOMAIN o[i] : o[i][k] = h
    BY <1>2 DEF HitsOf, Range
  <2>2. PICK k \in DOMAIN o[i] : o[i][k] = h
    BY <2>1
  <2>3. <<i, k>> \in PlacesOf(o, h)
    BY <1>1, <2>2
  <2>4. ASSUME NEW p \in PlacesOf(o, h) PROVE p = <<i, k>>
    <3>1. PICK j \in DOMAIN o : \E l \in DOMAIN o[j] : o[j][l] = h /\ p = <<j, l>>
      BY <1>1
    <3>2. PICK l \in DOMAIN o[j] : o[j][l] = h /\ p = <<j, l>>
      BY <3>1
    <3>3. i = j /\ k = l
      BY <2>2, <3>2 DEF Once
    <3> QED BY <3>2, <3>3
  <2>5. PlacesOf(o, h) = {<<i, k>>}
    <3> HIDE DEF PlacesOf
    <3> QED BY <2>3, <2>4
  <2> QED BY <2>5, FS_Singleton
<1>3. ASSUME h \notin HitsOf(o) PROVE Cardinality(PlacesOf(o, h)) = 0
  <2>1. \A p : p \notin PlacesOf(o, h)
    BY <1>1, <1>3 DEF HitsOf, Range
  <2>2. PlacesOf(o, h) = {}
    <3> HIDE DEF PlacesOf
    <3> QED BY <2>1
  <2> QED BY <2>2, FS_EmptySet
<1> QED BY <1>2, <1>3

\* No hit is lost on its way from the open cluster through the matrix into a
\* written one, and none is in two clusters, whatever group is cut into whatever
\* parts.
THEOREM TwoStepHitsKept == Spec => []HitsKept
<1>1. ASSUME TwoStepInv PROVE HitsKept
  <2>1. Shapes /\ InTurn /\ EachInOnePlace
    BY <1>1 DEF TwoStepInv
  <2>2. /\ output \in Seq(Seq(Hit)) /\ open \in Seq(Hit) /\ group \in Seq(Hit)
        /\ Ordered(group) /\ Ordered(open)
    BY <2>1 DEF Shapes, InTurn
  <2>3. PICK places : places = Append(Append(output, group), open)
    OBVIOUS
  <2>4. Once(places) /\ HitsOf(places) = HitsOf(output) \cup Range(group) \cup Range(open)
    <3>1. ASSUME NEW c \in Seq(Hit), Ordered(c)
          PROVE  <<c>> \in Seq(Seq(Hit)) /\ HitsOf(<<c>>) = Range(c) /\ Once(<<c>>)
      <4>1. PICK p : p = <<c>>
        OBVIOUS
      <4>2. p \in Seq(Seq(Hit)) /\ DOMAIN p = {1} /\ p[1] = c
        BY <4>1
      <4>3. HitsOf(p) = Range(c)
        BY <4>2 DEF HitsOf
      <4>4. Once(p)
        BY <3>1, <4>2, OrderedOnce DEF Once
      <4> QED BY <4>1, <4>2, <4>3, <4>4
    <3>2. PICK g : g = <<group>>
      OBVIOUS
    <3>3. PICK c : c = <<open>>
      OBVIOUS
    <3>4. /\ g \in Seq(Seq(Hit)) /\ HitsOf(g) = Range(group) /\ Once(g)
          /\ c \in Seq(Seq(Hit)) /\ HitsOf(c) = Range(open) /\ Once(c)
      BY <2>2, <3>1, <3>2, <3>3
    <3>5. PICK r : r = output \o g
      OBVIOUS
    <3>6. /\ r \in Seq(Seq(Hit)) /\ HitsOf(r) = HitsOf(output) \cup Range(group)
          /\ Once(output) /\ HitsOf(output) \cap HitsOf(g) = {} => Once(r)
      BY <2>2, <3>4, <3>5, ClustersAppended
    <3>7. Once(r)
      BY <2>1, <3>4, <3>6 DEF EachInOnePlace
    <3>8. PICK s : s = r \o c
      OBVIOUS
    <3>9. /\ HitsOf(s) = HitsOf(r) \cup Range(open)
          /\ HitsOf(r) \cap HitsOf(c) = {} => Once(s)
      BY <3>4, <3>6, <3>7, <3>8, ClustersAppended
    <3>10. Once(s)
      BY <2>1, <3>4, <3>6, <3>9 DEF EachInOnePlace
    <3>11. places = s
      <4>1. Append(output, group) = r
        BY <2>2, <3>2, <3>5, ClusterAppended
      <4>2. Append(r, open) = s
        BY <2>2, <3>3, <3>6, <3>8, ClusterAppended
      <4> QED BY <2>3, <4>1, <4>2
    <3> QED BY <3>6, <3>9, <3>10, <3>11
  <2>5. ASSUME NEW h \in Range(arrived)
        PROVE  \/ Cardinality(PlacesOf(places, h)) = 1
               \/ /\ node = "temporal" /\ h.toa = 0
                  /\ Cardinality(PlacesOf(places, h)) = 0
    <3>1. h \in HitsOf(places) \/ (node = "temporal" /\ h.toa = 0)
      BY <2>1, <2>4 DEF EachInOnePlace
    <3> QED BY <2>4, <3>1, OncePlaced
  <2>6. \A h \in Range(arrived) :
           \/ Cardinality(PlacesOf(Append(Append(output, group), open), h)) = 1
           \/ /\ node = "temporal" /\ h.toa = 0
              /\ Cardinality(PlacesOf(Append(Append(output, group), open), h)) = 0
    BY <2>3, <2>5
  <2> QED BY <2>6 DEF HitsKept, PlacesOf
<1> QED BY <1>1, TwoStepInvariant, PTL

-----------------------------------------------------------------------------
(***************************************************************************)
(* Where the clusters go: the files data_printer writes them to and        *)
(* data_reader reads them from (ClusterFiles), for any flush interval, any *)
(* precision and any run of clusters.  However the buffers of the two      *)
(* files are handed on, the index points at the hits, and what is read is  *)
(* what was printed.  A cluster has at most MaxHits hits here as there.    *)
(***************************************************************************)
CONSTANTS FlushInterval, MaxClusters, Ticks, LineBytes, ClockTick, Precision

VARIABLES pc, clBuffer, pxBuffer, clFile, pxFile, currentLine, currentByte,
          clustersWritten, newPixels, next, printed, readBack

Disk == INSTANCE ClusterFiles

Line == Disk!HitLine \cup {Disk!Hash}

Read == [first : Nat, hits : Seq(Disk!HitLine)]

Buffers(S) == [text : Seq(S), got : Nat]
Files(S) == [text : Seq(S), ok : BOOLEAN]

Joined(s, t) == s \o t

-----------------------------------------------------------------------------
(* The inductive invariant. *)

Kinds ==
    /\ Disk!TypeOK
    /\ clBuffer \in Buffers(Disk!IndexLine)
    /\ pxBuffer \in Buffers(Line)
    /\ clFile \in Files(Disk!IndexLine)
    /\ pxFile \in Files(Line)
    /\ printed \in Seq(Disk!Clusters)
    /\ readBack \in Seq(Read)

\* The lines of the other file that the first n clusters of an index take.
EndOf(index, n) == IF n = 0 THEN 0 ELSE index[n].line + index[n].count + 1

\* The entry of the i-th cluster c of an index, and the lines it points at.
Points(c, i, index, pixels) ==
    /\ index[i].toa = Disk!FirstToa(c)
    /\ index[i].count = Len(c)
    /\ index[i].line = EndOf(index, i - 1)
    /\ index[i].line + index[i].count < Len(pixels)
    /\ index[i].byte = Disk!Bytes(SubSeq(pixels, 1, index[i].line))
    /\ Append(c, Disk!Hash) = SubSeq(pixels, index[i].line + 1,
                                index[i].line + index[i].count + 1)

Agree(cs, index, pixels) ==
    /\ Len(index) = Len(cs)
    /\ Len(pixels) = EndOf(index, Len(cs))
    /\ \A i \in DOMAIN cs : Points(cs[i], i, index, pixels)

\* While clusters are printed nothing was taken from the buffers that is still
\* in them, and the counters say how much is in the files and the buffers.
Writing ==
    /\ clBuffer.got = 0 /\ pxBuffer.got = 0
    /\ clFile.ok /\ pxFile.ok
    /\ newPixels = Len(pxBuffer.text)
    /\ clustersWritten = Len(printed)
    /\ Len(clBuffer.text) = clustersWritten % FlushInterval
    /\ currentLine = Len(Disk!Pixels)
    /\ currentByte = Disk!Bytes(Disk!Pixels)
    /\ readBack = <<>>

\* Afterwards the files have it all.
Written ==
    /\ clBuffer.got = Len(clBuffer.text)
    /\ pxBuffer.got = Len(pxBuffer.text)

\* The reader is in both files behind the clusters it got.
Reading ==
    /\ Len(readBack) <= Len(printed)
    /\ next.cl = Len(readBack) + 1
    /\ next.px = EndOf(Disk!Index, Len(readBack)) + 1

FilesInv ==
    /\ Kinds
    /\ Agree(printed, Disk!Index, Disk!Pixels)
    /\ IF pc = "print" THEN Writing ELSE Written
    /\ Reading
    /\ Disk!ReadsBack
    /\ Disk!BuffersBounded

-----------------------------------------------------------------------------
(* Induction, and the sums a recursive function computes. *)

\* Induction over the naturals, for a set: a set of them has a least member.
LEMMA LeastElement ==
    ASSUME NEW S \in SUBSET Nat, S # {}
    PROVE  \E m \in S : \A k \in S : m <= k
<1> DEFINE F == {0..m : m \in S}
<1>1. F \subseteq FiniteSubsetsOf(Nat) /\ F # {}
  <2>1. \A m \in S : 0..m \subseteq Nat /\ IsFiniteSet(0..m)
    BY FS_Interval
  <2> QED BY <2>1 DEF FiniteSubsetsOf
<1>2. PICK x \in F : \A y \in F : <<y, x>> \notin StrictSubsetOrdering(Nat)
  <2> HIDE DEF F
  <2> QED BY <1>1, FS_StrictSubsetOrderingWellFounded, WFMin
<1>3. PICK m \in S : x = 0..m
  BY <1>2
<1>4. ASSUME NEW k \in S, ~(m <= k) PROVE FALSE
  <2>1. k \in Nat /\ m \in Nat /\ k < m
    BY <1>4
  <2>2. 0..k \subseteq 0..m /\ m \notin 0..k /\ m \in 0..m
      /\ 0..k \subseteq Nat /\ 0..m \subseteq Nat
    BY <2>1
  <2>3. <<0..k, 0..m>> \in StrictSubsetOrdering(Nat) /\ 0..k \in F
    BY <2>2 DEF StrictSubsetOrdering
  <2> QED BY <2>3, <1>2, <1>3
<1> QED BY <1>4

LEMMA Induction ==
    ASSUME NEW S, 0 \in S, \A n \in Nat : n \in S => n + 1 \in S
    PROVE  Nat \subseteq S
<1> DEFINE T == {n \in Nat : n \notin S}
<1> SUFFICES ASSUME T # {} PROVE FALSE
  OBVIOUS
<1>1. T \in SUBSET Nat
  OBVIOUS
<1>2. PICK m \in T : \A k \in T : m <= k
  <2> HIDE DEF T
  <2> QED BY <1>1, LeastElement
<1>3. m \in Nat \ {0} /\ m \notin S
  BY <1>2
<1>4. m - 1 \in Nat /\ (m - 1) + 1 = m /\ ~(m <= m - 1)
  BY <1>3
<1>5. m - 1 \in S
  BY <1>2, <1>4
<1> QED BY <1>3, <1>4, <1>5

\* f[k] is the length of the first k lines.
SumsTo(s, n, f) ==
    /\ f[0] = 0
    /\ \A k \in 1..n : f[k] = f[k - 1] + s[k].bytes

Sums(s, f) ==
    /\ f \in [0..Len(s) -> Nat]
    /\ SumsTo(s, Len(s), f)

LEMMA SumsUnique ==
    ASSUME NEW s, NEW f, NEW g, NEW m \in Nat, SumsTo(s, m, f), SumsTo(s, m, g)
    PROVE  \A k \in 0..m : f[k] = g[k]
<1> DEFINE S == {n \in Nat : n <= m => f[n] = g[n]}
<1>1. 0 \in S
  BY DEF SumsTo
<1>2. ASSUME NEW n \in Nat, n \in S PROVE n + 1 \in S
  <2>1. CASE n + 1 <= m
    <3>1. n + 1 \in 1..m /\ (n + 1) - 1 = n /\ n <= m
      BY <2>1
    <3>2. /\ f[n + 1] = f[n] + s[n + 1].bytes
          /\ g[n + 1] = g[n] + s[n + 1].bytes
          /\ f[n] = g[n]
      BY <3>1, <1>2 DEF SumsTo
    <3> QED BY <3>2
  <2> QED BY <2>1
<1>3. Nat \subseteq S
  <2> HIDE DEF S
  <2> QED BY <1>1, <1>2, Induction
<1> QED BY <1>3

LEMMA LineBytesNat ==
    ASSUME Disk!FilesAssumption
    PROVE  \A x \in Line : x.bytes \in Nat
<1>1. LineBytes \subseteq Nat
  BY DEF Disk!FilesAssumption
<1>2. Disk!Hash.bytes \in Nat
  BY DEF Disk!Hash
<1> QED BY <1>1, <1>2 DEF Line, Disk!HitLine

LEMMA SumsExist ==
    ASSUME Disk!FilesAssumption,
           NEW s \in Seq(Line)
    PROVE  \E f : Sums(s, f)
<1> DEFINE P(n, f) == f \in [0..n -> Nat] /\ SumsTo(s, n, f)
           S == {n \in Nat : n <= Len(s) => \E f : P(n, f)}
<1>1. 0 \in S
  <2>1. P(0, [k \in 0..0 |-> 0])
    BY DEF SumsTo
  <2> HIDE DEF P
  <2> QED BY <2>1
<1>2. ASSUME NEW n \in Nat, n \in S PROVE n + 1 \in S
  <2>1. CASE n + 1 <= Len(s)
    <3>1. PICK f : P(n, f)
      <4> HIDE DEF P
      <4> QED BY <1>2, <2>1
    <3>2. s[n + 1].bytes \in Nat /\ f[n] \in Nat
      <4>1. s[n + 1] \in Line
        BY <2>1
      <4> QED BY <4>1, <3>1, LineBytesNat
    <3> DEFINE g == [k \in 0..(n + 1) |-> IF k = n + 1 THEN f[n] + s[n + 1].bytes ELSE f[k]]
    <3>3. g \in [0..(n + 1) -> Nat]
      BY <3>1, <3>2
    <3>4. g[0] = 0 /\ \A k \in 0..n : g[k] = f[k]
      BY <3>1 DEF SumsTo
    <3>5. g[n + 1] = g[n] + s[n + 1].bytes
      BY <3>4
    <3>6. ASSUME NEW k \in 1..(n + 1) PROVE g[k] = g[k - 1] + s[k].bytes
      <4>1. CASE k = n + 1
        BY <4>1, <3>5
      <4>2. CASE k # n + 1
        <5>1. k \in 1..n /\ k \in 0..n /\ k - 1 \in 0..n
          BY <4>2
        <5>2. f[k] = f[k - 1] + s[k].bytes
          BY <5>1, <3>1 DEF SumsTo
        <5> QED BY <5>1, <5>2, <3>4
      <4> QED BY <4>1, <4>2
    <3> HIDE DEF g
    <3>7. P(n + 1, g)
      BY <3>3, <3>4, <3>6 DEF SumsTo
    <3> HIDE DEF P
    <3> QED BY <3>7
  <2> HIDE DEF P
  <2> QED BY <2>1
<1>3. Nat \subseteq S
  <2> HIDE DEF S
  <2> QED BY <1>1, <1>2, Induction
<1>4. Len(s) \in Nat
  OBVIOUS
<1>5. \E f : P(Len(s), f)
  <2> HIDE DEF P
  <2> QED BY <1>3, <1>4
<1> QED BY <1>5 DEF Sums

\* The recursive function Bytes is defined by gives these sums.
LEMMA BytesOfSums ==
    ASSUME NEW s \in Seq(Line), NEW f, Sums(s, f)
    PROVE  Disk!Bytes(s) = f[Len(s)] /\ Disk!Bytes(s) \in Nat
<1> DEFINE Rule(g) == [k \in 0..Len(s) |-> IF k = 0 THEN 0 ELSE g[k - 1] + s[k].bytes]
           sum == CHOOSE g : g = Rule(g)
<1>1. Len(s) \in Nat
  OBVIOUS
<1>2. f = Rule(f)
  BY <1>1 DEF Sums, SumsTo
<1>3. sum = Rule(sum)
  BY <1>2
<1>4. SumsTo(s, Len(s), sum)
  <2> HIDE DEF sum
  <2>1. \A k \in 0..Len(s) : sum[k] = IF k = 0 THEN 0 ELSE sum[k - 1] + s[k].bytes
    BY <1>3
  <2>2. 0 \in 0..Len(s) /\ \A k \in 1..Len(s) : k \in 0..Len(s) /\ k # 0
    BY <1>1
  <2> QED BY <2>1, <2>2 DEF SumsTo
<1>5. \A k \in 0..Len(s) : sum[k] = f[k]
  <2> HIDE DEF sum
  <2> QED BY <1>1, <1>4, SumsUnique DEF Sums
<1>6. Disk!Bytes(s) = sum[Len(s)]
  BY DEF Disk!Bytes
<1>7. f[Len(s)] \in Nat
  BY <1>1 DEF Sums
<1> QED
  <2> HIDE DEF sum
  <2> QED BY <1>1, <1>5, <1>6, <1>7

LEMMA BytesNat ==
    ASSUME Disk!FilesAssumption,
           NEW s \in Seq(Line)
    PROVE  Disk!Bytes(s) \in Nat
<1>1. PICK f : Sums(s, f)
  BY SumsExist
<1> QED BY <1>1, BytesOfSums

LEMMA BytesEmpty ==
    ASSUME Disk!FilesAssumption
    PROVE  Disk!Bytes(<<>>) = 0
<1>1. << >> \in Seq(Line) /\ Len(<< >>) = 0
  OBVIOUS
<1>2. PICK f : Sums(<< >>, f)
  BY <1>1, SumsExist
<1> QED BY <1>1, <1>2, BytesOfSums DEF Sums, SumsTo

LEMMA BytesConcat ==
    ASSUME Disk!FilesAssumption,
           NEW s \in Seq(Line), NEW t \in Seq(Line)
    PROVE  Disk!Bytes(s \o t) = Disk!Bytes(s) + Disk!Bytes(t)
<1> DEFINE u == s \o t
           m == Len(s)
           n == Len(t)
<1>1. /\ u \in Seq(Line) /\ m \in Nat /\ n \in Nat /\ Len(u) = m + n
      /\ \A k \in 1..m : u[k] = s[k]
      /\ \A k \in 1..n : u[m + k] = t[k]
  OBVIOUS
<1>2. PICK f : Sums(s, f)
  BY SumsExist
<1>3. PICK g : Sums(t, g)
  BY SumsExist
<1>4. PICK h : Sums(u, h)
  BY <1>1, SumsExist
<1> HIDE DEF u
<1> DEFINE e == [k \in 0..(m + n) |-> IF k <= m THEN f[k] ELSE f[m] + g[k - m]]
<1>5. /\ f \in [0..m -> Nat] /\ f[0] = 0 /\ \A k \in 1..m : f[k] = f[k - 1] + s[k].bytes
      /\ g \in [0..n -> Nat] /\ g[0] = 0 /\ \A k \in 1..n : g[k] = g[k - 1] + t[k].bytes
  BY <1>2, <1>3 DEF Sums, SumsTo
<1>6. /\ \A k \in 0..m : e[k] = f[k]
      /\ \A k \in 0..n : e[m + k] = f[m] + g[k]
  <2>1. \A k \in 0..m : e[k] = f[k]
    BY <1>1
  <2>2. ASSUME NEW k \in 0..n PROVE e[m + k] = f[m] + g[k]
    <3>1. m + k \in 0..(m + n) /\ (m + k) - m = k /\ f[m] \in Nat
      <4>1. m \in Nat /\ n \in Nat /\ m \in 0..m
        BY <1>1
      <4>2. f[m] \in Nat
        BY <4>1, <1>5
      <4> HIDE DEF m, n, e
      <4> QED BY <4>1, <4>2
    <3>2. CASE k = 0
      BY <3>1, <3>2, <1>1, <1>5
    <3>3. CASE k # 0
      <4>1. ~(m + k <= m)
        BY <3>3, <1>1
      <4> QED BY <3>1, <4>1
    <3> QED BY <3>2, <3>3
  <2> QED BY <2>1, <2>2
<1>7. SumsTo(u, m + n, e)
  <2> HIDE DEF e
  <2>1. e[0] = 0
    BY <1>1, <1>5, <1>6
  <2>2. ASSUME NEW k \in 1..m PROVE e[k] = e[k - 1] + u[k].bytes
    <3>1. k \in 0..m /\ k - 1 \in 0..m
      BY <1>1
    <3> QED BY <3>1, <1>1, <1>5, <1>6
  <2>3. ASSUME NEW k \in 1..n PROVE e[m + k] = e[(m + k) - 1] + u[m + k].bytes
    <3>1. k \in 0..n /\ k - 1 \in 0..n /\ (m + k) - 1 = m + (k - 1)
      BY <1>1
    <3>2. e[m + k] = f[m] + g[k] /\ e[(m + k) - 1] = f[m] + g[k - 1]
      BY <3>1, <1>6
    <3>3. g[k] = g[k - 1] + u[m + k].bytes
      BY <1>1, <1>5
    <3>4. f[m] \in Nat /\ g[k - 1] \in Nat /\ u[m + k].bytes \in Nat
      <4>1. u[m + k] \in Line /\ m \in 0..m
        <5>1. t[k] \in Line
          BY <1>1
        <5> QED BY <5>1, <1>1
      <4>2. u[m + k].bytes \in Nat
        BY <4>1, LineBytesNat
      <4>3. f[m] \in Nat
        BY <4>1, <1>5
      <4>4. g[k - 1] \in Nat
        BY <3>1, <1>5
      <4> QED BY <4>2, <4>3, <4>4
    <3> QED BY <3>2, <3>3, <3>4
  <2>4. ASSUME NEW k \in 1..(m + n) PROVE e[k] = e[k - 1] + u[k].bytes
    <3>1. CASE k <= m
      BY <3>1, <2>2, <1>1
    <3>2. CASE ~(k <= m)
      <4>1. k - m \in 1..n /\ m + (k - m) = k
        BY <3>2, <1>1
      <4>2. e[m + (k - m)] = e[(m + (k - m)) - 1] + u[m + (k - m)].bytes
        BY <4>1, <2>3
      <4> QED BY <4>1, <4>2
    <3> QED BY <3>1, <3>2
  <2> QED BY <2>1, <2>4 DEF SumsTo
<1>8. h[m + n] = e[m + n]
  <2> HIDE DEF e
  <2>1. SumsTo(u, m + n, h) /\ m + n \in Nat /\ m + n \in 0..(m + n)
    BY <1>1, <1>4 DEF Sums
  <2>2. \A k \in 0..(m + n) : h[k] = e[k]
    BY <2>1, <1>7, SumsUnique
  <2> QED BY <2>1, <2>2
<1>9. Disk!Bytes(u) = h[m + n] /\ Disk!Bytes(s) = f[m] /\ Disk!Bytes(t) = g[n]
  BY <1>1, <1>2, <1>3, <1>4, BytesOfSums
<1>10. e[m + n] = f[m] + g[n]
  <2> HIDE DEF e
  <2> QED BY <1>1, <1>6
<1> QED
  <2> HIDE DEF e
  <2> QED BY <1>8, <1>9, <1>10 DEF u

-----------------------------------------------------------------------------
(* Data. *)

LEMMA FirstToaIs ==
    ASSUME NEW c, NEW m, \A i \in DOMAIN c : c[i].toa \in Nat,
           \E i \in DOMAIN c : c[i].toa = m, \A i \in DOMAIN c : m <= c[i].toa
    PROVE  Disk!FirstToa(c) = m
<1> DEFINE T == {c[i].toa : i \in DOMAIN c}
           Least(t) == \A i \in DOMAIN c : t <= c[i].toa
           f == CHOOSE t \in T : Least(t)
<1>1. m \in T /\ Least(m)
  OBVIOUS
<1>2. f \in T /\ Least(f)
  <2> HIDE DEF T, Least
  <2> QED BY <1>1
<1>3. m <= f /\ f <= m /\ m \in Nat /\ f \in Nat
  <2> HIDE DEF f
  <2> QED BY <1>1, <1>2
<1>4. Disk!FirstToa(c) = f
  BY DEF Disk!FirstToa
<1> QED
  <2> HIDE DEF f
  <2> QED BY <1>3, <1>4

\* A time is read as it was written.
LEMMA ReadAsWritten ==
    ASSUME Disk!FilesAssumption
    PROVE  \A t \in Disk!Times : Disk!AsRead(t) = t /\ t \in Nat
<1>1. ASSUME NEW t \in Disk!Times, t # 0
      PROVE  t \in Nat /\ ~Disk!Undotted(t)
  <2>1. PICK n \in Ticks : t = n * ClockTick
    BY <1>1 DEF Disk!Times
  <2>2. n \in Nat \ {0} /\ ClockTick \in Nat \ {0} /\ ~Disk!Undotted(ClockTick)
    BY <1>1, <2>1 DEF Disk!FilesAssumption
  <2>3. t \in Nat /\ t >= ClockTick
    <3>1. PICK k \in Nat : n = k + 1
      BY <2>2, n - 1 \in Nat
    <3>2. k * ClockTick \in Nat
      BY <2>2
    <3>3. n * ClockTick = k * ClockTick + ClockTick
      BY <2>2, <3>1
    <3> QED BY <2>1, <2>2, <3>2, <3>3
  <2>4. ClockTick >= Disk!LeastDotted
    BY <2>2 DEF Disk!Undotted, Disk!FilesAssumption
  <2> QED BY <2>2, <2>3, <2>4 DEF Disk!Undotted, Disk!FilesAssumption
<1>2. \A t \in Disk!Times : ~Disk!Undotted(t) /\ t \in Nat
  BY <1>1 DEF Disk!Undotted
<1> QED BY <1>2 DEF Disk!AsRead

\* The least time of a cluster is one of its times.
LEMMA FirstToaLeast ==
    ASSUME Disk!FilesAssumption,
           NEW c \in Seq(Disk!HitLine), c # <<>>
    PROVE  /\ Disk!FirstToa(c) \in Disk!Times
           /\ \E i \in DOMAIN c : c[i].toa = Disk!FirstToa(c)
           /\ \A i \in DOMAIN c : Disk!FirstToa(c) <= c[i].toa /\ c[i].toa \in Nat
<1> DEFINE T == {c[i].toa : i \in DOMAIN c}
<1>1. \A i \in DOMAIN c : c[i].toa \in Disk!Times /\ c[i].toa \in Nat
  <2>1. \A i \in DOMAIN c : c[i] \in Disk!HitLine
    OBVIOUS
  <2>2. \A x \in Disk!HitLine : x.toa \in Disk!Times /\ x.toa \in Nat
    BY ReadAsWritten DEF Disk!HitLine
  <2> QED BY <2>1, <2>2
<1>2. T \in SUBSET Nat /\ T # {}
  <2>1. 1 \in DOMAIN c
    OBVIOUS
  <2> QED BY <1>1, <2>1
<1>3. PICK m \in T : \A t \in T : m <= t
  <2> HIDE DEF T
  <2> QED BY <1>2, LeastElement
<1>4. /\ \E i \in DOMAIN c : c[i].toa = m
      /\ \A i \in DOMAIN c : m <= c[i].toa
  BY <1>3
<1>5. Disk!FirstToa(c) = m
  BY <1>1, <1>4, FirstToaIs
<1> QED BY <1>1, <1>4, <1>5

LEMMA ClusterFacts ==
    ASSUME Disk!FilesAssumption,
           NEW c \in Disk!Clusters
    PROVE  /\ c \in Seq(Disk!HitLine) /\ c # <<>> /\ Len(c) \in Nat \ {0}
           /\ Append(c, Disk!Hash) \in Seq(Line)
<1>1. c \in Seq(Disk!HitLine) /\ c # <<>>
  <2>1. PICK m \in 0..MaxHits : c \in [1..m -> Disk!HitLine]
    BY DEF Disk!Clusters, Disk!BoundedSeq, Disk!SeqOf
  <2>2. m \in Nat
    BY DEF Disk!FilesAssumption
  <2>3. c \in Seq(Disk!HitLine)
    BY <2>1, <2>2
  <2>4. c # <<>>
    BY DEF Disk!Clusters
  <2> QED BY <2>3, <2>4
<1>2. c \in Seq(Line) /\ Disk!Hash \in Line
  BY <1>1 DEF Line
<1> QED BY <1>1, <1>2

\* The parts of what is written behind something.
LEMMA Before ==
    ASSUME NEW S, NEW p \in Seq(S), NEW q \in Seq(S),
           NEW a \in 1..(Len(p) + 1), NEW b \in 0..Len(p)
    PROVE  SubSeq(p \o q, a, b) = SubSeq(p, a, b)
  OBVIOUS

LEMMA Whole ==
    ASSUME NEW S, NEW p \in Seq(S)
    PROVE  SubSeq(p, 1, Len(p)) = p
  OBVIOUS

LEMMA Behind ==
    ASSUME NEW S, NEW p \in Seq(S), NEW q \in Seq(S)
    PROVE  SubSeq(p \o q, Len(p) + 1, Len(p) + Len(q)) = q
  OBVIOUS

LEMMA EndType ==
    ASSUME NEW index \in Seq(Disk!IndexLine), NEW n \in 0..Len(index)
    PROVE  EndOf(index, n) \in Nat
<1>1. CASE n = 0
  BY <1>1 DEF EndOf
<1>2. CASE n # 0
  <2>1. index[n] \in Disk!IndexLine
    BY <1>2
  <2> QED BY <2>1, <1>2 DEF EndOf, Disk!IndexLine
<1> QED BY <1>1, <1>2

\* A cluster more, with its line of the index.
LEMMA AgreeMore ==
    ASSUME Disk!FilesAssumption,
           NEW cs \in Seq(Disk!Clusters), NEW index \in Seq(Disk!IndexLine), NEW pixels \in Seq(Line),
           Agree(cs, index, pixels), NEW c \in Disk!Clusters, NEW entry,
           entry = [toa |-> Disk!FirstToa(c), count |-> Len(c), line |-> Len(pixels),
                    byte |-> Disk!Bytes(pixels)]
    PROVE  Agree(Append(cs, c), Append(index, entry), pixels \o Append(c, Disk!Hash))
<1> DEFINE ds == Append(cs, c)
           more == Append(index, entry)
           lines == Append(c, Disk!Hash)
           all == pixels \o lines
           n == Len(cs)
           m == Len(pixels)
<1>1. /\ lines \in Seq(Line) /\ Len(lines) = Len(c) + 1
      /\ Len(c) \in Nat \ {0} /\ m \in Nat /\ n \in Nat
  BY ClusterFacts
<1>2. /\ all \in Seq(Line)
      /\ Len(all) = m + Len(c) + 1
  BY <1>1
<1>3. /\ Len(ds) = n + 1 /\ DOMAIN ds = 1..(n + 1) /\ DOMAIN cs = 1..n
      /\ \A i \in 1..n : ds[i] = cs[i]
      /\ ds[n + 1] = c
  OBVIOUS
<1>4. /\ Len(index) = n /\ Len(more) = n + 1
      /\ \A i \in 1..n : more[i] = index[i]
      /\ more[n + 1] = entry
  BY DEF Agree
<1>5. \A i \in 0..n : EndOf(more, i) = EndOf(index, i)
  BY <1>4, <1>1 DEF EndOf
<1>6. EndOf(more, n + 1) = m + Len(c) + 1
  <2>1. entry.line = m /\ entry.count = Len(c)
    OBVIOUS
  <2>2. n + 1 # 0
    BY <1>1
  <2> QED BY <2>1, <2>2, <1>4 DEF EndOf
<1> HIDE DEF ds, more, lines, all
<1>7. ASSUME NEW i \in 1..n PROVE Points(ds[i], i, more, all)
  <2>1. Points(cs[i], i, index, pixels)
    BY <1>3 DEF Agree
  <2> DEFINE x == index[i].line
             k == index[i].count
  <2>2. x \in Nat /\ k \in Nat
    <3>1. index[i] \in Disk!IndexLine
      BY <1>4
    <3> QED BY <3>1 DEF Disk!IndexLine
  <2>3. x + k < m
    BY <2>1 DEF Points
  <2> HIDE DEF x, k
  <2>4. SubSeq(all, 1, x) = SubSeq(pixels, 1, x)
    <3>1. x \in 0..m /\ 1 \in 1..(m + 1)
      BY <1>1, <2>2, <2>3
    <3> QED BY <3>1, <1>1, Before DEF all
  <2>5. SubSeq(all, x + 1, x + k + 1) = SubSeq(pixels, x + 1, x + k + 1)
    <3>1. x + 1 \in 1..(m + 1) /\ x + k + 1 \in 0..m
      BY <1>1, <2>2, <2>3
    <3> QED BY <3>1, <1>1, Before DEF all
  <2>6. x + k < Len(all)
    BY <1>1, <1>2, <2>2, <2>3
  <2>7. EndOf(more, i - 1) = EndOf(index, i - 1) /\ more[i] = index[i] /\ ds[i] = cs[i]
    <3>1. i - 1 \in 0..n
      BY <1>1
    <3> QED BY <3>1, <1>3, <1>4, <1>5
  <2> QED BY <2>1, <2>4, <2>5, <2>6, <2>7 DEF Points, x, k
<1>8. Points(ds[n + 1], n + 1, more, all)
  <2>1. EndOf(more, (n + 1) - 1) = m
    <3>1. (n + 1) - 1 = n /\ n \in 0..n /\ EndOf(index, n) = m
      BY <1>1 DEF Agree
    <3> QED BY <3>1, <1>5
  <2>2. SubSeq(all, 1, m) = pixels
    <3>1. SubSeq(all, 1, m) = SubSeq(pixels, 1, m)
      <4>1. 1 \in 1..(m + 1) /\ m \in 0..m
        BY <1>1
      <4> QED BY <4>1, <1>1, Before DEF all
    <3> QED BY <3>1, Whole
  <2>3. SubSeq(all, m + 1, m + Len(c) + 1) = lines
    <3>1. m + Len(c) + 1 = m + Len(lines)
      BY <1>1
    <3>2. SubSeq(pixels \o lines, m + 1, m + Len(lines)) = lines
      BY <1>1, Behind
    <3> HIDE DEF m
    <3> QED BY <3>1, <3>2 DEF all
  <2>4. m + Len(c) < Len(all)
    BY <1>1, <1>2
  <2>5. /\ entry.toa = Disk!FirstToa(c) /\ entry.count = Len(c)
        /\ entry.line = m /\ entry.byte = Disk!Bytes(pixels)
    OBVIOUS
  <2>6. more[n + 1] = entry /\ ds[n + 1] = c
    BY <1>3, <1>4
  <2>7. Append(c, Disk!Hash) = lines
    BY DEF lines
  <2>8. /\ entry.line + entry.count + 1 = m + Len(c) + 1
        /\ entry.line + entry.count = m + Len(c)
    BY <2>5
  <2> HIDE DEF m
  <2>9. /\ entry.line = EndOf(more, (n + 1) - 1)
        /\ entry.line + entry.count < Len(all)
        /\ entry.byte = Disk!Bytes(SubSeq(all, 1, entry.line))
    BY <2>1, <2>2, <2>4, <2>5, <2>8
  <2>10. Append(c, Disk!Hash) = SubSeq(all, entry.line + 1, entry.line + entry.count + 1)
    BY <2>3, <2>5, <2>7, <2>8
  <2> HIDE DEF n
  <2>11. Points(c, n + 1, more, all)
    BY <2>5, <2>6, <2>9, <2>10 DEF Points
  <2> QED BY <2>6, <2>11
<1>9. \A i \in DOMAIN ds : Points(ds[i], i, more, all)
  <2>1. \A i \in DOMAIN ds : i \in 1..n \/ i = n + 1
    <3>1. n \in Nat /\ DOMAIN ds = 1..(n + 1)
      BY <1>1, <1>3
    <3> HIDE DEF n
    <3> QED BY <3>1
  <2> QED BY <2>1, <1>7, <1>8
<1>10. Agree(ds, more, all)
  BY <1>2, <1>3, <1>4, <1>6, <1>9 DEF Agree
<1> QED BY <1>10 DEF ds, more, lines, all

-----------------------------------------------------------------------------
(* Buffers. *)

LEMMA JoinedFacts ==
    ASSUME NEW S, NEW s \in Seq(S), NEW t \in Seq(S)
    PROVE  /\ Joined(s, t) \in Seq(S)
           /\ Len(Joined(s, t)) = Len(s) + Len(t)
           /\ Len(s) \in Nat /\ Len(t) \in Nat
  BY DEF Joined

LEMMA UnreadFacts ==
    ASSUME NEW S, NEW b \in Buffers(S)
    PROVE  /\ b.got = 0 => Disk!Unread(b) = b.text
           /\ b.got = Len(b.text) => Disk!Unread(b) = <<>>
<1>1. b.text \in Seq(S)
  BY DEF Buffers
<1>2. b.got = 0 => Disk!Unread(b) = b.text
  <2>1. 0 + 1 = 1
    OBVIOUS
  <2> QED BY <2>1, <1>1, Whole DEF Disk!Unread
<1>3. b.got = Len(b.text) => Disk!Unread(b) = <<>>
  BY <1>1 DEF Disk!Unread
<1> QED BY <1>2, <1>3

LEMMA PutFacts ==
    ASSUME NEW S, NEW b \in Buffers(S), NEW lines \in Seq(S)
    PROVE  /\ Disk!Put(b, lines) \in Buffers(S)
           /\ Disk!Put(b, lines).text = Joined(b.text, lines)
           /\ Disk!Put(b, lines).got = b.got
<1>1. b.text \o lines \in Seq(S)
  BY DEF Buffers
<1> QED BY <1>1 DEF Disk!Put, Buffers, Joined

LEMMA InsertFacts ==
    ASSUME NEW S, NEW f \in Files(S), f.ok,
           NEW b \in Buffers(S), b.got = 0
    PROVE  /\ Disk!Insert(f, b) \in Files(S)
           /\ Disk!Insert(f, b).text = Joined(f.text, b.text)
           /\ b.text # <<>> => Disk!Insert(f, b).ok
<1>1. Disk!Unread(b) = b.text
  BY UnreadFacts
<1>2. f.text \in Seq(S) /\ b.text \in Seq(S) /\ f.text \o b.text \in Seq(S)
  BY DEF Buffers, Files
<1>3. CASE b.text = <<>>
  <2>1. Disk!Insert(f, b) = [f EXCEPT !.ok = FALSE]
    BY <1>1, <1>3 DEF Disk!Insert
  <2>2. f.text \o b.text = f.text
    BY <1>2, <1>3
  <2> QED BY <2>1, <2>2, <1>2, <1>3 DEF Files, Joined
<1>4. CASE b.text # <<>>
  <2>1. Disk!Insert(f, b) = [f EXCEPT !.text = f.text \o b.text]
    BY <1>1, <1>4 DEF Disk!Insert
  <2> QED BY <2>1, <1>2, <1>4 DEF Files, Joined
<1> QED BY <1>3, <1>4

-----------------------------------------------------------------------------
(* The invariant holds. *)

LEMMA Multiples ==
    ASSUME NEW m \in Nat \ {0}, NEW n \in Nat
    PROVE  /\ 0 % m = 0
           /\ n % m \in 0..(m - 1)
           /\ (n + 1) % m = IF (n % m) + 1 = m THEN 0 ELSE (n % m) + 1
<1> DEFINE q == n \div m  r == n % m  p == (n + 1) \div m  t == (n + 1) % m
<1>1. /\ n = m * q + r /\ q \in Nat /\ r \in 0..(m - 1)
      /\ n + 1 = m * p + t /\ p \in Nat /\ t \in 0..(m - 1)
  OBVIOUS
<1>6. 0 % m = 0
  <2> DEFINE u == 0 \div m  v == 0 % m
  <2>1. 0 = m * u + v /\ u \in Nat /\ v \in Nat
    OBVIOUS
  <2> HIDE DEF u, v
  <2>2. m * u \in Nat
    BY <2>1
  <2> QED BY <2>1, <2>2 DEF v
<1> HIDE DEF q, r, p, t
<1>2. CASE p = q
  <2>1. t = r + 1
    <3>1. m * q \in Nat
      BY <1>1
    <3> QED BY <1>1, <1>2, <3>1
  <2> QED BY <2>1, <1>1 DEF r, t
<1>3. CASE p = q + 1
  <2>1. m * p = m * q + m /\ m * q \in Nat
    BY <1>1, <1>3
  <2>2. t + m = r + 1
    BY <2>1, <1>1
  <2> QED BY <2>2, <1>1 DEF r, t
<1>4. CASE p < q
  <2>1. PICK d \in Nat : q = p + 1 + d
    <3>1. q - p - 1 \in Nat /\ q = p + 1 + (q - p - 1)
      BY <1>1, <1>4
    <3> QED BY <3>1
  <2>2. m * q = m * p + m + m * d /\ m * p \in Nat /\ m * d \in Nat
    BY <2>1, <1>1
  <2> QED BY <2>2, <1>1
<1>5. CASE p > q + 1
  <2>1. PICK d \in Nat : p = q + 2 + d
    <3>1. p - q - 2 \in Nat /\ p = q + 2 + (p - q - 2)
      BY <1>1, <1>5
    <3> QED BY <3>1
  <2>2. m * p = m * q + 2 * m + m * d /\ m * q \in Nat /\ m * d \in Nat
    BY <2>1, <1>1
  <2> QED BY <2>2, <1>1
<1> QED BY <1>1, <1>2, <1>3, <1>4, <1>5, <1>6 DEF r, t

LEMMA InitInv ==
    ASSUME Disk!FilesAssumption
    PROVE  Disk!Init => FilesInv
<1> SUFFICES ASSUME Disk!Init PROVE FilesInv
  OBVIOUS
<1> USE DEF Disk!Init
<1>1. /\ clBuffer = [text |-> <<>>, got |-> 0] /\ pxBuffer = [text |-> <<>>, got |-> 0]
      /\ clFile = [text |-> <<>>, ok |-> TRUE] /\ pxFile = [text |-> <<>>, ok |-> TRUE]
  BY DEF Disk!EmptyBuffer, Disk!EmptyFile
<1>2. /\ << >> \in Seq(Disk!IndexLine) /\ << >> \in Seq(Line) /\ << >> \in Seq(Disk!Clusters)
      /\ << >> \in Seq(Read) /\ << >> \in Seq(Disk!HitLine \cup {Disk!Hash})
  OBVIOUS
<1>3. FlushInterval \in Nat \ {0} /\ MaxClusters \in Nat
  BY DEF Disk!FilesAssumption
<1>4. Disk!TypeOK
  BY <1>1, <1>2, <1>3 DEF Disk!TypeOK
<1>5. Kinds
  <2>1. /\ clBuffer \in Buffers(Disk!IndexLine) /\ pxBuffer \in Buffers(Line)
        /\ clFile \in Files(Disk!IndexLine) /\ pxFile \in Files(Line)
    BY <1>1, <1>2 DEF Buffers, Files
  <2> QED BY <2>1, <1>2, <1>4 DEF Kinds
<1>6. Disk!Unread(clBuffer) = <<>> /\ Disk!Unread(pxBuffer) = <<>>
  <2>1. /\ clBuffer \in Buffers(Disk!IndexLine)
        /\ pxBuffer \in Buffers(Line)
    BY <1>5 DEF Kinds
  <2>2. clBuffer.got = 0 /\ pxBuffer.got = 0 /\ clBuffer.text = <<>> /\ pxBuffer.text = <<>>
    BY <1>1
  <2> QED BY ONLY <2>1, <2>2, UnreadFacts
<1>7. Disk!Index = <<>> /\ Disk!Pixels = <<>>
  <2>1. << >> \o << >> = << >>
    OBVIOUS
  <2> QED BY <1>1, <1>6, <2>1 DEF Disk!Index, Disk!Pixels
<1>8. Len(<< >>) = 0 /\ DOMAIN << >> = {}
  OBVIOUS
<1>9. Agree(printed, Disk!Index, Disk!Pixels)
  BY <1>7, <1>8 DEF Agree, EndOf
<1>10. clustersWritten % FlushInterval = 0
  <2>1. clustersWritten = 0 /\ 0 \in Nat
    OBVIOUS
  <2>2. 0 % FlushInterval = 0
    <3>1. \A m \in Nat \ {0} : 0 % m = 0
      BY <2>1, Multiples
    <3> QED BY <3>1, <1>3
  <2> QED BY <2>1, <2>2
<1>11. Writing
  BY <1>1, <1>7, <1>8, <1>10, BytesEmpty DEF Writing
<1>12. Reading
  BY <1>8 DEF Reading, EndOf
<1>13. Disk!ReadsBack
  BY <1>8 DEF Disk!ReadsBack
<1>14. Disk!BuffersBounded
  BY <1>1, <1>3, <1>8 DEF Disk!BuffersBounded
<1> QED BY <1>5, <1>9, <1>11, <1>12, <1>13, <1>14 DEF FilesInv

\* What was written to a buffer goes behind what its file and it hold, whether
\* the buffer is then handed on or kept.
LEMMA HandedOn ==
    ASSUME NEW S, NEW f \in Files(S), f.ok, NEW b \in Buffers(S), b.got = 0,
           NEW lines \in Seq(S), lines # <<>>, NEW g, NEW c,
           \/ g = Disk!Insert(f, Disk!Put(b, lines)) /\ c = Disk!EmptyBuffer
           \/ g = f /\ c = Disk!Put(b, lines)
    PROVE  /\ g \in Files(S) /\ g.ok
           /\ c \in Buffers(S) /\ c.got = 0
           /\ Joined(g.text, c.text) = Joined(Joined(f.text, b.text), lines)
<1>1. PICK x, y : x = f.text /\ y = b.text
  OBVIOUS
<1>2. x \in Seq(S) /\ y \in Seq(S)
  BY <1>1 DEF Buffers, Files
<1>3. /\ Joined(x, Joined(y, lines)) = Joined(Joined(x, y), lines)
      /\ Joined(y, lines) # <<>>
      /\ \A z \in Seq(S) : Joined(z, <<>>) = z
  <2>1. x \o (y \o lines) = (x \o y) \o lines
    BY <1>2
  <2>2. Len(y \o lines) = Len(y) + Len(lines) /\ Len(lines) \in Nat \ {0} /\ Len(y) \in Nat
    BY <1>2
  <2>3. y \o lines # <<>>
    BY <2>2
  <2>4. \A z \in Seq(S) : z \o << >> = z
    OBVIOUS
  <2> QED BY <2>1, <2>3, <2>4 DEF Joined
<1>4. PICK p : p = Disk!Put(b, lines)
  OBVIOUS
<1>5. p \in Buffers(S) /\ p.text = Joined(y, lines) /\ p.got = 0
  BY <1>1, <1>4, PutFacts
<1>6. CASE g = Disk!Insert(f, p) /\ c = Disk!EmptyBuffer
  <2>1. /\ Disk!Insert(f, p) \in Files(S)
        /\ Disk!Insert(f, p).text = Joined(x, p.text)
        /\ Disk!Insert(f, p).ok
    BY <1>1, <1>3, <1>5, InsertFacts
  <2>2. g.text \in Seq(S)
    BY <1>6, <2>1 DEF Files
  <2>3. c \in Buffers(S) /\ c.got = 0 /\ c.text = <<>>
    <3>1. c = [text |-> <<>>, got |-> 0] /\ << >> \in Seq(S)
      BY <1>6 DEF Disk!EmptyBuffer
    <3> QED BY <3>1 DEF Buffers
  <2>4. Joined(g.text, c.text) = Joined(x, Joined(y, lines))
    BY <1>3, <1>5, <1>6, <2>1, <2>2, <2>3
  <2> QED BY <1>1, <1>3, <1>6, <2>1, <2>3, <2>4
<1>7. CASE g = f /\ c = p
  BY <1>1, <1>3, <1>5, <1>7
<1> QED BY <1>4, <1>6, <1>7

LEMMA Streams ==
    ASSUME FilesInv, pc = "print"
    PROVE  /\ clBuffer.text \in Seq(Disk!IndexLine) /\ clFile.text \in Seq(Disk!IndexLine)
           /\ pxBuffer.text \in Seq(Line) /\ pxFile.text \in Seq(Line)
           /\ Disk!Index = clFile.text \o clBuffer.text
           /\ Disk!Pixels = pxFile.text \o pxBuffer.text
           /\ Disk!Index \in Seq(Disk!IndexLine) /\ Disk!Pixels \in Seq(Line)
<1>1. /\ clBuffer \in Buffers(Disk!IndexLine)
      /\ pxBuffer \in Buffers(Line)
      /\ clFile \in Files(Disk!IndexLine)
      /\ pxFile \in Files(Line)
  BY DEF FilesInv, Kinds
<1>2. clBuffer.got = 0 /\ pxBuffer.got = 0
  BY DEF FilesInv, Writing
<1>3. Disk!Unread(clBuffer) = clBuffer.text /\ Disk!Unread(pxBuffer) = pxBuffer.text
  BY ONLY <1>1, <1>2, UnreadFacts
<1>4. /\ clBuffer.text \in Seq(Disk!IndexLine) /\ clFile.text \in Seq(Disk!IndexLine)
      /\ pxBuffer.text \in Seq(Line) /\ pxFile.text \in Seq(Line)
  BY <1>1 DEF Buffers, Files
<1>5. Disk!Index = clFile.text \o clBuffer.text /\ Disk!Pixels = pxFile.text \o pxBuffer.text
  BY <1>3 DEF Disk!Index, Disk!Pixels
<1> QED BY <1>4, <1>5

LEMMA PrintInv ==
    ASSUME Disk!FilesAssumption,
           FilesInv, NEW c \in Disk!Clusters, Disk!PrintCluster(c)
    PROVE  FilesInv'
<1> DEFINE entry == Disk!IndexOf(c)
           lines == Append(c, Disk!Hash)
           n == newPixels + Len(c) + 1
<1>1. /\ Kinds /\ Disk!TypeOK /\ Writing /\ Agree(printed, Disk!Index, Disk!Pixels) /\ Disk!BuffersBounded
      /\ pc = "print"
      /\ Reading
  BY DEF FilesInv, Disk!PrintCluster, Kinds
<1>2. /\ c \in Seq(Disk!HitLine) /\ c # <<>> /\ Len(c) \in Nat \ {0}
      /\ lines \in Seq(Line) /\ lines # <<>> /\ Len(lines) = Len(c) + 1
  <2>1. c \in Seq(Disk!HitLine) /\ c # <<>> /\ Len(c) \in Nat \ {0} /\ lines \in Seq(Line)
    BY ClusterFacts
  <2>2. Len(lines) = Len(c) + 1 /\ lines # <<>>
    BY <2>1
  <2> QED BY <2>1, <2>2
<1>3. FlushInterval \in Nat \ {0} /\ MaxClusters \in Nat /\ Disk!Times \subseteq Nat
  BY ReadAsWritten DEF Disk!FilesAssumption
<1>4. /\ clBuffer.text \in Seq(Disk!IndexLine) /\ clFile.text \in Seq(Disk!IndexLine)
      /\ pxBuffer.text \in Seq(Line) /\ pxFile.text \in Seq(Line)
      /\ Disk!Index = clFile.text \o clBuffer.text
      /\ Disk!Pixels = pxFile.text \o pxBuffer.text
      /\ Disk!Index \in Seq(Disk!IndexLine) /\ Disk!Pixels \in Seq(Line)
  BY <1>1, Streams
<1>5. /\ clBuffer \in Buffers(Disk!IndexLine)
      /\ pxBuffer \in Buffers(Line)
      /\ clFile \in Files(Disk!IndexLine)
      /\ pxFile \in Files(Line)
      /\ printed \in Seq(Disk!Clusters) /\ readBack \in Seq(Read)
  BY <1>1 DEF Kinds
<1>6. /\ clBuffer.got = 0 /\ pxBuffer.got = 0 /\ clFile.ok /\ pxFile.ok
      /\ newPixels = Len(pxBuffer.text) /\ clustersWritten = Len(printed)
      /\ Len(clBuffer.text) = clustersWritten % FlushInterval
      /\ currentLine = Len(Disk!Pixels) /\ currentByte = Disk!Bytes(Disk!Pixels) /\ readBack = <<>>
  BY <1>1 DEF Writing
<1>7. /\ entry \in Disk!IndexLine
      /\ entry = [toa |-> Disk!FirstToa(c), count |-> Len(c), line |-> Len(Disk!Pixels),
                  byte |-> Disk!Bytes(Disk!Pixels)]
  <2>1. Disk!FirstToa(c) \in Nat
    BY <1>2, <1>3, FirstToaLeast
  <2>2. currentLine \in Nat /\ currentByte \in Nat
    BY <1>1 DEF Disk!TypeOK
  <2>3. entry = [toa |-> Disk!FirstToa(c), count |-> Len(c), line |-> currentLine,
                 byte |-> currentByte]
    BY DEF Disk!IndexOf
  <2> HIDE DEF entry
  <2> QED BY <2>1, <2>2, <2>3, <1>2, <1>6 DEF Disk!IndexLine
<1>8. /\ pc' = pc /\ next' = next /\ readBack' = readBack
      /\ Len(printed) < MaxClusters
      /\ printed' = Append(printed, c)
      /\ clustersWritten' = clustersWritten + 1
      /\ currentLine' = currentLine + Len(c) + 1
      /\ currentByte' = Disk!Bytes(Disk!Put(pxBuffer, lines).text) + Disk!Tellp(pxFile)
  BY DEF Disk!PrintCluster, Disk!readerVars
<1> DEFINE dueCl == (clustersWritten + 1) % FlushInterval = 0
           duePx == n > FlushInterval
<1>9. /\ IF dueCl THEN /\ clFile' = Disk!Insert(clFile, Disk!Put(clBuffer, <<entry>>))
                       /\ clBuffer' = Disk!EmptyBuffer
                  ELSE clFile' = clFile /\ clBuffer' = Disk!Put(clBuffer, <<entry>>)
      /\ IF duePx THEN /\ pxFile' = Disk!Insert(pxFile, Disk!Put(pxBuffer, lines))
                       /\ pxBuffer' = Disk!EmptyBuffer
                  ELSE pxFile' = pxFile /\ pxBuffer' = Disk!Put(pxBuffer, lines)
      /\ newPixels' = IF duePx THEN 0 ELSE n
  BY DEF Disk!PrintCluster, Disk!ClustersDue, Disk!PixelsDue, Disk!Cleared
<1> HIDE DEF entry, lines, n
<1>11. PICK gc : gc = clFile'
  OBVIOUS
<1>12. PICK bc : bc = clBuffer'
  OBVIOUS
<1>13. PICK gp : gp = pxFile'
  OBVIOUS
<1>14. PICK bp : bp = pxBuffer'
  OBVIOUS
<1>15. PICK line : line = <<entry>>
  OBVIOUS
<1>16. line \in Seq(Disk!IndexLine) /\ line # <<>> /\ Len(line) = 1
  BY <1>7, <1>15
<1>17. /\ gc \in Files(Disk!IndexLine) /\ gc.ok
       /\ bc \in Buffers(Disk!IndexLine) /\ bc.got = 0
       /\ Joined(gc.text, bc.text) = Joined(Joined(clFile.text, clBuffer.text), line)
       /\ bc.text = IF dueCl THEN <<>> ELSE Joined(clBuffer.text, line)
  <2>1. \/ gc = Disk!Insert(clFile, Disk!Put(clBuffer, line)) /\ bc = Disk!EmptyBuffer
        \/ gc = clFile /\ bc = Disk!Put(clBuffer, line)
    BY <1>9, <1>11, <1>12, <1>15
  <2>2. bc.text = IF dueCl THEN <<>> ELSE Joined(clBuffer.text, line)
    <3>1. Disk!Put(clBuffer, line).text = Joined(clBuffer.text, line)
      BY <1>5, <1>16, PutFacts
    <3> QED BY <3>1, <1>9, <1>12, <1>15 DEF Disk!EmptyBuffer
  <2>3. /\ gc \in Files(Disk!IndexLine) /\ gc.ok
        /\ bc \in Buffers(Disk!IndexLine) /\ bc.got = 0
        /\ Joined(gc.text, bc.text) = Joined(Joined(clFile.text, clBuffer.text), line)
    BY <2>1, <1>5, <1>6, <1>16, HandedOn
  <2> QED BY <2>2, <2>3
<1>18. /\ gp \in Files(Line) /\ gp.ok
       /\ bp \in Buffers(Line) /\ bp.got = 0
       /\ Joined(gp.text, bp.text) = Joined(Joined(pxFile.text, pxBuffer.text), lines)
       /\ bp.text = IF duePx THEN <<>> ELSE Joined(pxBuffer.text, lines)
  <2>1. \/ gp = Disk!Insert(pxFile, Disk!Put(pxBuffer, lines)) /\ bp = Disk!EmptyBuffer
        \/ gp = pxFile /\ bp = Disk!Put(pxBuffer, lines)
    BY <1>9, <1>13, <1>14
  <2>2. bp.text = IF duePx THEN <<>> ELSE Joined(pxBuffer.text, lines)
    <3>1. Disk!Put(pxBuffer, lines).text = Joined(pxBuffer.text, lines)
      BY <1>2, <1>5, PutFacts
    <3> QED BY <3>1, <1>9, <1>14 DEF Disk!EmptyBuffer
  <2>3. /\ gp \in Files(Line) /\ gp.ok
        /\ bp \in Buffers(Line) /\ bp.got = 0
        /\ Joined(gp.text, bp.text) = Joined(Joined(pxFile.text, pxBuffer.text), lines)
    <3>1. /\ lines \in Seq(Line) /\ lines # <<>>
          /\ pxFile \in Files(Line) /\ pxFile.ok
          /\ pxBuffer \in Buffers(Line) /\ pxBuffer.got = 0
      BY <1>2, <1>5, <1>6
    <3> QED BY ONLY <2>1, <3>1, HandedOn
  <2> QED BY <2>2, <2>3
<1>19. Disk!Index' = Append(Disk!Index, entry) /\ Disk!Pixels' = Disk!Pixels \o lines
  <2>1. Disk!Unread(bc) = bc.text /\ Disk!Unread(bp) = bp.text
    <3>1. bc \in Buffers(Disk!IndexLine) /\ bc.got = 0
      BY <1>17
    <3>2. bp \in Buffers(Line) /\ bp.got = 0
      BY <1>18
    <3> QED BY ONLY <3>1, <3>2, UnreadFacts
  <2>2. Disk!Index' = Joined(gc.text, bc.text) /\ Disk!Pixels' = Joined(gp.text, bp.text)
    <3>1. Disk!Index' = gc.text \o Disk!Unread(bc)
      BY <1>11, <1>12 DEF Disk!Index, Disk!Unread
    <3>2. Disk!Pixels' = gp.text \o Disk!Unread(bp)
      BY <1>13, <1>14 DEF Disk!Pixels, Disk!Unread
    <3> QED BY <2>1, <3>1, <3>2 DEF Joined
  <2>3. Joined(Disk!Index, line) = Append(Disk!Index, entry)
    <3>1. PICK i, e : i = Disk!Index /\ e = entry
      OBVIOUS
    <3>2. i \in Seq(Disk!IndexLine) /\ e \in Disk!IndexLine
      BY <3>1, <1>4, <1>7
    <3>3. i \o <<e>> = Append(i, e)
      BY ONLY <3>2
    <3> QED BY <3>1, <3>3, <1>15 DEF Joined
  <2>4. /\ Disk!Index = Joined(clFile.text, clBuffer.text)
        /\ Disk!Pixels = Joined(pxFile.text, pxBuffer.text)
    BY <1>4 DEF Joined
  <2>5. Joined(Disk!Pixels, lines) = Disk!Pixels \o lines
    BY DEF Joined
  <2> QED BY <2>2, <2>3, <2>4, <2>5, <1>17, <1>18
<1>20. Agree(printed', Disk!Index', Disk!Pixels')
  <2>1. Agree(Append(printed, c), Append(Disk!Index, entry), Disk!Pixels \o lines)
    <3>1. PICK e : e = entry
      OBVIOUS
    <3>2. e = [toa |-> Disk!FirstToa(c), count |-> Len(c), line |-> Len(Disk!Pixels),
               byte |-> Disk!Bytes(Disk!Pixels)]
      BY <3>1, <1>7
    <3>3. /\ printed \in Seq(Disk!Clusters) /\ Disk!Index \in Seq(Disk!IndexLine)
          /\ Disk!Pixels \in Seq(Line) /\ Agree(printed, Disk!Index, Disk!Pixels)
      BY <1>1, <1>4, <1>5
    <3>4. Agree(Append(printed, c), Append(Disk!Index, e), Disk!Pixels \o Append(c, Disk!Hash))
      BY ONLY Disk!FilesAssumption, c \in Disk!Clusters, <3>2, <3>3, AgreeMore
    <3> QED BY <3>1, <3>4 DEF lines
  <2> QED BY <2>1, <1>8, <1>19
<1>21. currentLine' = Len(Disk!Pixels') /\ currentLine' \in Nat
  <2>1. Len(Disk!Pixels \o lines) = Len(Disk!Pixels) + Len(lines) /\ Len(Disk!Pixels) \in Nat
    <3>1. Len(Joined(Disk!Pixels, lines)) = Len(Disk!Pixels) + Len(lines) /\ Len(Disk!Pixels) \in Nat
      BY <1>2, <1>4, JoinedFacts
    <3> QED BY <3>1 DEF Joined
  <2> QED BY <2>1, <1>2, <1>6, <1>8, <1>19
<1>22. currentByte' = Disk!Bytes(Disk!Pixels') /\ currentByte' \in Nat
  <2>1. Disk!Put(pxBuffer, lines).text = pxBuffer.text \o lines
    <3>1. Disk!Put(pxBuffer, lines).text = Joined(pxBuffer.text, lines)
      BY <1>2, <1>5, PutFacts
    <3> QED BY <3>1 DEF Joined
  <2>2. Disk!Tellp(pxFile) = Disk!Bytes(pxFile.text)
    BY <1>6 DEF Disk!Tellp
  <2>3. /\ Disk!Bytes(pxBuffer.text \o lines) = Disk!Bytes(pxBuffer.text) + Disk!Bytes(lines)
        /\ Disk!Bytes(Disk!Pixels) = Disk!Bytes(pxFile.text) + Disk!Bytes(pxBuffer.text)
        /\ Disk!Bytes(Disk!Pixels \o lines) = Disk!Bytes(Disk!Pixels) + Disk!Bytes(lines)
    BY <1>2, <1>4, BytesConcat
  <2>4. Disk!Bytes(pxFile.text) \in Nat /\ Disk!Bytes(pxBuffer.text) \in Nat /\ Disk!Bytes(lines) \in Nat
    BY <1>2, <1>4, BytesNat
  <2>5. currentByte' = (Disk!Bytes(pxBuffer.text) + Disk!Bytes(lines)) + Disk!Bytes(pxFile.text)
    BY <2>1, <2>2, <2>3, <1>8
  <2> QED BY <2>3, <2>4, <2>5, <1>19
<1>23. /\ Len(clBuffer.text) \in Nat /\ Len(pxBuffer.text) \in Nat
       /\ Len(Joined(clBuffer.text, line)) = Len(clBuffer.text) + 1
       /\ Len(Joined(pxBuffer.text, lines)) = Len(pxBuffer.text) + Len(c) + 1
       /\ Len(<< >>) = 0
  <2>1. Len(Joined(clBuffer.text, line)) = Len(clBuffer.text) + Len(line)
    BY <1>4, <1>16, JoinedFacts
  <2>2. Len(Joined(pxBuffer.text, lines)) = Len(pxBuffer.text) + Len(lines)
    BY <1>2, <1>4, JoinedFacts
  <2>3. Len(clBuffer.text) \in Nat /\ Len(pxBuffer.text) \in Nat
    BY <1>4
  <2>4. Len(<< >>) = 0
    OBVIOUS
  <2>5. Len(pxBuffer.text) + Len(lines) = Len(pxBuffer.text) + Len(c) + 1
    <3>1. PICK u, v : u = Len(pxBuffer.text) /\ v = Len(c)
      OBVIOUS
    <3>2. u \in Nat /\ v \in Nat /\ Len(lines) = v + 1
      BY <2>3, <3>1, <1>2
    <3>3. u + Len(lines) = u + v + 1
      BY ONLY <3>2
    <3> QED BY <3>1, <3>3
  <2> QED BY <2>1, <2>2, <2>3, <2>4, <2>5, <1>16
<1>24. Len(bc.text) = clustersWritten' % FlushInterval /\ Len(bc.text) < FlushInterval
  <2>1. clustersWritten \in Nat
    BY <1>1, <1>3 DEF Disk!TypeOK
  <2>2. /\ clustersWritten % FlushInterval \in 0..(FlushInterval - 1)
        /\ (clustersWritten + 1) % FlushInterval
             = IF (clustersWritten % FlushInterval) + 1 = FlushInterval THEN 0
               ELSE (clustersWritten % FlushInterval) + 1
    BY ONLY <2>1, <1>3, Multiples
  <2> DEFINE r == clustersWritten % FlushInterval
             s == (clustersWritten + 1) % FlushInterval
  <2>3. /\ r \in 0..(FlushInterval - 1)
        /\ s = IF r + 1 = FlushInterval THEN 0 ELSE r + 1
        /\ clustersWritten' % FlushInterval = s
        /\ Len(clBuffer.text) = r
        /\ dueCl <=> s = 0
    BY <2>2, <1>6, <1>8
  <2> HIDE DEF r, s
  <2>4. CASE dueCl
    BY <2>3, <2>4, <1>3, <1>17, <1>23
  <2>5. CASE ~dueCl
    BY <2>3, <2>5, <1>3, <1>17, <1>23
  <2> QED BY <2>4, <2>5
<1>25. Len(bp.text) = newPixels' /\ newPixels' \in Nat /\ newPixels' <= FlushInterval
  <2>1. n \in Nat /\ n = Len(Joined(pxBuffer.text, lines))
    BY <1>2, <1>6, <1>23 DEF n
  <2>2. CASE duePx
    BY <2>2, <1>3, <1>9, <1>18, <1>23
  <2>3. CASE ~duePx
    <3>1. n <= FlushInterval
      BY <2>1, <2>3, <1>3
    <3> QED BY <2>1, <2>3, <3>1, <1>9, <1>18
  <2> QED BY <2>2, <2>3
<1>26. /\ Len(printed') = Len(printed) + 1 /\ printed' \in Seq(Disk!Clusters)
       /\ Len(printed) \in Nat
  BY <1>5, <1>8
<1>27. Writing'
  BY <1>6, <1>8, <1>11, <1>12, <1>13, <1>14, <1>17, <1>18, <1>21, <1>22,
     <1>24, <1>25, <1>26 DEF Writing
<1>28. Kinds'
  <2>1. clustersWritten' \in 0..MaxClusters
    BY <1>3, <1>6, <1>8, <1>26
  <2>2. /\ clBuffer' \in Buffers(Disk!IndexLine)
        /\ pxBuffer' \in Buffers(Line)
        /\ clFile' \in Files(Disk!IndexLine)
        /\ pxFile' \in Files(Line)
    BY <1>11, <1>12, <1>13, <1>14, <1>17, <1>18
  <2>3. /\ clBuffer'.text \in Seq(Disk!IndexLine) /\ clFile'.text \in Seq(Disk!IndexLine)
        /\ pxBuffer'.text \in Seq(Disk!HitLine \cup {Disk!Hash})
        /\ pxFile'.text \in Seq(Disk!HitLine \cup {Disk!Hash})
    BY <2>2 DEF Line, Buffers, Files
  <2>4. Disk!TypeOK'
    BY <1>1, <1>8, <1>21, <1>22, <1>25, <2>1, <2>3 DEF Disk!TypeOK
  <2> QED BY <2>2, <2>4, <1>5, <1>8, <1>26 DEF Kinds
<1>29. Reading' /\ Disk!ReadsBack'
  <2>1. Len(readBack) = 0 /\ Len(readBack') = 0 /\ DOMAIN readBack' = {}
    BY <1>6, <1>8
  <2>2. next.cl = 1 /\ next.px = 1
    BY <2>1, <1>1 DEF Reading, EndOf
  <2>3. Reading'
    BY <2>1, <2>2, <1>8, <1>26 DEF Reading, EndOf
  <2>4. Disk!ReadsBack'
    BY <2>1, <1>1, <1>8 DEF Disk!ReadsBack
  <2> QED BY <2>3, <2>4
<1>30. Disk!BuffersBounded'
  BY <1>12, <1>14, <1>24, <1>25 DEF Disk!BuffersBounded
<1> QED BY <1>1, <1>8, <1>20, <1>27, <1>28, <1>29, <1>30 DEF FilesInv

LEMMA CloseInv ==
    ASSUME Disk!FilesAssumption,
           FilesInv, Disk!Close
    PROVE  FilesInv'
<1>1. /\ Kinds /\ Disk!TypeOK /\ Writing /\ Agree(printed, Disk!Index, Disk!Pixels) /\ Disk!BuffersBounded
      /\ Reading /\ Disk!ReadsBack /\ pc = "print"
  BY DEF FilesInv, Disk!Close, Kinds
<1>2. /\ clBuffer \in Buffers(Disk!IndexLine) /\ pxBuffer \in Buffers(Line)
      /\ clFile \in Files(Disk!IndexLine) /\ pxFile \in Files(Line)
  BY <1>1 DEF Kinds
<1>3. /\ clBuffer.got = 0 /\ pxBuffer.got = 0 /\ clFile.ok /\ pxFile.ok /\ readBack = <<>>
  BY <1>1 DEF Writing
<1>4. /\ pc' = "read"
      /\ clFile' = Disk!Insert(clFile, clBuffer) /\ pxFile' = Disk!Insert(pxFile, pxBuffer)
      /\ clBuffer' = [clBuffer EXCEPT !.got = Len(clBuffer.text)]
      /\ pxBuffer' = [pxBuffer EXCEPT !.got = Len(pxBuffer.text)]
      /\ currentLine' = currentLine /\ currentByte' = currentByte
      /\ clustersWritten' = clustersWritten /\ newPixels' = newPixels
      /\ printed' = printed /\ next' = next /\ readBack' = readBack
  BY DEF Disk!Close, Disk!readerVars
<1>5. PICK gc, gp : gc = clFile' /\ gp = pxFile'
  OBVIOUS
<1>6. PICK bc, bp : bc = clBuffer' /\ bp = pxBuffer'
  OBVIOUS
<1>7. /\ gc \in Files(Disk!IndexLine) /\ gc.text = Joined(clFile.text, clBuffer.text)
      /\ gp \in Files(Line) /\ gp.text = Joined(pxFile.text, pxBuffer.text)
  BY <1>2, <1>3, <1>4, <1>5, InsertFacts
<1>8. /\ bc \in Buffers(Disk!IndexLine) /\ bc.text = clBuffer.text /\ bc.got = Len(bc.text)
      /\ bp \in Buffers(Line) /\ bp.text = pxBuffer.text /\ bp.got = Len(bp.text)
  <2>1. Len(clBuffer.text) \in Nat /\ Len(pxBuffer.text) \in Nat
    BY <1>2 DEF Buffers
  <2>2. /\ bc = [clBuffer EXCEPT !.got = Len(clBuffer.text)]
        /\ bp = [pxBuffer EXCEPT !.got = Len(pxBuffer.text)]
    BY <1>4, <1>6
  <2> QED BY <2>1, <2>2, <1>2 DEF Buffers
<1>9. Disk!Index' = Disk!Index /\ Disk!Pixels' = Disk!Pixels
  <2>1. Disk!Unread(bc) = <<>> /\ Disk!Unread(bp) = <<>>
    BY <1>8, UnreadFacts
  <2>2. Disk!Index' = gc.text \o Disk!Unread(bc)
    BY <1>5, <1>6 DEF Disk!Index, Disk!Unread
  <2>3. Disk!Pixels' = gp.text \o Disk!Unread(bp)
    BY <1>5, <1>6 DEF Disk!Pixels, Disk!Unread
  <2>4. PICK x, y : x = gc.text /\ y = gp.text
    OBVIOUS
  <2>5. x \in Seq(Disk!IndexLine) /\ y \in Seq(Line)
    BY <2>4, <1>7 DEF Files
  <2>6. x \o << >> = x /\ y \o << >> = y
    BY <2>5
  <2>7. Disk!Index' = x /\ Disk!Pixels' = y
    BY <2>1, <2>2, <2>3, <2>4, <2>6
  <2>8. Disk!Index = clFile.text \o clBuffer.text /\ Disk!Pixels = pxFile.text \o pxBuffer.text
    BY <1>1, Streams
  <2> QED BY <2>4, <2>7, <2>8, <1>7 DEF Joined
<1>10. Kinds'
  <2>1. /\ clBuffer' \in Buffers(Disk!IndexLine) /\ pxBuffer' \in Buffers(Line)
        /\ clFile' \in Files(Disk!IndexLine) /\ pxFile' \in Files(Line)
    BY <1>5, <1>6, <1>7, <1>8
  <2>2. /\ clBuffer'.text \in Seq(Disk!IndexLine) /\ clFile'.text \in Seq(Disk!IndexLine)
        /\ pxBuffer'.text \in Seq(Disk!HitLine \cup {Disk!Hash})
        /\ pxFile'.text \in Seq(Disk!HitLine \cup {Disk!Hash})
    BY <2>1 DEF Line, Buffers, Files
  <2>3. Disk!TypeOK'
    BY <1>1, <1>4, <2>2 DEF Disk!TypeOK
  <2> QED BY <2>1, <2>3, <1>1, <1>4 DEF Kinds
<1>11. Agree(printed', Disk!Index', Disk!Pixels')
  BY <1>1, <1>4, <1>9
<1>12. Written'
  BY <1>6, <1>8 DEF Written
<1>13. Reading'
  BY <1>1, <1>4, <1>9 DEF Reading
<1>14. Disk!ReadsBack'
  BY <1>1, <1>4 DEF Disk!ReadsBack
<1>15. Disk!BuffersBounded'
  BY <1>1, <1>6, <1>8 DEF Disk!BuffersBounded
<1> QED BY <1>4, <1>10, <1>11, <1>12, <1>13, <1>14, <1>15 DEF FilesInv

\* The hits of a cluster are at the lines its entry says.
LEMMA HitsThere ==
    ASSUME Disk!FilesAssumption,
           NEW px \in Seq(Line), NEW c \in Disk!Clusters, NEW x \in Nat, x + Len(c) < Len(px),
           Append(c, Disk!Hash) = SubSeq(px, x + 1, x + Len(c) + 1)
    PROVE  \A j \in 1..Len(c) : px[x + j] = c[j] /\ c[j] \in Disk!HitLine
<1>1. c \in Seq(Disk!HitLine) /\ Len(c) \in Nat \ {0}
  BY ClusterFacts
<1>2. PICK n : n = Len(c)
  OBVIOUS
<1>3. n \in Nat /\ x + n < Len(px)
  BY <1>1, <1>2
<1> SUFFICES ASSUME NEW j \in 1..n PROVE px[x + j] = c[j] /\ c[j] \in Disk!HitLine
  BY <1>2
<1>4. c[j] \in Disk!HitLine /\ Append(c, Disk!Hash)[j] = c[j]
  <2>1. c \in Seq(Line)
    BY <1>1 DEF Line
  <2>2. c[j] \in Disk!HitLine
    BY <1>1, <1>2
  <2>3. PICK h : h = Disk!Hash
    OBVIOUS
  <2>4. Append(c, h)[j] = c[j]
    BY ONLY <2>1, <1>2, j \in 1..n
  <2> QED BY <2>2, <2>3, <2>4
<1>5. SubSeq(px, x + 1, x + n + 1)[j] = px[x + j]
  <2>1. PICK a, b : a = x + 1 /\ b = x + n + 1
    OBVIOUS
  <2>2. a \in 1..Len(px) /\ b \in 1..Len(px) /\ j \in 1..(b - a + 1)
    BY <1>3, <2>1
  <2>3. SubSeq(px, a, b)[j] = px[a + j - 1]
    BY <2>2
  <2>4. a + j - 1 = x + j
    BY <1>3, <2>1
  <2> QED BY <2>1, <2>3, <2>4
<1> QED BY <1>2, <1>4, <1>5

LEMMA ReadInv ==
    ASSUME Disk!FilesAssumption,
           FilesInv, Disk!ReadCluster
    PROVE  FilesInv'
<1> DEFINE entry == clFile.text[next.cl]
           hits == [i \in 1 .. entry.count |->
                      [pxFile.text[next.px + i - 1] EXCEPT !.toa = Disk!AsRead(@)]]
           first == Disk!FirstToa(Append(hits, [toa |-> Disk!AsRead(entry.toa)]))
           n == Len(readBack) + 1
           c == printed[n]
           x == entry.line
<1>1. /\ Kinds /\ Disk!TypeOK /\ Written /\ Agree(printed, Disk!Index, Disk!Pixels) /\ Disk!BuffersBounded
      /\ Reading /\ Disk!ReadsBack /\ pc = "read"
  BY DEF FilesInv, Disk!ReadCluster, Kinds
<1>2. /\ clBuffer \in Buffers(Disk!IndexLine) /\ pxBuffer \in Buffers(Line)
      /\ clFile.text \in Seq(Disk!IndexLine) /\ pxFile.text \in Seq(Line)
      /\ printed \in Seq(Disk!Clusters) /\ readBack \in Seq(Read)
  BY <1>1 DEF Kinds, Files
<1>3. Disk!Index = clFile.text /\ Disk!Pixels = pxFile.text
  <2>1. clBuffer.got = Len(clBuffer.text) /\ pxBuffer.got = Len(pxBuffer.text)
    BY <1>1 DEF Written
  <2>2. Disk!Unread(clBuffer) = <<>> /\ Disk!Unread(pxBuffer) = <<>>
    BY <1>2, <2>1, UnreadFacts
  <2>3. PICK u, v : u = clFile.text /\ v = pxFile.text
    OBVIOUS
  <2>4. u \o << >> = u /\ v \o << >> = v
    BY <1>2, <2>3
  <2> QED BY <2>2, <2>3, <2>4 DEF Disk!Index, Disk!Pixels
<1>4. /\ next.cl = n /\ next.px = EndOf(clFile.text, n - 1) + 1
      /\ n \in 1..Len(printed) /\ Len(clFile.text) = Len(printed) /\ Len(readBack) \in Nat
      /\ n - 1 = Len(readBack)
  <2>1. Len(readBack) \in Nat /\ Len(printed) \in Nat
    BY <1>2
  <2>2. next.cl = n /\ next.px = EndOf(clFile.text, Len(readBack)) + 1
    BY <1>1, <1>3 DEF Reading
  <2>3. Len(clFile.text) = Len(printed)
    BY <1>1, <1>3 DEF Agree
  <2>4. next.cl <= Len(clFile.text)
    BY DEF Disk!ReadCluster
  <2> QED BY <2>1, <2>2, <2>3, <2>4
<1>5. c \in Disk!Clusters /\ entry \in Disk!IndexLine
  BY <1>2, <1>4
<1>6. /\ entry.toa = Disk!FirstToa(c) /\ entry.count = Len(c)
      /\ x = EndOf(clFile.text, n - 1) /\ x + Len(c) < Len(pxFile.text)
      /\ Append(c, Disk!Hash) = SubSeq(pxFile.text, x + 1, x + Len(c) + 1)
  <2>1. DOMAIN printed = 1..Len(printed)
    BY <1>2
  <2>2. Points(c, n, clFile.text, pxFile.text)
    <3> HIDE DEF n
    <3> QED BY <2>1, <1>1, <1>3, <1>4 DEF Agree
  <2>3. clFile.text[n] = entry
    BY <1>4
  <2> HIDE DEF entry, n, c
  <2> QED BY <2>2, <2>3 DEF Points, x
<1>7. x \in Nat /\ next.px = x + 1
  BY <1>4, <1>5, <1>6 DEF Disk!IndexLine
<1>8. /\ c \in Seq(Disk!HitLine) /\ c # <<>> /\ Len(c) \in Nat \ {0}
      /\ \A j \in 1..Len(c) : pxFile.text[x + j] = c[j] /\ c[j] \in Disk!HitLine
  <2> HIDE DEF c, x, entry
  <2>1. c \in Seq(Disk!HitLine) /\ c # <<>> /\ Len(c) \in Nat \ {0}
    BY <1>5, ClusterFacts
  <2>2. \A j \in 1..Len(c) : pxFile.text[x + j] = c[j] /\ c[j] \in Disk!HitLine
    BY <1>2, <1>5, <1>6, <1>7, HitsThere
  <2> QED BY <2>1, <2>2
<1>9. \A h \in Disk!HitLine : h.toa \in Disk!Times /\ h # Disk!Hash
  <2>1. \A h \in Disk!HitLine : h.toa \in Disk!Times /\ h.toa \in Nat
    BY ReadAsWritten DEF Disk!HitLine
  <2>2. Disk!Hash.toa = -1
    BY DEF Disk!Hash
  <2>3. -1 \notin Nat
    OBVIOUS
  <2> QED BY <2>1, <2>2, <2>3
<1>10. Disk!HasHits(next.px, entry.count)
  <2> HIDE DEF x, entry, c
  <2>1. PICK m : m = Len(c)
    OBVIOUS
  <2>2. m \in Nat /\ x + m < Len(pxFile.text) /\ Len(pxFile.text) \in Nat
    BY <2>1, <1>2, <1>6, <1>8
  <2>3. (x + 1) + m - 1 = x + m
    BY <2>2, <1>7
  <2>4. (x + 1) + m - 1 <= Len(pxFile.text)
    BY <2>2, <1>7
  <2>5. ASSUME NEW i \in (x + 1) .. ((x + 1) + m - 1) PROVE pxFile.text[i] # Disk!Hash
    <3>1. i - x \in 1..m /\ x + (i - x) = i
      BY <2>2, <1>7
    <3>2. pxFile.text[x + (i - x)] \in Disk!HitLine
      BY <3>1, <2>1, <1>8
    <3> QED BY <3>1, <3>2, <1>9
  <2>6. next.px = x + 1 /\ entry.count = m
    BY <2>1, <1>6, <1>7
  <2> QED BY <2>4, <2>5, <2>6 DEF Disk!HasHits
<1>11. hits = c
  <2>1. PICK m : m = Len(c)
    OBVIOUS
  <2>2. m \in Nat /\ entry.count = m /\ next.px = x + 1
    BY <2>1, <1>6, <1>7, <1>8
  <2> HIDE DEF x, entry, c, n
  <2>3. ASSUME NEW i \in 1..m
        PROVE  [pxFile.text[next.px + i - 1] EXCEPT !.toa = Disk!AsRead(@)] = c[i]
    <3>1. next.px + i - 1 = x + i
      BY <2>2, <1>7
    <3>2. PICK h : h = c[i]
      OBVIOUS
    <3>3. pxFile.text[x + i] = h /\ h \in Disk!HitLine
      BY <3>2, <2>1, <1>8
    <3>4. Disk!AsRead(h.toa) = h.toa
      BY <3>3, <1>9, ReadAsWritten
    <3>5. [h EXCEPT !.toa = Disk!AsRead(@)] = h
      BY <3>3, <3>4 DEF Disk!HitLine
    <3> QED BY <3>1, <3>2, <3>3, <3>5
  <2>4. hits = [i \in 1..m |-> c[i]]
    BY <2>2, <2>3
  <2>5. c = [i \in 1..m |-> c[i]]
    BY <2>1, <1>8
  <2> QED BY <2>4, <2>5
<1>12. first = Disk!FirstToa(c)
  <2> DEFINE f == Disk!FirstToa(c)
             d == Append(c, [toa |-> f])
  <2>1. /\ f \in Disk!Times
        /\ \E i \in DOMAIN c : c[i].toa = f
        /\ \A i \in DOMAIN c : f <= c[i].toa /\ c[i].toa \in Nat
    BY <1>8, FirstToaLeast
  <2>2. Disk!AsRead(entry.toa) = f /\ f \in Nat
    BY <2>1, <1>6, ReadAsWritten
  <2>3. first = Disk!FirstToa(d)
    BY <2>2, <1>11
  <2> HIDE DEF f
  <2>4. PICK s : s = c
    OBVIOUS
  <2>5. PICK r : r = [toa |-> f]
    OBVIOUS
  <2>6. r.toa = f /\ s \in Seq(Disk!HitLine)
    BY <2>4, <2>5, <1>8
  <2>7. /\ DOMAIN s = 1..Len(s) /\ Len(s) \in Nat
        /\ DOMAIN Append(s, r) = 1..(Len(s) + 1)
        /\ \A i \in 1..Len(s) : Append(s, r)[i] = s[i]
        /\ Append(s, r)[Len(s) + 1] = r
    BY ONLY <2>6
  <2>8. d = Append(s, r)
    BY <2>4, <2>5
  <2> HIDE DEF d, c
  <2>9. \A i \in DOMAIN d : (i \in DOMAIN c /\ d[i] = c[i]) \/ d[i].toa = f
    <3>1. \A i \in 1..(Len(s) + 1) : i \in 1..Len(s) \/ i = Len(s) + 1
      BY <2>7
    <3> QED BY <3>1, <2>4, <2>6, <2>7, <2>8
  <2>10. \E i \in DOMAIN d : d[i].toa = f
    <3>1. Len(s) + 1 \in 1..(Len(s) + 1)
      BY <2>7
    <3> QED BY <3>1, <2>6, <2>7, <2>8
  <2>11. \A i \in DOMAIN d : d[i].toa \in Nat /\ f <= d[i].toa
    BY <2>1, <2>2, <2>9
  <2>12. Disk!FirstToa(d) = f
    BY <2>10, <2>11, FirstToaIs
  <2> QED BY <2>3, <2>12 DEF f
<1>13. /\ readBack' = Append(readBack, [first |-> Disk!FirstToa(c), hits |-> c])
       /\ next' = [cl |-> next.cl + 1, px |-> next.px + entry.count + 1]
       /\ pc' = pc
       /\ clBuffer' = clBuffer /\ pxBuffer' = pxBuffer
       /\ clFile' = clFile /\ pxFile' = pxFile
       /\ currentLine' = currentLine /\ currentByte' = currentByte
       /\ clustersWritten' = clustersWritten /\ newPixels' = newPixels
       /\ printed' = printed
  <2>1. /\ readBack' = Append(readBack, [first |-> first, hits |-> hits])
        /\ next' = [cl |-> next.cl + 1, px |-> next.px + entry.count + 1]
        /\ pc' = pc
        /\ UNCHANGED Disk!writerVars
    BY <1>10 DEF Disk!ReadCluster
  <2> HIDE DEF first, hits
  <2> QED BY <2>1, <1>11, <1>12 DEF Disk!writerVars
<1> HIDE DEF entry, hits, first, c, x
<1>14. Disk!Index' = Disk!Index /\ Disk!Pixels' = Disk!Pixels
  BY <1>13 DEF Disk!Index, Disk!Pixels, Disk!Unread
<1>15. PICK e : e = [first |-> Disk!FirstToa(c), hits |-> c]
  OBVIOUS
<1>16. e \in Read
  <2>1. Disk!FirstToa(c) \in Nat
    BY <1>8, FirstToaLeast, ReadAsWritten
  <2> QED BY <2>1, <1>8, <1>15 DEF Read
<1>17. /\ readBack' \in Seq(Read) /\ Len(readBack') = n
       /\ DOMAIN readBack' = 1..n
       /\ \A i \in 1..Len(readBack) : readBack'[i] = readBack[i]
       /\ readBack'[n] = e
  <2>1. readBack' = Append(readBack, e)
    BY <1>13, <1>15
  <2> QED BY <2>1, <1>2, <1>16
<1>18. Reading'
  <2>1. EndOf(clFile.text, n) = x + Len(c) + 1
    <3>1. n # 0 /\ clFile.text[n] = entry
      BY <1>4 DEF entry
    <3> HIDE DEF n
    <3> QED BY <3>1, <1>6 DEF EndOf, x
  <2>2. next.px + entry.count + 1 = EndOf(clFile.text, n) + 1
    <3>1. PICK m : m = Len(c)
      OBVIOUS
    <3>2. m \in Nat /\ entry.count = m /\ next.px = x + 1
      BY <3>1, <1>6, <1>7, <1>8
    <3>3. (x + 1) + m + 1 = (x + m + 1) + 1
      BY <3>2, <1>7
    <3> QED BY <2>1, <3>1, <3>2, <3>3
  <2>3. next'.cl = n + 1 /\ next'.px = EndOf(clFile.text, n) + 1
    BY <2>2, <1>4, <1>13
  <2>4. n <= Len(printed')
    BY <1>2, <1>4, <1>13
  <2> HIDE DEF n
  <2> QED BY <2>3, <2>4, <1>3, <1>13, <1>14, <1>17 DEF Reading
<1>19. Disk!ReadsBack'
  <2>1. \A i \in DOMAIN readBack' :
           readBack'[i] = [first |-> Disk!FirstToa(printed[i]), hits |-> printed[i]]
    <3>1. \A i \in 1..n : i \in 1..Len(readBack) \/ i = n
      BY <1>4
    <3>2. DOMAIN readBack = 1..Len(readBack)
      BY <1>2
    <3>3. \A i \in 1..Len(readBack) :
             readBack[i] = [first |-> Disk!FirstToa(printed[i]), hits |-> printed[i]]
      BY <3>2, <1>1 DEF Disk!ReadsBack
    <3>4. e = [first |-> Disk!FirstToa(printed[n]), hits |-> printed[n]]
      BY <1>15 DEF c
    <3> HIDE DEF n
    <3> QED BY <3>1, <3>3, <3>4, <1>17
  <2> QED BY <2>1, <1>1, <1>13 DEF Disk!ReadsBack
<1>20. Kinds'
  <2>1. next' \in [cl : Nat, px : Nat]
    <3>1. next \in [cl : Nat, px : Nat]
      BY <1>1 DEF Disk!TypeOK
    <3>2. next.cl \in Nat /\ next.px \in Nat /\ entry.count \in Nat
      BY <3>1, <1>6, <1>8
    <3> QED BY <3>2, <1>13
  <2>2. Disk!TypeOK'
    BY <2>1, <1>1, <1>13 DEF Disk!TypeOK
  <2> QED BY <2>2, <1>1, <1>13, <1>17 DEF Kinds
<1>21. Agree(printed', Disk!Index', Disk!Pixels') /\ Written' /\ Disk!BuffersBounded'
  <2>1. Agree(printed', Disk!Index', Disk!Pixels')
    BY <1>1, <1>13, <1>14
  <2>2. Written'
    BY <1>1, <1>13 DEF Written
  <2>3. Disk!BuffersBounded'
    BY <1>1, <1>13 DEF Disk!BuffersBounded
  <2> QED BY <2>1, <2>2, <2>3
<1>22. pc' # "print"
  BY <1>1, <1>13
<1> QED BY <1>18, <1>19, <1>20, <1>21, <1>22 DEF FilesInv

LEMMA EndInv ==
    ASSUME FilesInv, Disk!ReadEnd
    PROVE  FilesInv'
<1>1. /\ Kinds /\ Disk!TypeOK /\ Written /\ Agree(printed, Disk!Index, Disk!Pixels) /\ Disk!BuffersBounded
      /\ Reading /\ Disk!ReadsBack /\ pc = "read"
  BY DEF FilesInv, Disk!ReadEnd, Kinds
<1>2. /\ pc' = "done" /\ next' = next /\ readBack' = readBack
      /\ clBuffer' = clBuffer /\ pxBuffer' = pxBuffer
      /\ clFile' = clFile /\ pxFile' = pxFile
      /\ currentLine' = currentLine /\ currentByte' = currentByte
      /\ clustersWritten' = clustersWritten /\ newPixels' = newPixels
      /\ printed' = printed
  BY DEF Disk!ReadEnd, Disk!writerVars, Disk!readerVars
<1>3. Disk!Index' = Disk!Index /\ Disk!Pixels' = Disk!Pixels
  BY <1>2 DEF Disk!Index, Disk!Pixels, Disk!Unread
<1>4. Len(readBack) = Len(printed)
  <2>1. clBuffer \in Buffers(Disk!IndexLine) /\ clFile.text \in Seq(Disk!IndexLine)
    BY <1>1 DEF Kinds, Files
  <2>2. Disk!Unread(clBuffer) = <<>>
    BY <1>1, <2>1, UnreadFacts DEF Written
  <2>3. PICK u : u = clFile.text
    OBVIOUS
  <2>4. u \o << >> = u
    BY <2>1, <2>3
  <2>5. Disk!Index = clFile.text
    BY <2>2, <2>3, <2>4 DEF Disk!Index
  <2>6. /\ Len(clFile.text) = Len(printed)
        /\ next.cl = Len(readBack) + 1 /\ Len(readBack) <= Len(printed)
    BY <1>1, <2>5 DEF Agree, Reading
  <2>7. next.cl > Len(clFile.text)
    BY DEF Disk!ReadEnd
  <2>8. Len(readBack) \in Nat /\ Len(printed) \in Nat
    BY <1>1 DEF Kinds
  <2> QED BY <2>6, <2>7, <2>8
<1>5. Kinds'
  <2>1. Disk!TypeOK'
    BY <1>1, <1>2 DEF Disk!TypeOK
  <2> QED BY <2>1, <1>1, <1>2 DEF Kinds
<1>6. Agree(printed', Disk!Index', Disk!Pixels') /\ Reading'
  BY <1>1, <1>2, <1>3 DEF Reading
<1>7. Disk!ReadsBack'
  BY <1>1, <1>2, <1>4 DEF Disk!ReadsBack
<1>8. Written' /\ Disk!BuffersBounded'
  BY <1>1, <1>2 DEF Written, Disk!BuffersBounded
<1> QED BY <1>2, <1>5, <1>6, <1>7, <1>8 DEF FilesInv

LEMMA KeptInv ==
    ASSUME FilesInv, UNCHANGED Disk!vars
    PROVE  FilesInv'
<1>1. /\ pc' = pc /\ next' = next /\ readBack' = readBack
      /\ clBuffer' = clBuffer /\ pxBuffer' = pxBuffer
      /\ clFile' = clFile /\ pxFile' = pxFile
      /\ currentLine' = currentLine /\ currentByte' = currentByte
      /\ clustersWritten' = clustersWritten /\ newPixels' = newPixels
      /\ printed' = printed
  BY DEF Disk!vars, Disk!writerVars, Disk!readerVars
<1>2. Disk!Index' = Disk!Index /\ Disk!Pixels' = Disk!Pixels
  BY <1>1 DEF Disk!Index, Disk!Pixels, Disk!Unread
<1>3. Kinds /\ Reading /\ Disk!ReadsBack /\ Disk!BuffersBounded /\ Agree(printed, Disk!Index, Disk!Pixels)
  BY DEF FilesInv
<1>4. Kinds'
  <2>1. Disk!TypeOK'
    BY <1>1, <1>3 DEF Kinds, Disk!TypeOK
  <2> QED BY <2>1, <1>1, <1>3 DEF Kinds
<1>5. Agree(printed', Disk!Index', Disk!Pixels') /\ Reading'
  BY <1>1, <1>2, <1>3 DEF Reading
<1>6. Disk!ReadsBack' /\ Disk!BuffersBounded'
  BY <1>1, <1>3 DEF Disk!ReadsBack, Disk!BuffersBounded
<1>7. CASE pc = "print"
  <2>1. Writing
    BY <1>7 DEF FilesInv
  <2>2. Writing'
    BY <2>1, <1>1, <1>2 DEF Writing
  <2> QED BY <2>2, <1>1, <1>4, <1>5, <1>6, <1>7 DEF FilesInv
<1>8. CASE pc # "print"
  <2>1. Written
    BY <1>8 DEF FilesInv
  <2>2. Written'
    BY <2>1, <1>1 DEF Written
  <2> QED BY <2>2, <1>1, <1>4, <1>5, <1>6, <1>8 DEF FilesInv
<1> QED BY <1>7, <1>8

LEMMA StepInv ==
    ASSUME Disk!FilesAssumption
    PROVE  FilesInv /\ [Disk!Next]_(Disk!vars) => FilesInv'
<1> SUFFICES ASSUME FilesInv, [Disk!Next]_(Disk!vars) PROVE FilesInv'
  OBVIOUS
<1>1. CASE \E c \in Disk!Clusters : Disk!PrintCluster(c)
  BY <1>1, PrintInv
<1>2. CASE Disk!Close
  BY <1>2, CloseInv
<1>3. CASE Disk!ReadCluster
  BY <1>3, ReadInv
<1>4. CASE Disk!ReadEnd
  BY <1>4, EndInv
<1>5. CASE UNCHANGED Disk!vars
  BY <1>5, KeptInv
<1> QED BY <1>1, <1>2, <1>3, <1>4, <1>5 DEF Disk!Next

\* At any time the entries of the index, the lines of hits and the clusters
\* printed agree, in the files and the buffers together; the counters of the
\* writer say how much there is, and the reader is behind what it got.
THEOREM FilesInvariant ==
    ASSUME Disk!FilesAssumption
    PROVE  Disk!Spec => []FilesInv
<1>1. Disk!Init => FilesInv
  BY InitInv
<1>2. FilesInv /\ [Disk!Next]_(Disk!vars) => FilesInv'
  BY StepInv
<1> QED BY <1>1, <1>2, PTL DEF Disk!Spec

-----------------------------------------------------------------------------
(* What follows. *)

\* The files hold lines and entries, and the counters are numbers.
THEOREM FilesTypeOK ==
    ASSUME Disk!FilesAssumption
    PROVE  Disk!Spec => []Disk!TypeOK
<1>1. FilesInv => Disk!TypeOK
  BY DEF FilesInv, Kinds
<1> QED BY <1>1, FilesInvariant, PTL

\* Neither buffer outgrows the flush interval between two clusters
\* (mm_write_stream::operator<<).
THEOREM FilesBuffersBounded ==
    ASSUME Disk!FilesAssumption
    PROVE  Disk!Spec => []Disk!BuffersBounded
<1>1. FilesInv => Disk!BuffersBounded
  BY DEF FilesInv
<1> QED BY <1>1, FilesInvariant, PTL

\* Each entry of the index points by line and by byte at the hits of its cluster,
\* whatever was flushed when (current_line and current_byte of mm_write_stream).
THEOREM FilesIndexPointsAtPixels ==
    ASSUME Disk!FilesAssumption
    PROVE  Disk!Spec => []Disk!IndexPointsAtPixels
<1>1. FilesInv => Disk!IndexPointsAtPixels
  <2> SUFFICES ASSUME FilesInv PROVE Disk!IndexPointsAtPixels
    OBVIOUS
  <2>1. Agree(printed, Disk!Index, Disk!Pixels)
    BY DEF FilesInv
  <2> QED BY <2>1 DEF Agree, Points, Disk!IndexPointsAtPixels
<1> QED BY <1>1, FilesInvariant, PTL

\* mm_read_stream gets back what data_printer printed, cluster by cluster and in
\* order, and all of it before its end token.
THEOREM FilesReadsBack ==
    ASSUME Disk!FilesAssumption
    PROVE  Disk!Spec => []Disk!ReadsBack
<1>1. FilesInv => Disk!ReadsBack
  BY DEF FilesInv
<1> QED BY <1>1, FilesInvariant, PTL
==============================================================================
