-------------------------- MODULE ClusterMergerProofs --------------------------
(***************************************************************************)
(* The mergers behind the lanes for any number of lanes, length of slices, *)
(* sensor, tolerances and stream of hits in time order: each hit is in one *)
(* cluster, clusters leave in order, the offsets kept with the clusters    *)
(* reach every border cluster, and only what belongs together is merged.   *)
(*                                                                         *)
(* The inductive invariant, MergerInv, has five parts:                     *)
(*   Shape      the types, with the boxes and spans of waiting clusters;   *)
(*   Leading    no offset leads past a border cluster;                     *)
(*   Conserved  where each hit is, and that it is nowhere else;            *)
(*   InOrder    what was written is no later than what waits, and that no  *)
(*              later than what is still to be read;                       *)
(*   Whole      every cluster is made of parts that belong together.       *)
(* Both kinds of step do the same to a deque (Passes): a cluster is placed *)
(* in it, and some entries leave its front.  So each part is proved kept   *)
(* by placing and by leaving, once for both.                               *)
(***************************************************************************)
EXTENDS ClusterMerger, FiniteSetTheorems, WellFoundedInduction, TLAPS

\* The hits of a stream; ids tell them apart.
Hit == [id : Nat, x : 0..(Width - 1), y : 0..(Width - 1), toa : Nat]

Cluster == Seq(Hit) \ {<<>>}

Boxes == [left : Int, top : Int, right : Int, bottom : Int]

\* The entries of a deque.
Waits == [hits : Cluster, first : Int, last : Int, box : Boxes,
          border : BOOLEAN, offset : Nat \ {0}, valid : BOOLEAN]

\* The types of the variables.
Shape ==
    /\ arch \in Architectures
    /\ hits \in Seq(Hit)
    /\ pipes \in [Lane -> [Lane -> Seq(Cluster)]]
    /\ unfinished \in [Lane -> Seq(Waits)]
    /\ borderingOffset \in [Lane -> Nat \ {0}]
    /\ output \in [Lane -> Seq(Cluster)]
    /\ closed \in [Lane -> BOOLEAN]

-----------------------------------------------------------------------------
(* Induction, and recursive functions.                                      *)

\* Induction over the naturals, for a set: a set of them has a least member.
LEMMA LeastElement ==
    ASSUME NEW S \in SUBSET Nat, S # {}
    PROVE  \E m \in S : \A k \in S : m <= k
<1> DEFINE F == {0..m : m \in S}
<1>1. F \subseteq FiniteSubsetsOf(Nat) /\ F # {}
  <2>1. \A m \in S : 0..m \subseteq Nat /\ IsFiniteSet(0..m)
    BY FS_Interval
  <2> QED BY <2>1 DEF FiniteSubsetsOf
<1>2. PICK x \in F : \A y \in F : <<y, x>> \notin StrictSubsetOrdering(Nat)
  <2> HIDE DEF F
  <2> QED BY <1>1, FS_StrictSubsetOrderingWellFounded, WFMin
<1>3. PICK m \in S : x = 0..m
  BY <1>2
<1>4. ASSUME NEW k \in S, ~(m <= k) PROVE FALSE
  <2>1. k \in Nat /\ m \in Nat /\ k < m
    BY <1>4
  <2>2. 0..k \subseteq 0..m /\ m \notin 0..k /\ m \in 0..m
      /\ 0..k \subseteq Nat /\ 0..m \subseteq Nat
    BY <2>1
  <2>3. <<0..k, 0..m>> \in StrictSubsetOrdering(Nat) /\ 0..k \in F
    BY <2>2 DEF StrictSubsetOrdering
  <2> QED BY <2>3, <1>2, <1>3
<1> QED BY <1>4

LEMMA Induction ==
    ASSUME NEW S, 0 \in S, \A n \in Nat : n \in S => n + 1 \in S
    PROVE  Nat \subseteq S
<1> DEFINE T == {n \in Nat : n \notin S}
<1> SUFFICES ASSUME T # {} PROVE FALSE
  OBVIOUS
<1>1. T \in SUBSET Nat
  OBVIOUS
<1>2. PICK m \in T : \A k \in T : m <= k
  <2> HIDE DEF T
  <2> QED BY <1>1, LeastElement
<1>3. m \in Nat \ {0} /\ m \notin S
  BY <1>2
<1>4. m - 1 \in Nat /\ (m - 1) + 1 = m /\ ~(m <= m - 1)
  BY <1>3
<1>5. m - 1 \in S
  BY <1>2, <1>4
<1> QED BY <1>3, <1>4, <1>5

\* A recursive function: what a first value becomes, step by step.
Iterated(g, F, S, a, n) ==
    g \in [0..n -> S] /\ g[0] = a /\ \A k \in 1..n : g[k] = F[k][g[k - 1]]

Iterable(F, S, a, n) == n \in Nat /\ a \in S /\ F \in [1..n -> [S -> S]]

LEMMA Iterates ==
    ASSUME NEW S, NEW a, NEW n, NEW F, Iterable(F, S, a, n)
    PROVE  \E g : Iterated(g, F, S, a, n)
<1>0. n \in Nat /\ a \in S /\ F \in [1..n -> [S -> S]]
  BY DEF Iterable
<1> DEFINE P(m, g) == g \in [0..m -> S] /\ g[0] = a /\ \A k \in 1..m : g[k] = F[k][g[k - 1]]
           T == {m \in Nat : m <= n => \E g : P(m, g)}
<1>1. 0 \in T
  <2>1. P(0, [k \in 0..0 |-> a])
    BY <1>0
  <2> HIDE DEF P
  <2> QED BY <2>1
<1>2. ASSUME NEW m \in Nat, m \in T PROVE m + 1 \in T
  <2>1. CASE m + 1 <= n
    <3>1. PICK g : P(m, g)
      <4> HIDE DEF P
      <4> QED BY <1>0, <1>2, <2>1
    <3>2. m + 1 \in 1..n /\ m \in 0..m
      BY <1>0, <2>1
    <3>3. PICK x \in S : x = F[m + 1][g[m]]
      <4>1. g[m] \in S /\ F[m + 1] \in [S -> S]
        BY <1>0, <3>1, <3>2
      <4> QED BY <4>1
    <3> DEFINE h == [k \in 0..(m + 1) |-> IF k = m + 1 THEN x ELSE g[k]]
    <3>4. h \in [0..(m + 1) -> S] /\ h[0] = a /\ h[m + 1] = x /\ \A k \in 0..m : h[k] = g[k]
      BY <1>0, <3>1
    <3>5. ASSUME NEW k \in 1..(m + 1) PROVE h[k] = F[k][h[k - 1]]
      <4>1. CASE k = m + 1
        <5>1. k - 1 = m /\ m \in 0..m
          BY <4>1
        <5> QED BY <4>1, <5>1, <3>3, <3>4
      <4>2. CASE k # m + 1
        <5>1. k \in 1..m /\ k \in 0..m /\ k - 1 \in 0..m
          BY <4>2
        <5>2. g[k] = F[k][g[k - 1]]
          BY <5>1, <3>1
        <5>3. h[k] = g[k] /\ h[k - 1] = g[k - 1]
          BY <5>1, <3>4
        <5> QED BY <5>2, <5>3
      <4> QED BY <4>1, <4>2
    <3> HIDE DEF h
    <3>6. P(m + 1, h)
      BY <3>4, <3>5
    <3> HIDE DEF P
    <3> QED BY <3>6
  <2> HIDE DEF P
  <2> QED BY <2>1
<1>3. Nat \subseteq T
  <2> HIDE DEF T
  <2> QED BY <1>1, <1>2, Induction
<1>4. \E g : P(n, g)
  <2> HIDE DEF P
  <2> QED BY <1>0, <1>3
<1> QED BY <1>4 DEF Iterated

-----------------------------------------------------------------------------
(* The least and the greatest of some numbers, and the first toa of hits.  *)

LEMMA LeastIs ==
    ASSUME NEW S \in SUBSET Int, NEW m \in S, \A k \in S : m <= k
    PROVE  Least(S) = m
<1>1. Least(S) \in S /\ \A k \in S : Least(S) <= k
  <2> DEFINE Smallest(x) == x \in S /\ \A k \in S : x <= k
  <2>1. Smallest(m)
    OBVIOUS
  <2> QED BY <2>1 DEF Least
<1>2. Least(S) \in Int /\ m \in Int
  BY <1>1
<1>3. m <= Least(S) /\ Least(S) <= m
  BY <1>1
<1> HIDE DEF Least
<1> QED BY <1>2, <1>3

LEMMA LeastIn ==
    ASSUME NEW S \in SUBSET Nat, S # {}
    PROVE  Least(S) \in S /\ \A k \in S : Least(S) <= k
<1>1. PICK m \in S : \A k \in S : m <= k
  BY LeastElement
<1>2. S \in SUBSET Int
  OBVIOUS
<1> QED BY <1>1, <1>2, LeastIs

LEMMA GreatestIs ==
    ASSUME NEW S \in SUBSET Int, NEW m \in S, \A k \in S : k <= m
    PROVE  Greatest(S) = m
<1>1. Greatest(S) \in S /\ \A k \in S : k <= Greatest(S)
  <2> DEFINE Largest(x) == x \in S /\ \A k \in S : k <= x
  <2>1. Largest(m)
    OBVIOUS
  <2> QED BY <2>1 DEF Greatest
<1>2. Greatest(S) \in Int /\ m \in Int
  BY <1>1
<1>3. m <= Greatest(S) /\ Greatest(S) <= m
  BY <1>1
<1> HIDE DEF Greatest
<1> QED BY <1>2, <1>3

LEMMA GreatestIn ==
    ASSUME NEW n \in Nat, NEW S \in SUBSET (0..n), S # {}
    PROVE  Greatest(S) \in S /\ \A k \in S : k <= Greatest(S)
<1> DEFINE T == {n - k : k \in S}
<1>1. T \in SUBSET Nat /\ T # {}
  <2>1. \A k \in S : n - k \in Nat
    OBVIOUS
  <2>2. PICK k \in S : TRUE
    OBVIOUS
  <2>3. n - k \in T
    BY <2>2
  <2> QED BY <2>1, <2>3
<1>2. PICK t \in T : \A u \in T : t <= u
  <2> HIDE DEF T
  <2> QED BY <1>1, LeastElement
<1>3. PICK m \in S : t = n - m
  BY <1>2
<1>4. ASSUME NEW k \in S PROVE k <= m
  <2>1. n - k \in T
    OBVIOUS
  <2>2. n - m <= n - k
    BY <1>2, <1>3, <2>1
  <2>3. k \in Int /\ m \in Int
    OBVIOUS
  <2> QED BY ONLY <2>2, <2>3, n \in Nat
<1>5. Greatest(S) = m
  <2>1. S \in SUBSET Int
    OBVIOUS
  <2> QED BY <1>4, <2>1, GreatestIs
<1> QED BY <1>4, <1>5

\* Of two numbers.
LEMMA Pairs ==
    ASSUME NEW a \in Int, NEW b \in Int
    PROVE  /\ Least({a, b}) = (IF a <= b THEN a ELSE b)
           /\ Greatest({a, b}) = (IF a <= b THEN b ELSE a)
<1>1. {a, b} \in SUBSET Int
  OBVIOUS
<1>2. CASE a <= b
  <2>1. \A k \in {a, b} : a <= k /\ k <= b
    BY <1>2
  <2> QED BY <1>1, <1>2, <2>1, LeastIs, GreatestIs
<1>3. CASE ~(a <= b)
  <2>1. \A k \in {a, b} : b <= k /\ k <= a
    BY <1>3
  <2> QED BY <1>1, <1>3, <2>1, LeastIs, GreatestIs
<1> QED BY <1>2, <1>3

LEMMA FirstIs ==
    ASSUME NEW c \in SUBSET Hit, NEW g \in c, \A h \in c : g.toa <= h.toa
    PROVE  FirstToa(c) = g.toa
<1> DEFINE T == {h.toa : h \in c}
           Earliest(t) == t \in T /\ \A h \in c : t <= h.toa
<1>1. \A h \in c : h.toa \in Nat
  BY DEF Hit
<1>2. Earliest(g.toa)
  OBVIOUS
<1>3. Earliest(FirstToa(c))
  BY <1>2 DEF FirstToa
<1>4. PICK f \in c : FirstToa(c) = f.toa
  BY <1>3
<1>5. f.toa <= g.toa /\ g.toa <= f.toa /\ f.toa \in Nat /\ g.toa \in Nat
  BY <1>1, <1>3, <1>4
<1> QED BY ONLY <1>4, <1>5

LEMMA FirstIn ==
    ASSUME NEW c \in SUBSET Hit, c # {}
    PROVE  \E g \in c : FirstToa(c) = g.toa /\ \A h \in c : g.toa <= h.toa
<1> DEFINE T == {h.toa : h \in c}
<1>1. T \in SUBSET Nat /\ T # {}
  BY DEF Hit
<1>2. PICK t \in T : \A u \in T : t <= u
  <2> HIDE DEF T
  <2> QED BY <1>1, LeastElement
<1>3. PICK g \in c : t = g.toa
  BY <1>2
<1>4. \A h \in c : g.toa <= h.toa
  BY <1>2, <1>3
<1> QED BY <1>4, FirstIs

LEMMA RangeOfCluster ==
    ASSUME NEW c \in Cluster
    PROVE  /\ Range(c) \in SUBSET Hit /\ Range(c) # {}
           /\ Len(c) \in Nat \ {0} /\ DOMAIN c = 1..Len(c)
<1>1. c \in Seq(Hit) /\ c # <<>>
  BY DEF Cluster
<1>2. DOMAIN c = 1..Len(c) /\ Len(c) \in Nat /\ Len(c) # 0
  BY <1>1
<1>3. 1 \in DOMAIN c /\ \A i \in DOMAIN c : c[i] \in Hit
  BY <1>1, <1>2
<1> QED BY <1>2, <1>3 DEF Range

LEMMA FirstOfIn ==
    ASSUME NEW c \in Cluster
    PROVE  /\ FirstOf(c) \in Nat
           /\ \E g \in Range(c) : FirstOf(c) = g.toa
           /\ \A h \in Range(c) : FirstOf(c) <= h.toa
<1>1. PICK g \in Range(c) : FirstToa(Range(c)) = g.toa /\ \A h \in Range(c) : g.toa <= h.toa
  BY RangeOfCluster, FirstIn
<1>2. g \in Hit
  BY RangeOfCluster
<1> QED BY <1>1, <1>2 DEF FirstOf, Hit

\* A finite number of hits has a last toa.
LEMMA LastOfIn ==
    ASSUME NEW c \in Cluster
    PROVE  LastOf(c) \in Nat
<1>1. Range(c) \in SUBSET Hit /\ Len(c) \in Nat \ {0} /\ DOMAIN c = 1..Len(c)
      /\ \A i \in 1..Len(c) : c[i] \in Range(c) /\ c[i].toa \in Nat
  BY RangeOfCluster DEF Hit, Range
<1> DEFINE AsLate(i, m) == \A j \in 1..m : c[j].toa <= c[i].toa
           N == {n \in Nat : n + 1 <= Len(c) => \E i \in 1..(n + 1) : AsLate(i, n + 1)}
<1>2. 0 \in N
  <2>1. AsLate(1, 0 + 1) /\ 1 \in 1..(0 + 1)
    <3>1. \A j \in 1..(0 + 1) : j = 1
      OBVIOUS
    <3>2. c[1].toa \in Nat
      BY <1>1
    <3> QED BY <3>1, <3>2
  <2> HIDE DEF AsLate
  <2> QED BY <2>1
<1>3. ASSUME NEW n \in Nat, n \in N PROVE n + 1 \in N
  <2>0. SUFFICES ASSUME (n + 1) + 1 <= Len(c)
                 PROVE  \E i \in 1..((n + 1) + 1) : AsLate(i, (n + 1) + 1)
    <3> HIDE DEF AsLate
    <3> QED OBVIOUS
  <2>1. PICK i \in 1..(n + 1) : AsLate(i, n + 1)
    <3>1. n + 1 <= Len(c)
      BY <1>1, <2>0
    <3> HIDE DEF AsLate
    <3> QED BY <1>3, <3>1
  <2>2. PICK k : k = n + 2
    OBVIOUS
  <2>3. k \in 1..((n + 1) + 1) /\ \A j \in 1..((n + 1) + 1) : j \in 1..(n + 1) \/ j = k
    BY <2>2
  <2>4. k \in 1..Len(c) /\ i \in 1..Len(c) /\ 1..(n + 1) \subseteq 1..Len(c)
        /\ i \in 1..((n + 1) + 1)
    BY <1>1, <2>0, <2>2
  <2>5. \A j \in 1..((n + 1) + 1) : c[j].toa \in Nat
    BY <1>1, <2>3, <2>4
  <2>6. CASE c[i].toa <= c[k].toa
    <3>1. \A j \in 1..((n + 1) + 1) : c[j].toa <= c[k].toa
      BY <2>1, <2>3, <2>4, <2>5, <2>6
    <3>2. AsLate(k, (n + 1) + 1)
      BY <3>1
    <3> HIDE DEF AsLate
    <3> QED BY <2>3, <3>2
  <2>7. CASE ~(c[i].toa <= c[k].toa)
    <3>1. c[k].toa <= c[i].toa
      BY <2>3, <2>4, <2>5, <2>7
    <3>2. AsLate(i, (n + 1) + 1)
      BY <2>1, <2>3, <3>1
    <3> HIDE DEF AsLate
    <3> QED BY <2>4, <3>2
  <2> QED BY <2>6, <2>7
<1>4. Nat \subseteq N
  <2> HIDE DEF N
  <2> QED BY <1>2, <1>3, Induction
<1>5. Len(c) - 1 \in Nat /\ (Len(c) - 1) + 1 = Len(c)
  BY <1>1
<1>6. PICK i \in 1..Len(c) : \A j \in 1..Len(c) : c[j].toa <= c[i].toa
  <2>1. Len(c) - 1 \in N
    BY <1>4, <1>5
  <2>2. \E i \in 1..Len(c) : AsLate(i, Len(c))
    <3> HIDE DEF AsLate
    <3> QED BY <1>1, <1>5, <2>1
  <2> QED BY <2>2
<1> DEFINE T == {h.toa : h \in Range(c)}
           Latest(t) == t \in T /\ \A h \in Range(c) : h.toa <= t
<1>7. \A h \in Range(c) : h.toa <= c[i].toa
  BY <1>1, <1>6 DEF Range
<1>8. Latest(c[i].toa)
  BY <1>1, <1>6, <1>7
<1>9. Latest(LastOf(c))
  BY <1>8 DEF LastOf, LastToa
<1> QED BY <1>1, <1>9 DEF Hit

-----------------------------------------------------------------------------
(* The elements of a sequence at some of its places.                       *)

Keeps(s, P, n, before) == IF n \in P THEN Append(before, s[n]) ELSE before

LEMMA KeptStepwise ==
    ASSUME NEW T, NEW s \in Seq(T), NEW P
    PROVE  \E g : /\ g[0] = <<>>
                  /\ \A n \in 1..Len(s) : g[n] = Keeps(s, P, n, g[n - 1])
                  /\ Kept(s, P) = g[Len(s)]
<1> DEFINE Rule(g) == [n \in 0..Len(s) |-> IF n = 0 THEN <<>>
                                           ELSE IF n \in P THEN Append(g[n - 1], s[n]) ELSE g[n - 1]]
           kept == CHOOSE g : g = Rule(g)
           F == [n \in 1..Len(s) |-> [t \in Seq(T) |-> Keeps(s, P, n, t)]]
           a == <<>>
<1>1. Len(s) \in Nat /\ a \in Seq(T)
  OBVIOUS
<1>2. F \in [1..Len(s) -> [Seq(T) -> Seq(T)]]
  <2> SUFFICES ASSUME NEW n \in 1..Len(s), NEW t \in Seq(T)
               PROVE  Keeps(s, P, n, t) \in Seq(T)
    OBVIOUS
  <2>1. s[n] \in T
    OBVIOUS
  <2>2. Append(t, s[n]) \in Seq(T)
    BY <2>1
  <2> QED BY <2>2 DEF Keeps
<1>3. PICK g : Iterated(g, F, Seq(T), a, Len(s))
  <2>1. Iterable(F, Seq(T), a, Len(s))
    BY <1>1, <1>2 DEF Iterable
  <2> HIDE DEF F, a, kept
  <2> QED BY <2>1, Iterates
<1>4. g \in [0..Len(s) -> Seq(T)] /\ g[0] = a /\ \A n \in 1..Len(s) : g[n] = F[n][g[n - 1]]
  <2> HIDE DEF F, a
  <2> QED BY <1>3 DEF Iterated
<1>5. g = Rule(g)
  <2>1. \A n \in 0..Len(s) : g[n] = IF n = 0 THEN <<>> ELSE Keeps(s, P, n, g[n - 1])
    <3> SUFFICES ASSUME NEW n \in 1..Len(s) PROVE g[n] = Keeps(s, P, n, g[n - 1])
      <4>1. \A n \in 0..Len(s) : n = 0 \/ n \in 1..Len(s)
        OBVIOUS
      <4>2. 0 \notin 1..Len(s)
        OBVIOUS
      <4> QED BY <1>4, <4>1, <4>2
    <3>1. g[n] = F[n][g[n - 1]]
      <4> HIDE DEF F, a
      <4> QED BY <1>4
    <3>2. PICK t \in Seq(T) : t = g[n - 1]
      <4> HIDE DEF F, a
      <4>1. n - 1 \in 0..Len(s)
        OBVIOUS
      <4> QED BY <1>4, <4>1
    <3>3. F[n][t] = Keeps(s, P, n, t)
      BY <3>2
    <3> HIDE DEF F
    <3> QED BY <3>1, <3>2, <3>3
  <2> QED BY <2>1, <1>4 DEF Keeps
<1>6. kept = Rule(kept)
  BY <1>5
<1>7. kept[0] = <<>> /\ \A n \in 1..Len(s) : kept[n] = Keeps(s, P, n, kept[n - 1])
  <2> HIDE DEF kept
  <2>1. \A n \in 0..Len(s) : kept[n] = IF n = 0 THEN <<>> ELSE Keeps(s, P, n, kept[n - 1])
    BY <1>6 DEF Keeps
  <2>2. 0 \in 0..Len(s) /\ \A n \in 1..Len(s) : n \in 0..Len(s) /\ n # 0
    BY <1>1
  <2> QED BY <2>1, <2>2
<1>8. Kept(s, P) = kept[Len(s)]
  BY DEF Kept
<1> QED BY <1>7, <1>8

\* Which element of a kept sequence k comes from which place of the first n of s:
\* at is increasing, and passes every place that is to be kept.
KeptAt(k, s, P, n, at) ==
    /\ at \in [1..Len(k) -> (1..n) \cap P]
    /\ \A i \in 1..Len(k) : k[i] = s[at[i]]
    /\ \A i, j \in 1..Len(k) : i < j => at[i] < at[j]
    /\ \A p \in (1..n) \cap P : \E i \in 1..Len(k) : at[i] = p

LEMMA KeptAtNext ==
    ASSUME NEW T, NEW s \in Seq(T), NEW P, NEW n \in Nat, n + 1 <= Len(s),
           NEW k \in Seq(T), NEW at, KeptAt(k, s, P, n, at)
    PROVE  LET l == Keeps(s, P, n + 1, k)
           IN  l \in Seq(T) /\ \E new : KeptAt(l, s, P, n + 1, new)
<1> DEFINE q == n + 1
           l == Keeps(s, P, q, k)
<1>1. /\ at \in [1..Len(k) -> (1..n) \cap P]
      /\ \A i \in 1..Len(k) : k[i] = s[at[i]]
      /\ \A i, j \in 1..Len(k) : i < j => at[i] < at[j]
      /\ \A p \in (1..n) \cap P : \E i \in 1..Len(k) : at[i] = p
  BY DEF KeptAt
<1>2. q \in 1..Len(s) /\ s[q] \in T /\ Len(k) \in Nat
  OBVIOUS
<1>3. \A p \in 1..q : p \in 1..n \/ p = q
  OBVIOUS
<1>4. 1..n \subseteq 1..q /\ q \in 1..q /\ \A p \in 1..n : p < q
  OBVIOUS
<1>5. CASE q \in P
  <2>1. l = Append(k, s[q]) /\ l \in Seq(T)
    BY <1>2, <1>5 DEF Keeps
  <2> DEFINE new == [i \in 1..(Len(k) + 1) |-> IF i = Len(k) + 1 THEN q ELSE at[i]]
  <2>2. /\ Len(l) = Len(k) + 1 /\ l[Len(k) + 1] = s[q]
        /\ \A i \in 1..Len(k) : l[i] = k[i]
    BY <1>2, <2>1
  <2>3. \A i \in 1..(Len(k) + 1) : i \in 1..Len(k) \/ i = Len(k) + 1
    BY <1>2
  <2>4. Len(k) + 1 \in 1..(Len(k) + 1) /\ \A i \in 1..Len(k) : i # Len(k) + 1 /\ i \in 1..(Len(k) + 1)
    BY <1>2
  <2>5. /\ new[Len(k) + 1] = q /\ \A i \in 1..Len(k) : new[i] = at[i]
        /\ DOMAIN new = 1..(Len(k) + 1) /\ new = [i \in 1..(Len(k) + 1) |-> new[i]]
    BY <2>4
  <2> HIDE DEF new, l, q
  <2>6. new \in [1..Len(l) -> (1..q) \cap P]
    <3>1. \A i \in 1..(Len(k) + 1) : new[i] \in (1..q) \cap P
      BY <1>1, <1>4, <1>5, <2>3, <2>5
    <3> QED BY <2>2, <2>5, <3>1
  <2>7. \A i \in 1..Len(l) : l[i] = s[new[i]]
    BY <1>1, <2>2, <2>3, <2>5
  <2>8. ASSUME NEW i \in 1..Len(l), NEW j \in 1..Len(l), i < j PROVE new[i] < new[j]
    <3>1. i \in 1..Len(k)
      BY <1>2, <2>2, <2>8
    <3>2. CASE j \in 1..Len(k)
      BY <1>1, <2>5, <2>8, <3>1, <3>2
    <3>3. CASE j = Len(k) + 1
      <4>1. at[i] \in 1..n
        BY <1>1, <3>1
      <4> QED BY <1>4, <2>5, <3>1, <3>3, <4>1
    <3> QED BY <2>2, <2>3, <3>2, <3>3
  <2>9. \A p \in (1..q) \cap P : \E i \in 1..Len(l) : new[i] = p
    <3> SUFFICES ASSUME NEW p \in (1..q) \cap P PROVE \E i \in 1..Len(l) : new[i] = p
      OBVIOUS
    <3>1. CASE p = q
      BY <2>2, <2>4, <2>5, <3>1
    <3>2. CASE p \in 1..n
      <4>1. PICK i \in 1..Len(k) : at[i] = p
        BY <1>1, <3>2
      <4> QED BY <2>2, <2>4, <2>5, <4>1
    <3> QED BY <1>3, <3>1, <3>2
  <2>10. KeptAt(l, s, P, q, new)
    BY <2>6, <2>7, <2>8, <2>9 DEF KeptAt
  <2> QED BY <2>1, <2>10 DEF l, q
<1>6. CASE q \notin P
  <2>1. l = k
    BY <1>6 DEF Keeps
  <2>2. (1..q) \cap P = (1..n) \cap P
    BY <1>3, <1>4, <1>6
  <2> HIDE DEF q
  <2>3. KeptAt(k, s, P, q, at)
    BY <2>2 DEF KeptAt
  <2> QED BY <2>1, <2>3 DEF q
<1> QED BY <1>5, <1>6

LEMMA KeptPlaces ==
    ASSUME NEW T, NEW s \in Seq(T), NEW P
    PROVE  Kept(s, P) \in Seq(T) /\ \E at : KeptAt(Kept(s, P), s, P, Len(s), at)
<1>1. PICK g : /\ g[0] = <<>>
               /\ \A n \in 1..Len(s) : g[n] = Keeps(s, P, n, g[n - 1])
               /\ Kept(s, P) = g[Len(s)]
  BY KeptStepwise
<1> DEFINE N == {n \in Nat : n <= Len(s) => g[n] \in Seq(T) /\ \E at : KeptAt(g[n], s, P, n, at)}
<1>2. 0 \in N
  <2>1. <<>> \in Seq(T) /\ Len(<<>>) = 0 /\ 1..0 = {}
    OBVIOUS
  <2>2. KeptAt(<<>>, s, P, 0, <<>>)
    BY <2>1 DEF KeptAt
  <2> QED BY <1>1, <2>1, <2>2
<1>3. ASSUME NEW n \in Nat, n \in N PROVE n + 1 \in N
  <2> SUFFICES ASSUME n + 1 <= Len(s)
               PROVE  g[n + 1] \in Seq(T) /\ \E at : KeptAt(g[n + 1], s, P, n + 1, at)
    OBVIOUS
  <2>1. PICK k \in Seq(T) : k = g[n]
    BY <1>3
  <2>2. PICK at : KeptAt(k, s, P, n, at)
    BY <1>3, <2>1
  <2>3. n + 1 \in 1..Len(s) /\ (n + 1) - 1 = n
    OBVIOUS
  <2>4. g[n + 1] = Keeps(s, P, n + 1, k)
    BY <1>1, <2>1, <2>3
  <2> HIDE DEF N
  <2> QED BY <2>2, <2>4, KeptAtNext
<1>4. Nat \subseteq N
  <2> HIDE DEF N
  <2> QED BY <1>2, <1>3, Induction
<1>5. Len(s) \in N
  <2> HIDE DEF N
  <2> QED BY <1>4
<1> QED BY <1>1, <1>5

-----------------------------------------------------------------------------
(* What is said of clusters o[i]: their hits; that none of those is in two *)
(* of them, or in one twice; that they are in the order of their firsts.   *)

HitsIn(o) == UNION {Range(o[i]) : i \in DOMAIN o}

SameHit(o, i, j, k, l) == k \in DOMAIN o[i] /\ l \in DOMAIN o[j] /\ o[i][k] = o[j][l]

OnceAt(o, P) == \A i, j \in P : \A k, l : SameHit(o, i, j, k, l) => i = j /\ k = l

FirstsSortedAt(o, P) == \A i, j \in P : i <= j => FirstOf(o[i]) <= FirstOf(o[j])

Once(o) == OnceAt(o, DOMAIN o)

FirstsSorted(o) == FirstsSortedAt(o, DOMAIN o)

LEMMA KeptClusters ==
    ASSUME NEW s \in Seq(Cluster), NEW P \in SUBSET DOMAIN s
    PROVE  /\ Kept(s, P) \in Seq(Cluster)
           /\ HitsIn(Kept(s, P)) = UNION {Range(s[p]) : p \in P}
           /\ Range(Kept(s, P)) = {s[p] : p \in P}
           /\ OnceAt(s, P) => Once(Kept(s, P))
           /\ FirstsSortedAt(s, P) => FirstsSorted(Kept(s, P))
<1>1. PICK k, at : k = Kept(s, P) /\ k \in Seq(Cluster) /\ KeptAt(k, s, P, Len(s), at)
  BY KeptPlaces
<1>2. /\ at \in [1..Len(k) -> (1..Len(s)) \cap P]
      /\ \A i \in 1..Len(k) : k[i] = s[at[i]]
      /\ \A i, j \in 1..Len(k) : i < j => at[i] < at[j]
      /\ \A p \in (1..Len(s)) \cap P : \E i \in 1..Len(k) : at[i] = p
  BY <1>1 DEF KeptAt
<1>3. DOMAIN k = 1..Len(k) /\ Len(k) \in Nat /\ DOMAIN s = 1..Len(s) /\ (1..Len(s)) \cap P = P
      /\ P \in SUBSET Nat
  BY <1>1
<1>4. \A i \in DOMAIN k : at[i] \in P /\ k[i] = s[at[i]]
  BY <1>2, <1>3
<1>5. \A p \in P : \E i \in DOMAIN k : p = at[i]
  BY <1>2, <1>3
<1>6. \A i, j \in DOMAIN k : i # j => at[i] # at[j]
  <2> SUFFICES ASSUME NEW i \in DOMAIN k, NEW j \in DOMAIN k, i # j, at[i] = at[j] PROVE FALSE
    OBVIOUS
  <2>1. i < j \/ j < i
    BY <1>3
  <2>2. at[i] \in Nat /\ at[j] \in Nat
    BY <1>3, <1>4
  <2> QED BY <1>2, <1>3, <2>1, <2>2
<1>7. \A i, j \in DOMAIN k : i <= j => at[i] <= at[j]
  <2> SUFFICES ASSUME NEW i \in DOMAIN k, NEW j \in DOMAIN k, i <= j PROVE at[i] <= at[j]
    OBVIOUS
  <2>1. i < j \/ i = j
    BY <1>3
  <2>2. at[i] \in Nat /\ at[j] \in Nat
    BY <1>3, <1>4
  <2> QED BY <1>2, <1>3, <2>1, <2>2
<1>8. HitsIn(k) = UNION {Range(s[p]) : p \in P}
  BY <1>4, <1>5 DEF HitsIn
<1>9. Range(k) = {s[p] : p \in P}
  BY <1>4, <1>5 DEF Range
<1>10. ASSUME OnceAt(s, P) PROVE Once(k)
  <2> SUFFICES ASSUME NEW i \in DOMAIN k, NEW j \in DOMAIN k, NEW m, NEW l, SameHit(k, i, j, m, l)
               PROVE  i = j /\ m = l
    BY DEF Once, OnceAt
  <2>1. SameHit(s, at[i], at[j], m, l)
    BY <1>4 DEF SameHit
  <2>2. at[i] = at[j] /\ m = l
    BY <1>4, <1>10, <2>1 DEF OnceAt
  <2> QED BY <1>6, <2>2
<1>11. ASSUME FirstsSortedAt(s, P) PROVE FirstsSorted(k)
  BY <1>4, <1>7, <1>11 DEF FirstsSorted, FirstsSortedAt
<1> QED BY <1>1, <1>8, <1>9, <1>10, <1>11

\* The same of the entries that are written.
HitsOf(d) == [i \in DOMAIN d |-> d[i].hits]

ValidIn(d) == {i \in DOMAIN d : d[i].valid}

Held(d) == UNION {Range(d[i].hits) : i \in ValidIn(d)}

LEMMA WaitsFacts ==
    ASSUME NEW e \in Waits
    PROVE  /\ e.hits \in Cluster /\ e.first \in Int /\ e.last \in Int /\ e.box \in Boxes
           /\ e.border \in BOOLEAN /\ e.offset \in Nat \ {0} /\ e.valid \in BOOLEAN
BY DEF Waits

LEMMA WrittenClusters ==
    ASSUME NEW d \in Seq(Waits)
    PROVE  /\ WrittenOf(d) \in Seq(Cluster)
           /\ HitsIn(WrittenOf(d)) = Held(d)
           /\ Range(WrittenOf(d)) = {d[i].hits : i \in ValidIn(d)}
           /\ OnceAt(HitsOf(d), ValidIn(d)) => Once(WrittenOf(d))
           /\ FirstsSortedAt(HitsOf(d), ValidIn(d)) => FirstsSorted(WrittenOf(d))
<1>1. PICK s : s = HitsOf(d)
  OBVIOUS
<1>2. \A i \in DOMAIN d : d[i].hits \in Cluster
  BY WaitsFacts
<1>3. s \in Seq(Cluster) /\ DOMAIN s = DOMAIN d /\ \A i \in DOMAIN d : s[i] = d[i].hits
  BY <1>1, <1>2 DEF HitsOf
<1>4. WrittenOf(d) = Kept(s, ValidIn(d)) /\ ValidIn(d) \in SUBSET DOMAIN s
  BY <1>1, <1>3 DEF WrittenOf, HitsOf, ValidIn
<1>5. UNION {Range(s[p]) : p \in ValidIn(d)} = Held(d)
  BY <1>3 DEF Held, ValidIn
<1>6. {s[p] : p \in ValidIn(d)} = {d[i].hits : i \in ValidIn(d)}
  BY <1>3 DEF ValidIn
<1> QED BY <1>1, <1>3, <1>4, <1>5, <1>6, KeptClusters

-----------------------------------------------------------------------------
(* A new border cluster merged with those found.                           *)

LEMMA MergeWithFacts ==
    ASSUME NEW a \in Waits, NEW b \in Waits
    PROVE  LET e == MergeWith(a, b)
           IN  /\ e \in Waits
               /\ e.hits = a.hits \o b.hits
               /\ e.first = IF a.first <= b.first THEN a.first ELSE b.first
               /\ e.border = a.border /\ e.offset = a.offset /\ e.valid = a.valid
<1> DEFINE e == MergeWith(a, b)
<1>1. /\ a.hits \in Cluster /\ b.hits \in Cluster
      /\ a.first \in Int /\ b.first \in Int /\ a.last \in Int /\ b.last \in Int
      /\ a.box \in Boxes /\ b.box \in Boxes
  BY WaitsFacts
<1>2. PICK h : h = a.hits \o b.hits
  OBVIOUS
<1>3. h \in Cluster
  <2>1. a.hits \in Seq(Hit) /\ b.hits \in Seq(Hit) /\ Len(a.hits) # 0
    BY <1>1, RangeOfCluster DEF Cluster
  <2>2. h \in Seq(Hit) /\ Len(h) = Len(a.hits) + Len(b.hits)
    BY <1>2, <2>1
  <2>3. Len(a.hits) \in Nat \ {0} /\ Len(b.hits) \in Nat \ {0}
    BY <1>1, RangeOfCluster
  <2>4. h # <<>>
    <3>1. PICK p \in Nat \ {0}, q \in Nat \ {0} : p = Len(a.hits) /\ q = Len(b.hits)
      BY <2>3
    <3>2. Len(h) = p + q /\ Len(<<>>) = 0
      BY <2>2, <3>1
    <3> QED BY ONLY <3>2
  <2> QED BY <2>2, <2>4 DEF Cluster
<1>4. PICK f : f = Least({a.first, b.first})
  OBVIOUS
<1>5. PICK l : l = Greatest({a.last, b.last})
  OBVIOUS
<1>6. f = (IF a.first <= b.first THEN a.first ELSE b.first) /\ f \in Int /\ l \in Int
  BY <1>1, <1>4, <1>5, Pairs
<1>7. PICK x : x = [left |-> Least({a.box.left, b.box.left}),
                    top |-> Least({a.box.top, b.box.top}),
                    right |-> Greatest({a.box.right, b.box.right}),
                    bottom |-> Greatest({a.box.bottom, b.box.bottom})]
  OBVIOUS
<1>8. x \in Boxes
  <2>1. a.box.left \in Int /\ b.box.left \in Int /\ a.box.top \in Int /\ b.box.top \in Int
        /\ a.box.right \in Int /\ b.box.right \in Int
        /\ a.box.bottom \in Int /\ b.box.bottom \in Int
    BY <1>1 DEF Boxes
  <2>2. /\ Least({a.box.left, b.box.left}) \in Int /\ Least({a.box.top, b.box.top}) \in Int
        /\ Greatest({a.box.right, b.box.right}) \in Int
        /\ Greatest({a.box.bottom, b.box.bottom}) \in Int
    BY <2>1, Pairs
  <2> QED BY <1>7, <2>2 DEF Boxes
<1>9. e = [hits |-> h, first |-> f, last |-> l, box |-> x,
           border |-> a.border, offset |-> a.offset, valid |-> a.valid]
  <2>1. a = [hits |-> a.hits, first |-> a.first, last |-> a.last, box |-> a.box,
             border |-> a.border, offset |-> a.offset, valid |-> a.valid]
    BY DEF Waits
  <2>2. e = [a EXCEPT !.hits = h, !.first = f, !.last = l, !.box = x]
    BY <1>2, <1>4, <1>5, <1>7 DEF MergeWith
  <2> HIDE DEF e
  <2> QED BY <2>1, <2>2
<1>10. e \in Waits
  <2>1. a.border \in BOOLEAN /\ a.offset \in Nat \ {0} /\ a.valid \in BOOLEAN
    BY WaitsFacts
  <2> HIDE DEF e
  <2> QED BY <1>3, <1>6, <1>8, <1>9, <2>1 DEF Waits
<1> QED
  <2> HIDE DEF e
  <2>1. /\ e.hits = h /\ e.first = f
        /\ e.border = a.border /\ e.offset = a.offset /\ e.valid = a.valid
    BY <1>9
  <2>2. /\ e \in Waits /\ e.hits = a.hits \o b.hits
        /\ e.first = IF a.first <= b.first THEN a.first ELSE b.first
        /\ e.border = a.border /\ e.offset = a.offset /\ e.valid = a.valid
    BY <1>2, <1>6, <1>10, <2>1
  <2> QED BY <2>2 DEF e

\* One more of the found entries, from the latest to the second.
MergesAt(d, found, n, e) ==
    IF Len(d) + 1 - n \in found \ {Least(found)} THEN MergeWith(e, d[Len(d) + 1 - n]) ELSE e

Merging(d, new, found) ==
    /\ d \in Seq(Waits) /\ new \in Waits
    /\ found \in SUBSET DOMAIN d /\ found # {}

LEMMA MergedStepwise ==
    ASSUME NEW d, NEW new, NEW found, Merging(d, new, found)
    PROVE  \E g : /\ g[0] = MergeWith(d[Least(found)], new)
                  /\ \A n \in 1..Len(d) : g[n] = MergesAt(d, found, n, g[n - 1])
                  /\ MergedEntry(d, new, found) = g[Len(d)]
                  /\ g \in [0..Len(d) -> Waits]
<1>0. d \in Seq(Waits) /\ new \in Waits /\ found \in SUBSET DOMAIN d /\ found # {}
      /\ Least(found) \in DOMAIN d
  <2>1. d \in Seq(Waits) /\ new \in Waits /\ found \in SUBSET DOMAIN d /\ found # {}
    BY DEF Merging
  <2>2. found \in SUBSET Nat
    BY <2>1
  <2> QED BY <2>1, <2>2, LeastIn
<1> DEFINE Rule(g) ==
             [n \in 0..Len(d) |->
                IF n = 0 THEN MergeWith(d[Least(found)], new)
                ELSE LET i == Len(d) + 1 - n
                     IN  IF i \in found \ {Least(found)} THEN MergeWith(g[n - 1], d[i])
                         ELSE g[n - 1]]
           merged == CHOOSE g : g = Rule(g)
           F == [n \in 1..Len(d) |-> [e \in Waits |-> MergesAt(d, found, n, e)]]
           a == MergeWith(d[Least(found)], new)
<1>1. Len(d) \in Nat /\ a \in Waits
  <2>1. PICK b \in Waits : b = d[Least(found)]
    BY <1>0
  <2>2. MergeWith(b, new) \in Waits
    BY <1>0, MergeWithFacts
  <2> QED BY <1>0, <2>1, <2>2
<1>2. F \in [1..Len(d) -> [Waits -> Waits]]
  <2> SUFFICES ASSUME NEW n \in 1..Len(d), NEW e \in Waits
               PROVE  MergesAt(d, found, n, e) \in Waits
    OBVIOUS
  <2>1. PICK i : i = Len(d) + 1 - n
    OBVIOUS
  <2>2. d[i] \in Waits
    <3>1. i \in 1..Len(d)
      BY <1>1, <2>1
    <3> QED BY <1>0, <3>1
  <2>3. MergeWith(e, d[i]) \in Waits
    BY <2>2, MergeWithFacts
  <2> QED BY <2>1, <2>3 DEF MergesAt
<1>3. PICK g : Iterated(g, F, Waits, a, Len(d))
  <2>1. Iterable(F, Waits, a, Len(d))
    BY <1>1, <1>2 DEF Iterable
  <2> HIDE DEF F, a, merged
  <2> QED BY <2>1, Iterates
<1>4. g \in [0..Len(d) -> Waits] /\ g[0] = a /\ \A n \in 1..Len(d) : g[n] = F[n][g[n - 1]]
  <2> HIDE DEF F, a
  <2> QED BY <1>3 DEF Iterated
<1>5. \A n \in 1..Len(d) : g[n] = MergesAt(d, found, n, g[n - 1])
  <2> SUFFICES ASSUME NEW n \in 1..Len(d) PROVE g[n] = MergesAt(d, found, n, g[n - 1])
    OBVIOUS
  <2>1. g[n] = F[n][g[n - 1]]
    <3> HIDE DEF F, a
    <3> QED BY <1>4
  <2>2. PICK e \in Waits : e = g[n - 1]
    <3> HIDE DEF F, a
    <3>1. n - 1 \in 0..Len(d)
      BY <1>1
    <3> QED BY <1>4, <3>1
  <2>3. F[n][e] = MergesAt(d, found, n, e)
    BY <2>2
  <2> HIDE DEF F
  <2> QED BY <2>1, <2>2, <2>3
<1>6. g = Rule(g)
  <2>1. \A n \in 0..Len(d) : n = 0 \/ n \in 1..Len(d)
    BY <1>1
  <2>2. 0 \notin 1..Len(d)
    BY <1>1
  <2>3. \A n \in 0..Len(d) :
           g[n] = IF n = 0 THEN MergeWith(d[Least(found)], new) ELSE MergesAt(d, found, n, g[n - 1])
    BY <1>4, <1>5, <2>1, <2>2
  <2> QED BY <1>4, <2>3 DEF MergesAt
<1>7. merged = Rule(merged)
  BY <1>6
<1>8. merged[0] = a /\ \A n \in 1..Len(d) : merged[n] = MergesAt(d, found, n, merged[n - 1])
  <2> HIDE DEF merged
  <2>1. \A n \in 0..Len(d) :
           merged[n] = IF n = 0 THEN a ELSE MergesAt(d, found, n, merged[n - 1])
    BY <1>7 DEF MergesAt
  <2>2. 0 \in 0..Len(d) /\ \A n \in 1..Len(d) : n \in 0..Len(d) /\ n # 0
    BY <1>1
  <2> QED BY <2>1, <2>2
<1>9. MergedEntry(d, new, found) = merged[Len(d)]
  BY DEF MergedEntry
<1>10. merged \in [0..Len(d) -> Waits]
  <2> DEFINE N == {n \in Nat : n <= Len(d) => merged[n] \in Waits}
  <2> HIDE DEF merged
  <2>1. 0 \in N
    BY <1>1, <1>8
  <2>2. ASSUME NEW n \in Nat, n \in N PROVE n + 1 \in N
    <3> SUFFICES ASSUME n + 1 <= Len(d) PROVE merged[n + 1] \in Waits
      OBVIOUS
    <3>1. n <= Len(d) /\ n + 1 \in 1..Len(d) /\ (n + 1) - 1 = n
      BY <1>1
    <3>2. PICK e \in Waits : e = merged[n]
      BY <2>2, <3>1
    <3>3. PICK i : i = Len(d) + 1 - (n + 1)
      OBVIOUS
    <3>4. d[i] \in Waits
      <4>1. i \in 1..Len(d)
        BY <1>1, <3>1, <3>3
      <4> QED BY <1>0, <4>1
    <3>5. MergeWith(e, d[i]) \in Waits
      BY <3>4, MergeWithFacts
    <3>6. merged[n + 1] = MergesAt(d, found, n + 1, e)
      BY <1>8, <3>1, <3>2
    <3> QED BY <3>3, <3>5, <3>6 DEF MergesAt
  <2>3. Nat \subseteq N
    <3> HIDE DEF N
    <3> QED BY <2>1, <2>2, Induction
  <2>4. \A n \in 0..Len(d) : merged[n] \in Waits
    BY <1>1, <2>3
  <2>5. DOMAIN merged = 0..Len(d) /\ merged = [n \in 0..Len(d) |-> merged[n]]
    BY <1>7
  <2> QED BY <2>4, <2>5
<1> QED BY <1>8, <1>9, <1>10

\* A rule for what is true of the merged entry: it is in a set Q[0] at first and in
\* Q[n] after n entries were looked at.
Keeping(d, new, found, Q) ==
    /\ MergeWith(d[Least(found)], new) \in Q[0]
    /\ \A n \in 1..Len(d) : \A e \in Q[n - 1] \cap Waits : MergesAt(d, found, n, e) \in Q[n]

LEMMA MergedIn ==
    ASSUME NEW d, NEW new, NEW found, NEW Q,
           Merging(d, new, found), Keeping(d, new, found, Q)
    PROVE  MergedEntry(d, new, found) \in Q[Len(d)] \cap Waits
<1>1. PICK g : /\ g[0] = MergeWith(d[Least(found)], new)
               /\ \A n \in 1..Len(d) : g[n] = MergesAt(d, found, n, g[n - 1])
               /\ MergedEntry(d, new, found) = g[Len(d)]
               /\ g \in [0..Len(d) -> Waits]
  BY MergedStepwise
<1>2. Len(d) \in Nat
  BY DEF Merging
<1>3. /\ MergeWith(d[Least(found)], new) \in Q[0]
      /\ \A n \in 1..Len(d) : \A e \in Q[n - 1] \cap Waits : MergesAt(d, found, n, e) \in Q[n]
  BY DEF Keeping
<1> DEFINE N == {n \in Nat : n <= Len(d) => g[n] \in Q[n]}
<1>4. 0 \in N
  BY <1>1, <1>3
<1>5. ASSUME NEW n \in Nat, n \in N PROVE n + 1 \in N
  <2> SUFFICES ASSUME n + 1 <= Len(d) PROVE g[n + 1] \in Q[n + 1]
    OBVIOUS
  <2>1. n <= Len(d) /\ n \in 0..Len(d) /\ n + 1 \in 1..Len(d) /\ (n + 1) - 1 = n
    BY <1>2
  <2>2. PICK e : e = g[n]
    OBVIOUS
  <2>3. e \in Q[n] \cap Waits
    BY <1>1, <1>5, <2>1, <2>2
  <2>4. MergesAt(d, found, n + 1, e) \in Q[n + 1]
    BY <1>3, <2>1, <2>3
  <2> QED BY <1>1, <2>1, <2>2, <2>4
<1>6. Nat \subseteq N
  <2> HIDE DEF N
  <2> QED BY <1>4, <1>5, Induction
<1>7. Len(d) \in N /\ Len(d) \in 0..Len(d)
  BY <1>2, <1>6
<1> QED BY <1>1, <1>2, <1>7

-----------------------------------------------------------------------------
(* The places a search from the end of the deque visits.                   *)

Back(i, n) == IF n < i THEN i - n ELSE 0

Before(d, i) == IF i = 0 THEN 0 ELSE Back(i, d[i].offset)

LEMMA BackFacts ==
    ASSUME NEW d \in Seq(Waits)
    PROVE  /\ \A off \in Nat \ {0} : Back(Len(d) + 1, off) \in 0..Len(d)
           /\ \A i \in 0..Len(d) : Before(d, i) \in 0..Len(d)
           /\ \A i \in 1..Len(d) : Before(d, i) < i
<1>1. \A off \in Nat \ {0} : Back(Len(d) + 1, off) \in 0..Len(d)
  BY DEF Back
<1>2. ASSUME NEW i \in 1..Len(d) PROVE Before(d, i) \in 0..Len(d) /\ Before(d, i) < i
  <2>1. PICK n \in Nat \ {0} : n = d[i].offset
    BY WaitsFacts
  <2>2. Back(i, n) \in 0..Len(d) /\ Back(i, n) < i
    BY DEF Back
  <2> QED BY <2>1, <2>2 DEF Before
<1>3. 0 \in 0..Len(d) /\ Before(d, 0) = 0 /\ \A i \in 0..Len(d) : i = 0 \/ i \in 1..Len(d)
  BY DEF Before
<1> QED BY <1>1, <1>2, <1>3

LEMMA ChainStepwise ==
    ASSUME NEW d \in Seq(Waits), NEW off \in Nat \ {0}
    PROVE  \E g : /\ g \in [0..Len(d) -> 0..Len(d)]
                  /\ g[0] = Back(Len(d) + 1, off)
                  /\ \A n \in 1..Len(d) : g[n] = Before(d, g[n - 1])
                  /\ Chain(d, off) = {g[n] : n \in 0..Len(d)} \ {0}
<1> DEFINE back(i, n) == IF n < i THEN i - n ELSE 0
           Rule(g) == [n \in 0..Len(d) |->
                         IF n = 0 THEN back(Len(d) + 1, off)
                         ELSE LET i == g[n - 1]
                              IN  IF i = 0 THEN 0 ELSE back(i, d[i].offset)]
           place == CHOOSE g : g = Rule(g)
           S == 0..Len(d)
           F == [n \in 1..Len(d) |-> [i \in S |-> Before(d, i)]]
           a == Back(Len(d) + 1, off)
<1>1. Len(d) \in Nat /\ a \in S /\ \A i \in S : Before(d, i) \in S
  BY BackFacts
<1>2. F \in [1..Len(d) -> [S -> S]]
  BY <1>1
<1>3. PICK g : Iterated(g, F, S, a, Len(d))
  <2>1. Iterable(F, S, a, Len(d))
    BY <1>1, <1>2 DEF Iterable
  <2> HIDE DEF F, a, S, place
  <2> QED BY <2>1, Iterates
<1>4. g \in [0..Len(d) -> S] /\ g[0] = a /\ \A n \in 1..Len(d) : g[n] = F[n][g[n - 1]]
  <2> HIDE DEF F, a, S
  <2> QED BY <1>3 DEF Iterated
<1>5. \A n \in 1..Len(d) : g[n] = Before(d, g[n - 1])
  <2> SUFFICES ASSUME NEW n \in 1..Len(d) PROVE g[n] = Before(d, g[n - 1])
    OBVIOUS
  <2>1. g[n] = F[n][g[n - 1]]
    <3> HIDE DEF F, a, S
    <3> QED BY <1>4
  <2>2. PICK i \in S : i = g[n - 1]
    <3> HIDE DEF F, a, S
    <3>1. n - 1 \in 0..Len(d)
      BY <1>1
    <3> QED BY <1>4, <3>1
  <2>3. F[n][i] = Before(d, i)
    BY <2>2
  <2> HIDE DEF F
  <2> QED BY <2>1, <2>2, <2>3
<1>6. g = Rule(g)
  <2>1. \A n \in 0..Len(d) : n = 0 \/ n \in 1..Len(d)
    BY <1>1
  <2>2. 0 \notin 1..Len(d)
    BY <1>1
  <2>3. \A n \in 0..Len(d) : g[n] = IF n = 0 THEN a ELSE Before(d, g[n - 1])
    BY <1>4, <1>5, <2>1, <2>2
  <2> QED BY <1>4, <2>3 DEF Before, Back
<1>7. place = Rule(place)
  BY <1>6
<1>8. place[0] = a /\ \A n \in 1..Len(d) : place[n] = Before(d, place[n - 1])
  <2> HIDE DEF place
  <2>1. \A n \in 0..Len(d) : place[n] = IF n = 0 THEN a ELSE Before(d, place[n - 1])
    BY <1>7 DEF Before, Back
  <2>2. 0 \in 0..Len(d) /\ \A n \in 1..Len(d) : n \in 0..Len(d) /\ n # 0
    BY <1>1
  <2> QED BY <2>1, <2>2
<1>9. Chain(d, off) = {place[n] : n \in 0..Len(d)} \ {0}
  BY DEF Chain
<1>10. place \in [0..Len(d) -> S]
  <2> DEFINE N == {n \in Nat : n <= Len(d) => place[n] \in S}
  <2> HIDE DEF place, S
  <2>1. 0 \in N
    BY <1>1, <1>8
  <2>2. ASSUME NEW n \in Nat, n \in N PROVE n + 1 \in N
    <3> SUFFICES ASSUME n + 1 <= Len(d) PROVE place[n + 1] \in S
      OBVIOUS
    <3>1. n <= Len(d) /\ n + 1 \in 1..Len(d) /\ (n + 1) - 1 = n
      BY <1>1
    <3> QED BY <1>1, <1>8, <2>2, <3>1
  <2>3. Nat \subseteq N
    <3> HIDE DEF N
    <3> QED BY <2>1, <2>2, Induction
  <2>4. \A n \in 0..Len(d) : place[n] \in S
    BY <1>1, <2>3
  <2>5. DOMAIN place = 0..Len(d) /\ place = [n \in 0..Len(d) |-> place[n]]
    BY <1>7
  <2> QED BY <2>4, <2>5
<1> QED BY <1>8, <1>9, <1>10

\* No border cluster is passed over: between an entry and the one its offset leads
\* to there are none, nor are there behind the place the search begins at.
SkipsNone(d, i, n) == \A j \in DOMAIN d : j < i /\ d[j].border => j + n <= i

Leads(d, off) ==
    /\ SkipsNone(d, Len(d) + 1, off)
    /\ \A i \in DOMAIN d : SkipsNone(d, i, d[i].offset)

LEMMA ChainReaches ==
    ASSUME NEW d \in Seq(Waits), NEW off \in Nat \ {0}, Leads(d, off)
    PROVE  /\ Chain(d, off) \in SUBSET DOMAIN d
           /\ {i \in DOMAIN d : d[i].border} \subseteq Chain(d, off)
<1>1. PICK g : /\ g \in [0..Len(d) -> 0..Len(d)]
               /\ g[0] = Back(Len(d) + 1, off)
               /\ \A n \in 1..Len(d) : g[n] = Before(d, g[n - 1])
               /\ Chain(d, off) = {g[n] : n \in 0..Len(d)} \ {0}
  BY ChainStepwise
<1>2. Len(d) \in Nat /\ DOMAIN d = 1..Len(d)
  OBVIOUS
<1>3. Chain(d, off) \in SUBSET DOMAIN d
  <2>1. \A n \in 0..Len(d) : g[n] \in 0..Len(d)
    BY <1>1
  <2>2. \A i \in 0..Len(d) : i # 0 => i \in DOMAIN d
    BY <1>2
  <2> QED BY <1>1, <2>1, <2>2
<1>4. ASSUME NEW b \in DOMAIN d, d[b].border PROVE b \in Chain(d, off)
  <2> DEFINE Met(n) == \E k \in 0..n : g[k] = b
             Ahead(n) == b < g[n] /\ g[n] <= Len(d) - n
             N == {n \in Nat : n <= Len(d) => Met(n) \/ Ahead(n)}
  <2>0. b \in 1..Len(d)
    BY <1>2
  <2>1. ASSUME NEW i \in Nat, NEW n \in Nat \ {0}, b < i, SkipsNone(d, i, n)
        PROVE  Back(i, n) = b \/ (b < Back(i, n) /\ Back(i, n) < i)
    <3>1. b + n <= i
      BY <1>4, <2>1 DEF SkipsNone
    <3> QED BY <2>0, <2>1, <3>1 DEF Back
  <2>2. 0 \in N
    <3>1. SkipsNone(d, Len(d) + 1, off) /\ Len(d) + 1 \in Nat /\ b < Len(d) + 1
      BY <1>2, <2>0 DEF Leads
    <3>2. PICK p : p = g[0]
      OBVIOUS
    <3>3. p = b \/ (b < p /\ p < Len(d) + 1)
      BY <1>1, <2>1, <3>1, <3>2
    <3>4. p \in 0..Len(d)
      BY <1>1, <1>2, <3>2
    <3>5. p = b \/ (b < p /\ p <= Len(d) - 0)
      BY <1>2, <3>3, <3>4
    <3>6. 0 \in 0..0
      OBVIOUS
    <3> QED BY <3>2, <3>5, <3>6
  <2>3. ASSUME NEW n \in Nat, n \in N PROVE n + 1 \in N
    <3> SUFFICES ASSUME n + 1 <= Len(d) PROVE Met(n + 1) \/ Ahead(n + 1)
      OBVIOUS
    <3>1. n <= Len(d) /\ n \in 0..Len(d) /\ n + 1 \in 0..Len(d) /\ n + 1 \in 1..Len(d)
          /\ (n + 1) - 1 = n /\ 0..n \subseteq 0..(n + 1) /\ n + 1 \in 0..(n + 1)
      BY <1>2
    <3>2. Met(n) \/ Ahead(n)
      BY <2>3, <3>1
    <3>3. CASE Met(n)
      BY <3>1, <3>3
    <3>4. CASE Ahead(n)
      <4>1. PICK i \in 0..Len(d) : i = g[n]
        BY <1>1, <3>1
      <4>2. PICK q \in 0..Len(d) : q = g[n + 1]
        BY <1>1, <3>1
      <4>3. b < i /\ i <= Len(d) - n
        BY <3>4, <4>1
      <4>4. i \in DOMAIN d /\ i \in Nat /\ i # 0
        BY <1>2, <2>0, <4>3
      <4>5. PICK o \in Nat \ {0} : o = d[i].offset
        BY <4>4, WaitsFacts
      <4>6. SkipsNone(d, i, o)
        BY <4>4, <4>5 DEF Leads
      <4>7. q = Back(i, o)
        <5>1. q = Before(d, i)
          BY <1>1, <3>1, <4>1, <4>2
        <5> QED BY <4>4, <4>5, <5>1 DEF Before
      <4>8. q = b \/ (b < q /\ q < i)
        BY <2>1, <4>3, <4>4, <4>6, <4>7
      <4>9. q = b \/ (b < q /\ q <= Len(d) - (n + 1))
        BY ONLY <4>8, <4>3, <1>2, n \in Nat, i \in 0..Len(d), q \in 0..Len(d)
      <4> QED BY <3>1, <4>2, <4>9
    <3> QED BY <3>2, <3>3, <3>4
  <2>4. Nat \subseteq N
    <3> HIDE DEF N
    <3> QED BY <2>2, <2>3, Induction
  <2>5. Met(Len(d)) \/ Ahead(Len(d))
    BY <1>2, <2>4
  <2>6. ~Ahead(Len(d))
    <3>1. PICK q \in 0..Len(d) : q = g[Len(d)]
      BY <1>1, <1>2
    <3>2. ~(b < q /\ q <= Len(d) - Len(d))
      BY <1>2, <2>0
    <3> QED BY <3>1, <3>2
  <2>7. PICK k \in 0..Len(d) : g[k] = b
    BY <2>5, <2>6
  <2>8. b # 0
    BY <2>0
  <2> QED BY <1>1, <2>7, <2>8
<1> QED BY <1>3, <1>4

-----------------------------------------------------------------------------
(* A deque after a cluster was placed in it.                               *)

LEMMA EntryFacts ==
    ASSUME NEW c \in Cluster, NEW off \in Nat \ {0}, NEW b \in BOOLEAN
    PROVE  LET e == Entry(c, off, b)
           IN  /\ e \in Waits
               /\ e.hits = c /\ e.first = FirstOf(c) /\ e.border = b
               /\ e.offset = off /\ e.valid
<1>1. Width \in Nat \ {0}
  BY SensorAssumption
<1>2. Box(c) \in Boxes
  <2> DEFINE xs == {h.x : h \in Range(c)}
             ys == {h.y : h \in Range(c)}
             down(n) == IF n = 0 THEN 0 ELSE n - 1
             up(n) == IF n = Width - 1 THEN n ELSE n + 1
  <2>1. PICK w \in Nat : w = Width - 1
    BY <1>1
  <2>2. xs \in SUBSET (0..w) /\ ys \in SUBSET (0..w) /\ xs # {} /\ ys # {}
    <3>1. \A h \in Range(c) : h.x \in 0..w /\ h.y \in 0..w
      BY <2>1, RangeOfCluster DEF Hit
    <3> QED BY <3>1, RangeOfCluster
  <2> HIDE DEF xs, ys
  <2>3. xs \in SUBSET Nat /\ ys \in SUBSET Nat
    BY <2>2
  <2>4. Least(xs) \in Nat /\ Least(ys) \in Nat
    BY <2>2, <2>3, LeastIn
  <2>5. Greatest(xs) \in Nat /\ Greatest(ys) \in Nat
    BY <2>2, <2>3, GreatestIn
  <2>6. \A n \in Nat : down(n) \in Int /\ up(n) \in Int
    OBVIOUS
  <2>7. Box(c) = [left |-> down(Least(xs)), top |-> down(Least(ys)),
                  right |-> up(Greatest(xs)), bottom |-> up(Greatest(ys))]
    BY DEF Box, xs, ys
  <2> HIDE DEF down, up
  <2> QED BY <2>4, <2>5, <2>6, <2>7 DEF Boxes
<1>3. NoBox \in Boxes
  BY <1>1 DEF NoBox, Boxes
<1>4. FirstOf(c) \in Int /\ LastOf(c) \in Int
  BY FirstOfIn, LastOfIn
<1>5. PICK x \in Boxes : x = IF b THEN Box(c) ELSE NoBox
  BY <1>2, <1>3
<1>6. Entry(c, off, b) = [hits |-> c, first |-> FirstOf(c), last |-> LastOf(c),
                          box |-> x, border |-> b, offset |-> off, valid |-> TRUE]
  BY <1>5 DEF Entry
<1> QED BY <1>4, <1>6 DEF Waits

\* The entries a new border cluster is merged with.
LEMMA FoundFacts ==
    ASSUME NEW d \in Seq(Waits), NEW off \in Nat \ {0}, Leads(d, off), NEW new, new.offset = off
    PROVE  /\ MergeIndices(d, new) \in SUBSET DOMAIN d
           /\ \A i \in MergeIndices(d, new) : d[i].valid /\ CanMerge(d[i], new)
<1>1. MergeIndices(d, new) \in SUBSET Chain(d, off)
      /\ \A i \in MergeIndices(d, new) : d[i].valid /\ CanMerge(d[i], new)
  BY DEF MergeIndices
<1> QED BY <1>1, ChainReaches

\* The deque with a border cluster merged into its entry k: e is what became of it.
MergedAt(d, found, k, e, d2) ==
    /\ d2 \in Seq(Waits) /\ DOMAIN d2 = DOMAIN d /\ Len(d2) = Len(d)
    /\ found \in SUBSET DOMAIN d
    /\ k \in found /\ \A i \in found : k <= i
    /\ d2[k] = e /\ e \in Waits
    /\ e.border = d[k].border /\ e.offset = d[k].offset /\ e.valid
    /\ \A i \in DOMAIN d : i # k =>
          /\ d2[i].hits = d[i].hits /\ d2[i].first = d[i].first
          /\ d2[i].border = d[i].border /\ d2[i].offset = d[i].offset
          /\ d2[i].valid <=> d[i].valid /\ i \notin found

LEMMA WithBorderFacts ==
    ASSUME NEW d \in Seq(Waits), NEW off \in Nat \ {0}, Leads(d, off), NEW c \in Cluster
    PROVE  LET new == Entry(c, off, TRUE)
               found == MergeIndices(d, new)
           IN  /\ found = {} => WithBorder(d, off, c) = Append(d, new)
               /\ found # {} => /\ Merging(d, new, found)
                                /\ MergedAt(d, found, Least(found), MergedEntry(d, new, found),
                                            WithBorder(d, off, c))
<1> DEFINE new == Entry(c, off, TRUE)
           found == MergeIndices(d, new)
           k == Least(found)
           e == MergedEntry(d, new, found)
           d2 == WithBorder(d, off, c)
<1>1. new \in Waits /\ new.offset = off
  BY EntryFacts
<1>2. found \in SUBSET DOMAIN d /\ \A i \in found : d[i].valid
  <2> HIDE DEF new
  <2> QED BY <1>1, FoundFacts
<1>3. found = {} => d2 = Append(d, new)
  BY DEF WithBorder
<1>4. ASSUME found # {}
      PROVE  Merging(d, new, found) /\ MergedAt(d, found, k, e, d2)
  <2>1. d2 = [i \in DOMAIN d |-> IF i = k THEN e
                                 ELSE IF i \in found THEN [d[i] EXCEPT !.valid = FALSE]
                                 ELSE d[i]]
    BY <1>4 DEF WithBorder
  <2>2. Merging(d, new, found)
    <3> HIDE DEF new, found
    <3> QED BY <1>1, <1>2, <1>4 DEF Merging
  <2>3. found \in SUBSET Nat
    <3> HIDE DEF new, found
    <3> QED BY <1>2
  <2>4. k \in found /\ \A i \in found : k <= i
    <3> HIDE DEF new, found
    <3> QED BY <1>4, <2>3, LeastIn
  <2> DEFINE Kinds == {[border |-> d[k].border, offset |-> d[k].offset, valid |-> d[k].valid]}
             Q == [n \in 0..Len(d) |->
                     {a \in Waits : [border |-> a.border, offset |-> a.offset, valid |-> a.valid]
                                      \in Kinds}]
  <2>5. e \in Q[Len(d)] /\ e \in Waits
    <3>1. d[k] \in Waits /\ Len(d) \in Nat
      <4> HIDE DEF new, found
      <4> QED BY <1>2, <2>4
    <3>2. Keeping(d, new, found, Q)
      <4>1. MergeWith(d[k], new) \in Q[0]
        <5>1. PICK b \in Waits : b = d[k]
          BY <3>1
        <5>2. PICK f : f = MergeWith(b, new)
          OBVIOUS
        <5>3. f \in Waits /\ f.border = b.border /\ f.offset = b.offset /\ f.valid = b.valid
          <6> HIDE DEF new
          <6> QED BY <1>1, <5>2, MergeWithFacts
        <5>4. 0 \in 0..Len(d)
          BY <3>1
        <5> HIDE DEF new, found, k
        <5> QED BY <5>1, <5>2, <5>3, <5>4
      <4>2. ASSUME NEW n \in 1..Len(d), NEW a \in Q[n - 1] \cap Waits
            PROVE  MergesAt(d, found, n, a) \in Q[n]
        <5>1. n \in 0..Len(d) /\ n - 1 \in 0..Len(d)
          BY <3>1
        <5>2. PICK i : i = Len(d) + 1 - n
          OBVIOUS
        <5>3. PICK b \in Waits : b = d[i]
          <6>1. i \in DOMAIN d
            BY <3>1, <5>2
          <6> QED BY <6>1
        <5>4. PICK f : f = MergeWith(a, b)
          OBVIOUS
        <5>5. f \in Waits /\ f.border = a.border /\ f.offset = a.offset /\ f.valid = a.valid
          BY <5>4, MergeWithFacts
        <5> HIDE DEF new, found, k
        <5>6. a \in Q[n] /\ f \in Q[n]
          BY <4>2, <5>1, <5>5
        <5> QED BY <5>2, <5>3, <5>4, <5>6 DEF MergesAt
      <4> HIDE DEF Q, new, found
      <4> QED BY <4>1, <4>2 DEF Keeping, k
    <3> HIDE DEF Q, new, found
    <3> QED BY <2>2, <3>2, MergedIn DEF e
  <2>6. e.border = d[k].border /\ e.offset = d[k].offset /\ e.valid = d[k].valid
    <3>1. Len(d) \in 0..Len(d)
      OBVIOUS
    <3> HIDE DEF e, new, found, k
    <3> QED BY <2>5, <3>1
  <2>7. d[k].valid
    BY <1>2, <2>4
  <2> HIDE DEF e, new, found, k, d2, Q
  <2>8. ASSUME NEW i \in DOMAIN d
        PROVE  /\ d2[i] \in Waits
               /\ i # k => /\ d2[i].hits = d[i].hits /\ d2[i].first = d[i].first
                           /\ d2[i].border = d[i].border /\ d2[i].offset = d[i].offset
                           /\ d2[i].valid <=> d[i].valid /\ i \notin found
    <3>1. PICK a \in Waits : a = d[i]
      OBVIOUS
    <3>2. PICK f : f = [a EXCEPT !.valid = FALSE]
      OBVIOUS
    <3>3. f \in Waits /\ f.hits = a.hits /\ f.first = a.first /\ f.border = a.border
          /\ f.offset = a.offset /\ ~f.valid
      BY <3>2 DEF Waits
    <3>4. CASE i = k
      BY <2>1, <2>5, <3>4
    <3>5. CASE i # k /\ i \in found
      <4>1. d2[i] = f
        BY <2>1, <3>1, <3>2, <3>5
      <4> QED BY <3>1, <3>3, <3>5, <4>1
    <3>6. CASE i # k /\ i \notin found
      <4>1. d2[i] = a
        BY <2>1, <3>1, <3>6
      <4> QED BY <3>1, <3>6, <4>1
    <3> QED BY <3>4, <3>5, <3>6
  <2>9. d2 \in Seq(Waits) /\ DOMAIN d2 = DOMAIN d /\ Len(d2) = Len(d)
    <3>1. DOMAIN d = 1..Len(d) /\ Len(d) \in Nat /\ DOMAIN d2 = 1..Len(d)
      BY <2>1
    <3>2. d2 \in [1..Len(d) -> Waits]
      BY <2>1, <2>8, <3>1
    <3> QED BY <3>1, <3>2
  <2>10. d2[k] = e
    BY <1>2, <2>1, <2>4
  <2> QED BY <1>2, <2>2, <2>4, <2>5, <2>6, <2>7, <2>8, <2>9, <2>10 DEF MergedAt
<1> QED BY <1>3, <1>4

-----------------------------------------------------------------------------
(* What the steps of a merger do to its deque: a cluster is placed in it,  *)
(* at its end or merged, and then some entries leave the front.            *)

Placed(d, off, c, d2, off2) ==
    \/ d2 = WithBorder(d, off, c) /\ off2 = 1
    \/ d2 = Append(d, Entry(c, off, FALSE)) /\ off2 = off + 1

Passes(m, i, c, d2, off2, n) ==
    /\ IsEarliest(m, i) /\ c = Head(pipes[m][i])
    /\ pipes' = [pipes EXCEPT ![m][i] = Tail(@)]
    /\ Placed(unfinished[m], borderingOffset[m], c, d2, off2)
    /\ n \in 0..Len(d2)
    /\ WriteFront(m, d2, n)
    /\ borderingOffset' = [borderingOffset EXCEPT ![m] = off2]
    /\ UNCHANGED <<arch, hits, closed>>

Leading == \A m \in Lane : Leads(unfinished[m], borderingOffset[m])

LEMMA AppendedWaits ==
    ASSUME NEW d \in Seq(Waits), NEW e \in Waits
    PROVE  /\ Append(d, e) \in Seq(Waits) /\ Len(Append(d, e)) = Len(d) + 1
           /\ DOMAIN d = 1..Len(d) /\ DOMAIN Append(d, e) = 1..(Len(d) + 1)
           /\ \A j \in 1..(Len(d) + 1) : j \in 1..Len(d) \/ j = Len(d) + 1
           /\ Append(d, e)[Len(d) + 1] = e
           /\ \A j \in 1..Len(d) : Append(d, e)[j] = d[j] /\ j # Len(d) + 1
OBVIOUS

LEMMA AppendedLeads ==
    ASSUME NEW d \in Seq(Waits), NEW off \in Nat \ {0}, Leads(d, off),
           NEW e \in Waits, e.offset = off,
           NEW off2 \in Nat \ {0}, off2 = 1 \/ (off2 = off + 1 /\ ~e.border)
    PROVE  Leads(Append(d, e), off2)
<1>1. PICK t : t = Append(d, e)
  OBVIOUS
<1>2. PICK l \in Nat : l = Len(d)
  OBVIOUS
<1>3. /\ Len(t) = l + 1 /\ DOMAIN d = 1..l /\ DOMAIN t = 1..(l + 1)
      /\ \A j \in 1..(l + 1) : j \in 1..l \/ j = l + 1
      /\ t[l + 1] = e
      /\ \A j \in 1..l : t[j] = d[j] /\ j # l + 1
  BY <1>1, <1>2, AppendedWaits
<1>4. SkipsNone(d, l + 1, off) /\ \A i \in 1..l : SkipsNone(d, i, d[i].offset)
  BY <1>2, <1>3 DEF Leads
<1>5. SkipsNone(t, (l + 1) + 1, off2)
  <2> SUFFICES ASSUME NEW j \in 1..(l + 1), t[j].border PROVE j + off2 <= (l + 1) + 1
    BY <1>3 DEF SkipsNone
  <2>1. CASE off2 = 1
    BY <2>1
  <2>2. CASE off2 = off + 1 /\ ~e.border
    <3>1. j \in 1..l /\ d[j].border
      BY <1>3, <2>2
    <3>2. j + off <= l + 1
      BY <1>3, <1>4, <3>1 DEF SkipsNone
    <3> QED BY <2>2, <3>1, <3>2
  <2> QED BY <2>1, <2>2
<1>6. ASSUME NEW i \in 1..(l + 1) PROVE SkipsNone(t, i, t[i].offset)
  <2>1. PICK o \in Nat \ {0} : o = t[i].offset
    <3>1. t[i] \in Waits
      BY <1>3
    <3> QED BY <3>1, WaitsFacts
  <2> SUFFICES ASSUME NEW j \in 1..(l + 1), j < i, t[j].border PROVE j + o <= i
    BY <1>3, <2>1 DEF SkipsNone
  <2>2. j \in 1..l /\ d[j].border
    BY <1>3
  <2>3. CASE i = l + 1
    BY <1>3, <1>4, <2>1, <2>2, <2>3 DEF SkipsNone
  <2>4. CASE i \in 1..l
    BY <1>3, <1>4, <2>1, <2>2, <2>4 DEF SkipsNone
  <2> QED BY <1>3, <2>3, <2>4
<1> QED BY <1>1, <1>3, <1>5, <1>6 DEF Leads

LEMMA PlacedLeads ==
    ASSUME NEW d \in Seq(Waits), NEW off \in Nat \ {0}, Leads(d, off), NEW c \in Cluster,
           NEW d2, NEW off2, Placed(d, off, c, d2, off2)
    PROVE  d2 \in Seq(Waits) /\ off2 \in Nat \ {0} /\ Leads(d2, off2)
<1>1. ASSUME NEW e \in Waits, d2 = Append(d, e), e.offset = off, off2 \in Nat \ {0},
             off2 = 1 \/ (off2 = off + 1 /\ ~e.border)
      PROVE  d2 \in Seq(Waits) /\ Leads(d2, off2)
  <2>1. Append(d, e) \in Seq(Waits)
    OBVIOUS
  <2> QED BY <1>1, <2>1, AppendedLeads
<1>2. CASE d2 = Append(d, Entry(c, off, FALSE)) /\ off2 = off + 1
  <2>1. PICK e : e = Entry(c, off, FALSE)
    OBVIOUS
  <2>2. e \in Waits /\ e.offset = off /\ ~e.border
    BY <2>1, EntryFacts
  <2>3. off2 \in Nat \ {0}
    BY <1>2
  <2> QED BY <1>1, <1>2, <2>1, <2>2, <2>3
<1>3. CASE d2 = WithBorder(d, off, c) /\ off2 = 1
  <2>1. PICK new, found : new = Entry(c, off, TRUE) /\ found = MergeIndices(d, new)
    OBVIOUS
  <2>2. CASE found = {}
    <3>1. d2 = Append(d, new)
      BY <1>3, <2>1, <2>2, WithBorderFacts
    <3>2. new \in Waits /\ new.offset = off
      BY <2>1, EntryFacts
    <3> QED BY <1>1, <1>3, <3>1, <3>2
  <2>3. CASE found # {}
    <3>1. PICK k, e : k = Least(found) /\ MergedAt(d, found, k, e, d2)
      BY <1>3, <2>1, <2>3, WithBorderFacts
    <3>2. /\ d2 \in Seq(Waits) /\ DOMAIN d2 = DOMAIN d /\ Len(d2) = Len(d) /\ k \in DOMAIN d
          /\ \A i \in DOMAIN d : d2[i].border = d[i].border /\ d2[i].offset = d[i].offset
      BY <3>1 DEF MergedAt
    <3>3. SkipsNone(d2, Len(d2) + 1, 1)
      <4>1. \A j \in 1..Len(d2) : j + 1 <= Len(d2) + 1
        BY <3>2
      <4> QED BY <3>2, <4>1 DEF SkipsNone
    <3>4. \A i \in DOMAIN d : SkipsNone(d2, i, d2[i].offset)
      BY <3>2 DEF Leads, SkipsNone
    <3> QED BY <1>3, <3>2, <3>3, <3>4 DEF Leads
  <2> QED BY <2>2, <2>3
<1> QED BY <1>2, <1>3 DEF Placed

\* The two parts of a sequence.
LEMMA TwoParts ==
    ASSUME NEW T, NEW d \in Seq(T), NEW n \in 0..Len(d)
    PROVE  LET a == SubSeq(d, 1, n)
               b == SubSeq(d, n + 1, Len(d))
           IN  /\ a \in Seq(T) /\ b \in Seq(T)
               /\ Len(a) = n /\ DOMAIN a = 1..n /\ \A i \in 1..n : a[i] = d[i]
               /\ Len(b) = Len(d) - n /\ DOMAIN b = 1..(Len(d) - n)
               /\ \A i \in 1..(Len(d) - n) : b[i] = d[n + i]
               /\ DOMAIN d = 1..Len(d) /\ Len(d) \in Nat
OBVIOUS

LEMMA RestLeads ==
    ASSUME NEW d \in Seq(Waits), NEW off \in Nat \ {0}, Leads(d, off), NEW n \in 0..Len(d)
    PROVE  Leads(SubSeq(d, n + 1, Len(d)), off)
<1>1. PICK b : b = SubSeq(d, n + 1, Len(d))
  OBVIOUS
<1>2. PICK l \in Nat : l = Len(d) - n
  OBVIOUS
<1>3. /\ b \in Seq(Waits) /\ Len(b) = l /\ DOMAIN b = 1..l /\ \A i \in 1..l : b[i] = d[n + i]
      /\ DOMAIN d = 1..(n + l) /\ Len(d) = n + l /\ n \in Nat
  <2>1. Len(d) = n + l
    BY <1>2
  <2> QED BY <1>1, <1>2, <2>1, TwoParts
<1>4. \A i \in 1..l : n + i \in 1..(n + l)
  BY <1>3
<1>5. \A i \in 1..l : b[i].offset \in Nat \ {0}
  <2>1. \A i \in 1..l : b[i] \in Waits
    BY <1>3
  <2> QED BY <2>1, WaitsFacts
<1>6. ASSUME NEW i \in 1..(l + 1), NEW o \in Nat \ {0}, SkipsNone(d, n + i, o)
      PROVE  SkipsNone(b, i, o)
  <2> SUFFICES ASSUME NEW j \in 1..l, j < i, b[j].border PROVE j + o <= i
    BY <1>3 DEF SkipsNone
  <2>1. n + j \in DOMAIN d /\ n + j < n + i /\ d[n + j].border
    BY <1>3, <1>4
  <2>2. n + j + o <= n + i
    BY <1>6, <2>1 DEF SkipsNone
  <2> QED BY <1>3, <2>2
<1>7. SkipsNone(b, Len(b) + 1, off)
  <2>1. Len(d) + 1 = n + (l + 1) /\ l + 1 \in 1..(l + 1)
    BY <1>3
  <2> QED BY <1>3, <1>6, <2>1 DEF Leads
<1>8. ASSUME NEW i \in 1..l PROVE SkipsNone(b, i, b[i].offset)
  <2>1. SkipsNone(d, n + i, b[i].offset) /\ i \in 1..(l + 1)
    BY <1>3, <1>4 DEF Leads
  <2> QED BY <1>5, <1>6, <2>1
<1> QED BY <1>1, <1>3, <1>7, <1>8 DEF Leads

LEMMA LeavingIn ==
    ASSUME NEW d \in Seq(Waits), NEW toa
    PROVE  Leaving(d, toa) \in 0..Len(d)
<1> DEFINE stays(e) == e.valid /\ e.border /\ ~(e.last < toa - MergeTime)
           staying == {i \in DOMAIN d : stays(d[i])}
<1>1. Len(d) \in Nat /\ staying \in SUBSET (1..Len(d))
  OBVIOUS
<1>2. Leaving(d, toa) = IF staying = {} THEN Len(d) ELSE Least(staying) - 1
  BY DEF Leaving
<1> HIDE DEF staying
<1>3. CASE staying # {}
  <2>1. staying \in SUBSET Nat
    BY <1>1
  <2>2. Least(staying) \in 1..Len(d)
    BY <1>1, <1>3, <2>1, LeastIn
  <2>3. PICK k \in 1..Len(d) : k = Least(staying)
    BY <2>2
  <2>4. k - 1 \in 0..Len(d)
    BY <1>1
  <2> QED BY <1>2, <1>3, <2>3, <2>4
<1>4. CASE staying = {}
  BY <1>1, <1>2, <1>4
<1> QED BY <1>3, <1>4

\* A cluster that is written at once: as if it had waited.
LEMMA OneWritten ==
    ASSUME NEW e \in Waits, e.valid
    PROVE  WrittenOf(<<e>>) = <<e.hits>>
<1>1. PICK s : s = HitsOf(<<e>>)
  OBVIOUS
<1>2. e.hits \in Cluster
  BY WaitsFacts
<1>3. s \in Seq(Cluster) /\ Len(s) = 1 /\ s[1] = e.hits
  <2>1. DOMAIN <<e>> = 1..1 /\ <<e>>[1] = e
    OBVIOUS
  <2>2. s = [j \in 1..1 |-> <<e>>[j].hits]
    BY <1>1, <2>1 DEF HitsOf
  <2>3. \A j \in 1..1 : s[j] = e.hits
    BY <2>1, <2>2
  <2> QED BY <1>2, <2>2, <2>3
<1>4. PICK P : P = ValidIn(<<e>>)
  OBVIOUS
<1>5. 1 \in P
  BY <1>4 DEF ValidIn
<1>6. WrittenOf(<<e>>) = Kept(s, P)
  BY <1>1, <1>4 DEF WrittenOf, HitsOf, ValidIn
<1>7. PICK g : /\ g[0] = <<>>
               /\ \A n \in 1..Len(s) : g[n] = Keeps(s, P, n, g[n - 1])
               /\ Kept(s, P) = g[Len(s)]
  BY <1>3, KeptStepwise
<1>8. g[1] = Append(<<>>, s[1])
  <2>1. g[1] = Keeps(s, P, 1, g[1 - 1]) /\ 1 - 1 = 0
    BY <1>3, <1>7
  <2> QED BY <1>5, <1>7, <2>1 DEF Keeps
<1> QED BY <1>3, <1>6, <1>7, <1>8

LEMMA ProcessStep ==
    ASSUME Shape, NEW m \in Lane, NEW i \in Lane, Leads(unfinished[m], borderingOffset[m]),
           ProcessBorder(m, i) \/ ProcessInner(m, i)
    PROVE  \E c, d2, off2, n : Passes(m, i, c, d2, off2, n)
<1>1. PICK c : c = Head(pipes[m][i])
  OBVIOUS
<1>2. PICK d, off : d = unfinished[m] /\ off = borderingOffset[m]
  OBVIOUS
<1>3. d \in Seq(Waits) /\ off \in Nat \ {0} /\ Leads(d, off)
  BY <1>2 DEF Shape
<1>4. Read(m, i) /\ IsEarliest(m, i)
  BY DEF ProcessBorder, ProcessInner, Read
<1>5. c \in Cluster
  <2>1. PICK s \in Seq(Cluster) : s = pipes[m][i]
    BY DEF Shape
  <2>2. s # <<>> /\ c = Head(s)
    BY <1>1, <1>4, <2>1 DEF IsEarliest
  <2> QED BY <2>2
<1>6. CASE ProcessBorder(m, i)
  <2>1. PICK d2, n : d2 = WithBorder(d, off, c) /\ n = Leaving(d2, FirstOf(c))
    OBVIOUS
  <2>2. Placed(d, off, c, d2, 1)
    BY <2>1 DEF Placed
  <2>3. d2 \in Seq(Waits)
    BY <1>3, <1>5, <2>2, PlacedLeads
  <2>4. n \in 0..Len(d2)
    BY <2>1, <2>3, LeavingIn
  <2>5. Passes(m, i, c, d2, 1, n)
    BY <1>1, <1>2, <1>4, <1>6, <2>1, <2>2, <2>4 DEF ProcessBorder, Read, Passes
  <2> QED BY <2>5
<1>7. CASE ProcessInner(m, i)
  <2>1. PICK e : e = Entry(c, off, FALSE)
    OBVIOUS
  <2>2. PICK d2 : d2 = Append(d, e)
    OBVIOUS
  <2>3. Placed(d, off, c, d2, off + 1)
    BY <2>1, <2>2 DEF Placed
  <2>4. e \in Waits /\ e.hits = c /\ e.valid
    BY <1>3, <1>5, <2>1, EntryFacts
  <2>5. d2 \in Seq(Waits) /\ Len(d2) = Len(d) + 1 /\ Len(d) \in Nat
    BY <1>3, <2>2, <2>4
  <2>6. pipes' = [pipes EXCEPT ![m][i] = Tail(@)] /\ UNCHANGED <<arch, hits, closed>>
        /\ borderingOffset' = [borderingOffset EXCEPT ![m] = off + 1]
    BY <1>2, <1>7 DEF ProcessInner, Read
  <2>7. CASE d # <<>>
    <3>1. PICK n : n = Leaving(d2, FirstOf(c))
      OBVIOUS
    <3>2. n \in 0..Len(d2)
      BY <2>5, <3>1, LeavingIn
    <3>3. WriteFront(m, d2, n)
      BY <1>1, <1>2, <1>7, <2>1, <2>2, <2>7, <3>1 DEF ProcessInner
    <3>4. Passes(m, i, c, d2, off + 1, n)
      BY <1>1, <1>2, <1>4, <2>3, <2>6, <3>2, <3>3 DEF Passes
    <3> QED BY <3>4
  <2>8. CASE d = <<>>
    <3>1. output' = [output EXCEPT ![m] = Append(@, c)] /\ UNCHANGED unfinished
      BY <1>1, <1>2, <1>7, <2>8 DEF ProcessInner
    <3>2. d2 = <<e>> /\ Len(d2) = 1
      BY <2>2, <2>8
    <3>3. SubSeq(d2, 1, 1) = <<e>> /\ SubSeq(d2, 1 + 1, Len(d2)) = <<>>
      <4>1. PICK a, b : a = SubSeq(d2, 1, 1) /\ b = SubSeq(d2, 1 + 1, Len(d2))
        OBVIOUS
      <4>2. PICK n : n = 1
        OBVIOUS
      <4>3. n \in 0..Len(d2) /\ Len(d2) - n = 0 /\ d2[n] = e /\ n \in 1..n /\ d2 \in Seq(Waits)
        BY <2>5, <3>2, <4>2
      <4>4. /\ a \in Seq(Waits) /\ Len(a) = n /\ \A j \in 1..n : a[j] = d2[j]
            /\ b \in Seq(Waits) /\ Len(b) = Len(d2) - n
        BY ONLY <4>1, <4>2, <4>3, TwoParts
      <4>5. Len(a) = 1 /\ a[1] = e /\ Len(b) = 0
        BY <4>2, <4>3, <4>4
      <4>6. a = <<e>> /\ b = <<>>
        BY <4>4, <4>5
      <4> QED BY <4>1, <4>6
    <3>4. WrittenOf(SubSeq(d2, 1, 1)) = <<c>>
      BY <2>4, <3>3, OneWritten
    <3>5. unfinished' = [unfinished EXCEPT ![m] = SubSeq(d2, 1 + 1, Len(d2))]
      BY <1>2, <2>8, <3>1, <3>3 DEF Shape
    <3>6. output' = [output EXCEPT ![m] = @ \o WrittenOf(SubSeq(d2, 1, 1))]
      <4>1. PICK o \in Seq(Cluster) : o = output[m]
        BY DEF Shape
      <4>2. Append(o, c) = o \o <<c>>
        BY <1>5
      <4>3. [output EXCEPT ![m] = Append(@, c)] = [output EXCEPT ![m] = @ \o <<c>>]
        BY <4>1, <4>2
      <4> QED BY <3>1, <3>4, <4>3
    <3>7. WriteFront(m, d2, 1) /\ 1 \in 0..Len(d2)
      BY <3>2, <3>5, <3>6 DEF WriteFront
    <3>8. Passes(m, i, c, d2, off + 1, 1)
      BY <1>1, <1>2, <1>4, <2>3, <2>6, <3>7 DEF Passes
    <3> QED BY <3>8
  <2> QED BY <2>7, <2>8
<1> QED BY <1>6, <1>7

\* What leaves the front of a deque is written; the rest stays.
LEMMA FrontShape ==
    ASSUME Shape, NEW m \in Lane, NEW d2 \in Seq(Waits), NEW n \in 0..Len(d2),
           WriteFront(m, d2, n)
    PROVE  /\ unfinished' \in [Lane -> Seq(Waits)] /\ output' \in [Lane -> Seq(Cluster)]
           /\ unfinished'[m] = SubSeq(d2, n + 1, Len(d2))
           /\ output'[m] = output[m] \o WrittenOf(SubSeq(d2, 1, n))
           /\ \A l \in Lane : l # m => unfinished'[l] = unfinished[l] /\ output'[l] = output[l]
<1>1. PICK a, b : a = SubSeq(d2, 1, n) /\ b = SubSeq(d2, n + 1, Len(d2))
  OBVIOUS
<1>2. a \in Seq(Waits) /\ b \in Seq(Waits)
  BY <1>1, TwoParts
<1>3. PICK w \in Seq(Cluster) : w = WrittenOf(a)
  BY <1>2, WrittenClusters
<1>4. unfinished' = [unfinished EXCEPT ![m] = b] /\ output' = [output EXCEPT ![m] = @ \o w]
  BY <1>1, <1>3 DEF WriteFront
<1>5. unfinished \in [Lane -> Seq(Waits)] /\ output \in [Lane -> Seq(Cluster)]
  BY DEF Shape
<1>6. output[m] \o w \in Seq(Cluster)
  <2>1. PICK o \in Seq(Cluster) : o = output[m]
    BY <1>5
  <2> QED BY <2>1
<1> QED BY <1>1, <1>2, <1>3, <1>4, <1>5, <1>6

LEMMA PassesShape ==
    ASSUME Shape, Leading, NEW m \in Lane, NEW i \in Lane, NEW c, NEW d2, NEW off2, NEW n,
           Passes(m, i, c, d2, off2, n)
    PROVE  /\ Shape' /\ Leading'
           /\ pipes[m][i] \in Seq(Cluster) /\ pipes[m][i] # <<>> /\ c \in Cluster
           /\ c = Head(pipes[m][i])
           /\ d2 \in Seq(Waits) /\ n \in 0..Len(d2)
           /\ pipes'[m][i] = Tail(pipes[m][i])
           /\ \A l, p \in Lane : <<l, p>> # <<m, i>> => pipes'[l][p] = pipes[l][p]
<1>1. PICK s \in Seq(Cluster) : s = pipes[m][i]
  BY DEF Shape
<1>2. s # <<>> /\ c = Head(s)
  BY <1>1 DEF Passes, IsEarliest
<1>3. c \in Cluster /\ Tail(s) \in Seq(Cluster)
  BY <1>2
<1>4. d2 \in Seq(Waits) /\ off2 \in Nat \ {0} /\ Leads(d2, off2)
  <2>1. unfinished[m] \in Seq(Waits) /\ borderingOffset[m] \in Nat \ {0}
        /\ Leads(unfinished[m], borderingOffset[m])
        /\ Placed(unfinished[m], borderingOffset[m], c, d2, off2)
    BY DEF Shape, Leading, Passes
  <2> QED BY <1>3, <2>1, PlacedLeads
<1>5. n \in 0..Len(d2) /\ WriteFront(m, d2, n)
      /\ borderingOffset' = [borderingOffset EXCEPT ![m] = off2]
      /\ pipes' = [pipes EXCEPT ![m][i] = Tail(@)]
      /\ UNCHANGED <<arch, hits, closed>>
  BY DEF Passes
<1>6. /\ unfinished' \in [Lane -> Seq(Waits)] /\ output' \in [Lane -> Seq(Cluster)]
      /\ unfinished'[m] = SubSeq(d2, n + 1, Len(d2))
      /\ \A l \in Lane : l # m => unfinished'[l] = unfinished[l] /\ output'[l] = output[l]
  BY <1>4, <1>5, FrontShape
<1>7. /\ pipes'[m][i] = Tail(s)
      /\ \A l, p \in Lane : <<l, p>> # <<m, i>> => pipes'[l][p] = pipes[l][p]
      /\ pipes' \in [Lane -> [Lane -> Seq(Cluster)]]
  <2>1. pipes \in [Lane -> [Lane -> Seq(Cluster)]]
    BY DEF Shape
  <2>2. pipes' = [pipes EXCEPT ![m] = [@ EXCEPT ![i] = Tail(s)]]
    BY <1>1, <1>5
  <2> QED BY <1>3, <2>1, <2>2
<1>8. /\ borderingOffset' \in [Lane -> Nat \ {0}] /\ borderingOffset'[m] = off2
      /\ \A l \in Lane : l # m => borderingOffset'[l] = borderingOffset[l]
  BY <1>4, <1>5 DEF Shape
<1>9. Shape'
  BY <1>5, <1>6, <1>7, <1>8 DEF Shape
<1>10. Leading'
  <2> SUFFICES ASSUME NEW l \in Lane PROVE Leads(unfinished'[l], borderingOffset'[l])
    BY DEF Leading
  <2>0. Leads(SubSeq(d2, n + 1, Len(d2)), off2)
    BY <1>4, <1>5, RestLeads
  <2>1. CASE l = m
    BY <1>6, <1>8, <2>0, <2>1
  <2>2. CASE l # m
    BY <1>6, <1>8, <2>2 DEF Leading
  <2> QED BY <2>1, <2>2
<1> QED BY <1>1, <1>2, <1>3, <1>4, <1>5, <1>7, <1>9, <1>10

\* The end: all that waits is written.
LEMMA EndShape ==
    ASSUME Shape, Leading, NEW m \in Lane, End(m)
    PROVE  Shape' /\ Leading'
<1>1. PICK d2 \in Seq(Waits) : d2 = unfinished[m]
  BY DEF Shape
<1>2. Len(d2) \in 0..Len(d2)
  OBVIOUS
<1>3. WriteFront(m, d2, Len(d2)) /\ UNCHANGED <<arch, hits, pipes, borderingOffset>>
      /\ closed' = [closed EXCEPT ![m] = TRUE]
  BY <1>1 DEF End
<1>4. /\ unfinished' \in [Lane -> Seq(Waits)] /\ output' \in [Lane -> Seq(Cluster)]
      /\ unfinished'[m] = SubSeq(d2, Len(d2) + 1, Len(d2))
      /\ \A l \in Lane : l # m => unfinished'[l] = unfinished[l]
  BY <1>2, <1>3, FrontShape
<1>5. Shape'
  BY <1>3, <1>4 DEF Shape
<1>6. Leading'
  <2> SUFFICES ASSUME NEW l \in Lane PROVE Leads(unfinished'[l], borderingOffset[l])
    BY <1>3 DEF Leading
  <2>0. borderingOffset[l] \in Nat \ {0} /\ Leads(unfinished[l], borderingOffset[l])
    BY DEF Shape, Leading
  <2>1. CASE l = m
    BY <1>1, <1>2, <1>4, <2>0, <2>1, RestLeads
  <2>2. CASE l # m
    BY <1>4, <2>0, <2>2
  <2> QED BY <2>1, <2>2
<1> QED BY <1>5, <1>6

-----------------------------------------------------------------------------
(* What the lanes deliver.                                                 *)

Injective(c) == \A k, l \in DOMAIN c : c[k] = c[l] => k = l

InTime(hs) == \A k, l \in DOMAIN hs : k <= l => hs[k].toa <= hs[l].toa

LEMMA KeptHits ==
    ASSUME NEW s \in Seq(Hit), NEW P \in SUBSET DOMAIN s
    PROVE  /\ Kept(s, P) \in Seq(Hit)
           /\ Range(Kept(s, P)) = {s[p] : p \in P}
           /\ Injective(s) => Injective(Kept(s, P))
           /\ InTime(s) => InTime(Kept(s, P))
<1>1. PICK k, at : k = Kept(s, P) /\ k \in Seq(Hit) /\ KeptAt(k, s, P, Len(s), at)
  BY KeptPlaces
<1>2. /\ at \in [1..Len(k) -> (1..Len(s)) \cap P]
      /\ \A i \in 1..Len(k) : k[i] = s[at[i]]
      /\ \A i, j \in 1..Len(k) : i < j => at[i] < at[j]
      /\ \A p \in (1..Len(s)) \cap P : \E i \in 1..Len(k) : at[i] = p
  BY <1>1 DEF KeptAt
<1>3. DOMAIN k = 1..Len(k) /\ Len(k) \in Nat /\ DOMAIN s = 1..Len(s) /\ (1..Len(s)) \cap P = P
      /\ P \in SUBSET Nat
  BY <1>1
<1>4. \A i \in DOMAIN k : at[i] \in P /\ at[i] \in DOMAIN s /\ at[i] \in Nat /\ k[i] = s[at[i]]
  BY <1>2, <1>3
<1>5. \A p \in P : \E i \in DOMAIN k : p = at[i]
  BY <1>2, <1>3
<1>6. \A i, j \in DOMAIN k : i < j => at[i] < at[j]
  BY <1>2, <1>3
<1>7. \A i, j \in DOMAIN k : (i # j => at[i] # at[j]) /\ (i <= j => at[i] <= at[j])
  <2> SUFFICES ASSUME NEW i \in DOMAIN k, NEW j \in DOMAIN k
               PROVE  (i # j => at[i] # at[j]) /\ (i <= j => at[i] <= at[j])
    OBVIOUS
  <2>1. i \in Int /\ j \in Int
    BY <1>3
  <2>2. i < j \/ j < i \/ i = j
    BY <2>1
  <2> QED BY <1>4, <1>6, <2>1, <2>2
<1>8. Range(k) = {s[p] : p \in P}
  BY <1>4, <1>5 DEF Range
<1>9. Injective(s) => Injective(k)
  BY <1>4, <1>7 DEF Injective
<1>10. InTime(s) => InTime(k)
  BY <1>4, <1>7 DEF InTime
<1> QED BY <1>1, <1>8, <1>9, <1>10

LEMMA JoinedHits ==
    ASSUME NEW a \in Seq(Hit), NEW b \in Seq(Hit)
    PROVE  /\ a \o b \in Seq(Hit)
           /\ Range(a \o b) = Range(a) \cup Range(b)
           /\ Injective(a) /\ Injective(b) /\ Range(a) \cap Range(b) = {} => Injective(a \o b)
           /\ b # <<>> => a \o b \in Cluster
<1>1. PICK c : c = a \o b
  OBVIOUS
<1>2. PICK p \in Nat, q \in Nat : p = Len(a) /\ q = Len(b)
  OBVIOUS
<1>3. /\ c \in Seq(Hit) /\ Len(c) = p + q /\ DOMAIN c = 1..(p + q)
      /\ DOMAIN a = 1..p /\ DOMAIN b = 1..q
      /\ \A i \in 1..p : c[i] = a[i]
      /\ \A i \in 1..q : c[p + i] = b[i]
  BY <1>1, <1>2
<1>4. \A i \in 1..(p + q) : i \in 1..p \/ (i - p \in 1..q /\ p + (i - p) = i)
  OBVIOUS
<1>5. 1..p \subseteq 1..(p + q) /\ \A i \in 1..q : p + i \in 1..(p + q) /\ p + i \notin 1..p
  OBVIOUS
<1>6. \A i \in DOMAIN c : (i \in DOMAIN a /\ c[i] = a[i]) \/ (i - p \in DOMAIN b /\ c[i] = b[i - p])
  BY <1>3, <1>4
<1>7. Range(c) = Range(a) \cup Range(b)
  <2>1. \A i \in DOMAIN a : i \in DOMAIN c /\ c[i] = a[i]
    BY <1>3, <1>5
  <2>2. \A i \in DOMAIN b : p + i \in DOMAIN c /\ c[p + i] = b[i]
    BY <1>3, <1>5
  <2> QED BY <1>6, <2>1, <2>2 DEF Range
<1>8. ASSUME Injective(a), Injective(b), Range(a) \cap Range(b) = {}
      PROVE  Injective(c)
  <2> SUFFICES ASSUME NEW i \in DOMAIN c, NEW j \in DOMAIN c, c[i] = c[j] PROVE i = j
    BY DEF Injective
  <2>1. \A x \in DOMAIN a, y \in DOMAIN b : a[x] # b[y]
    BY <1>8 DEF Range
  <2>2. CASE i \in DOMAIN a /\ c[i] = a[i] /\ j \in DOMAIN a /\ c[j] = a[j]
    BY <1>8, <2>2 DEF Injective
  <2>3. CASE i - p \in DOMAIN b /\ c[i] = b[i - p] /\ j - p \in DOMAIN b /\ c[j] = b[j - p]
    <3>1. i - p = j - p
      BY <1>8, <2>3 DEF Injective
    <3> QED BY <1>3, <3>1
  <2> QED BY <1>6, <2>1, <2>2, <2>3
<1>9. b # <<>> => c \in Cluster
  <2>1. b # <<>> => q # 0
    BY <1>2
  <2>2. q # 0 => c # <<>>
    BY <1>3
  <2> QED BY <1>3, <2>1, <2>2 DEF Cluster
<1> QED BY <1>1, <1>3, <1>7, <1>8, <1>9

LEMMA TogetherFacts ==
    ASSUME NEW cs \in Seq(Cluster)
    PROVE  /\ Together(cs) \in Seq(Hit)
           /\ Range(Together(cs)) = HitsIn(cs)
           /\ Once(cs) => Injective(Together(cs))
<1> DEFINE Rule(g) == [n \in 0..Len(cs) |-> IF n = 0 THEN <<>> ELSE g[n - 1] \o cs[n]]
           put == CHOOSE g : g = Rule(g)
           F == [n \in 1..Len(cs) |-> [t \in Seq(Hit) |-> t \o cs[n]]]
           a == <<>>
<1>1. Len(cs) \in Nat /\ a \in Seq(Hit) /\ DOMAIN cs = 1..Len(cs)
  OBVIOUS
<1>2. \A n \in 1..Len(cs) : cs[n] \in Seq(Hit)
  BY DEF Cluster
<1>3. F \in [1..Len(cs) -> [Seq(Hit) -> Seq(Hit)]]
  BY <1>2
<1>4. PICK g : Iterated(g, F, Seq(Hit), a, Len(cs))
  <2>1. Iterable(F, Seq(Hit), a, Len(cs))
    BY <1>1, <1>3 DEF Iterable
  <2> HIDE DEF F, a, put
  <2> QED BY <2>1, Iterates
<1>5. g \in [0..Len(cs) -> Seq(Hit)] /\ g[0] = a /\ \A n \in 1..Len(cs) : g[n] = F[n][g[n - 1]]
  <2> HIDE DEF F, a
  <2> QED BY <1>4 DEF Iterated
<1>6. \A n \in 1..Len(cs) : g[n] = g[n - 1] \o cs[n]
  <2> SUFFICES ASSUME NEW n \in 1..Len(cs) PROVE g[n] = g[n - 1] \o cs[n]
    OBVIOUS
  <2>1. g[n] = F[n][g[n - 1]]
    <3> HIDE DEF F, a
    <3> QED BY <1>5
  <2>2. PICK t \in Seq(Hit) : t = g[n - 1]
    <3> HIDE DEF F, a
    <3>1. n - 1 \in 0..Len(cs)
      BY <1>1
    <3> QED BY <1>5, <3>1
  <2>3. F[n][t] = t \o cs[n]
    BY <2>2
  <2> HIDE DEF F
  <2> QED BY <2>1, <2>2, <2>3
<1>7. g = Rule(g)
  <2>1. \A n \in 0..Len(cs) : n = 0 \/ n \in 1..Len(cs)
    BY <1>1
  <2>2. 0 \notin 1..Len(cs)
    BY <1>1
  <2>3. \A n \in 0..Len(cs) : g[n] = IF n = 0 THEN <<>> ELSE g[n - 1] \o cs[n]
    BY <1>5, <1>6, <2>1, <2>2
  <2> QED BY <1>5, <2>3
<1>8. put = Rule(put)
  BY <1>7
<1>9. put[0] = <<>> /\ \A n \in 1..Len(cs) : put[n] = put[n - 1] \o cs[n]
  <2> HIDE DEF put
  <2>1. \A n \in 0..Len(cs) : put[n] = IF n = 0 THEN <<>> ELSE put[n - 1] \o cs[n]
    BY <1>8
  <2>2. 0 \in 0..Len(cs) /\ \A n \in 1..Len(cs) : n \in 0..Len(cs) /\ n # 0
    BY <1>1
  <2> QED BY <2>1, <2>2
<1>10. Together(cs) = put[Len(cs)]
  BY DEF Together
<1> HIDE DEF put
<1> DEFINE Upto(n) == UNION {Range(cs[i]) : i \in 1..n}
           Good(n, t) == /\ t \in Seq(Hit) /\ Range(t) = Upto(n)
                         /\ Once(cs) => Injective(t)
           N == {n \in Nat : n <= Len(cs) => Good(n, put[n])}
<1>11. 0 \in N
  <2>1. DOMAIN <<>> = {} /\ <<>> \in Seq(Hit) /\ 1..0 = {}
    OBVIOUS
  <2>2. Range(<<>>) = {} /\ Injective(<<>>) /\ Upto(0) = {}
    BY <2>1 DEF Range, Injective
  <2> QED BY <1>9, <2>1, <2>2
<1>12. ASSUME NEW n \in Nat, n \in N PROVE n + 1 \in N
  <2>0. SUFFICES ASSUME n + 1 <= Len(cs) PROVE Good(n + 1, put[n + 1])
    <3> HIDE DEF Good
    <3> QED OBVIOUS
  <2>1. n <= Len(cs) /\ n + 1 \in 1..Len(cs) /\ (n + 1) - 1 = n
        /\ 1..n \subseteq 1..Len(cs) /\ n + 1 \notin 1..n /\ 1..n \subseteq 1..(n + 1)
        /\ n + 1 \in 1..(n + 1)
    BY <1>1, <2>0
  <2>2. PICK t, c : t = put[n] /\ c = cs[n + 1]
    OBVIOUS
  <2>3. Good(n, t)
    <3> HIDE DEF Good
    <3> QED BY <1>12, <2>1, <2>2
  <2>4. c \in Cluster /\ c \in Seq(Hit)
    BY <1>2, <2>1, <2>2
  <2>5. put[n + 1] = t \o c
    BY <1>9, <2>1, <2>2
  <2>6. Range(t) = Upto(n) /\ t \in Seq(Hit)
    BY <2>3
  <2>7. \A j \in 1..(n + 1) : j \in 1..n \/ j = n + 1
    OBVIOUS
  <2>8. Upto(n + 1) = Upto(n) \cup Range(c)
    BY <2>1, <2>2, <2>7
  <2>9. ASSUME Once(cs) PROVE Injective(t \o c)
    <3>1. Injective(t)
      BY <2>3, <2>9
    <3>2. Injective(c)
      BY <1>1, <2>1, <2>2, <2>9 DEF Once, OnceAt, SameHit, Injective
    <3>3. Upto(n) \cap Range(c) = {}
      <4> SUFFICES ASSUME NEW h \in Upto(n), h \in Range(c) PROVE FALSE
        OBVIOUS
      <4>1. PICK i \in 1..n : h \in Range(cs[i])
        OBVIOUS
      <4>2. PICK k \in DOMAIN cs[i] : h = cs[i][k]
        BY <4>1 DEF Range
      <4>3. PICK l \in DOMAIN c : h = c[l]
        BY DEF Range
      <4>4. SameHit(cs, i, n + 1, k, l) /\ i \in DOMAIN cs /\ n + 1 \in DOMAIN cs
        BY <1>1, <2>1, <2>2, <4>2, <4>3 DEF SameHit
      <4>5. i = n + 1
        BY <2>9, <4>4 DEF Once, OnceAt
      <4> QED BY <2>1, <4>5
    <3> HIDE DEF Upto
    <3> QED BY <2>4, <2>6, <3>1, <3>2, <3>3, JoinedHits
  <2>10. t \o c \in Seq(Hit) /\ Range(t \o c) = Range(t) \cup Range(c)
    BY <2>4, <2>6, JoinedHits
  <2> HIDE DEF Upto
  <2> QED BY <2>5, <2>6, <2>8, <2>9, <2>10
<1>13. Nat \subseteq N
  <2> HIDE DEF N
  <2> QED BY <1>11, <1>12, Induction
<1>14. Good(Len(cs), put[Len(cs)])
  <2> HIDE DEF Good
  <2> QED BY <1>1, <1>13
<1>15. Upto(Len(cs)) = HitsIn(cs)
  BY <1>1 DEF HitsIn
<1> QED BY <1>10, <1>14, <1>15

LEMMA JoinedClusters ==
    ASSUME NEW a \in Seq(Cluster), NEW b \in Seq(Cluster)
    PROVE  /\ a \o b \in Seq(Cluster)
           /\ HitsIn(a \o b) = HitsIn(a) \cup HitsIn(b)
           /\ Once(a) /\ Once(b) /\ HitsIn(a) \cap HitsIn(b) = {} => Once(a \o b)
           /\ FirstsSorted(a) /\ FirstsSorted(b)
              /\ (\A i \in DOMAIN a, j \in DOMAIN b : FirstOf(a[i]) <= FirstOf(b[j]))
                  => FirstsSorted(a \o b)
<1>1. PICK c : c = a \o b
  OBVIOUS
<1>2. PICK p \in Nat, q \in Nat : p = Len(a) /\ q = Len(b)
  OBVIOUS
<1>3. /\ c \in Seq(Cluster) /\ Len(c) = p + q /\ DOMAIN c = 1..(p + q)
      /\ DOMAIN a = 1..p /\ DOMAIN b = 1..q
      /\ \A i \in 1..p : c[i] = a[i]
      /\ \A i \in 1..q : c[p + i] = b[i]
  BY <1>1, <1>2
<1>4. \A i \in 1..(p + q) : i \in 1..p \/ (i - p \in 1..q /\ p + (i - p) = i /\ i \notin 1..p)
  OBVIOUS
<1>5. 1..p \subseteq 1..(p + q) /\ \A i \in 1..q : p + i \in 1..(p + q) /\ p + i \notin 1..p
  OBVIOUS
<1>6. \A i \in DOMAIN c : \/ i \in DOMAIN a /\ c[i] = a[i]
                          \/ i - p \in DOMAIN b /\ c[i] = b[i - p] /\ i \notin DOMAIN a
  BY <1>3, <1>4
<1>7. HitsIn(c) = HitsIn(a) \cup HitsIn(b)
  <2>1. \A i \in DOMAIN a : i \in DOMAIN c /\ c[i] = a[i]
    BY <1>3, <1>5
  <2>2. \A i \in DOMAIN b : p + i \in DOMAIN c /\ c[p + i] = b[i]
    BY <1>3, <1>5
  <2> QED BY <1>6, <2>1, <2>2 DEF HitsIn
<1>8. ASSUME Once(a), Once(b), HitsIn(a) \cap HitsIn(b) = {}
      PROVE  Once(c)
  <2> SUFFICES ASSUME NEW i \in DOMAIN c, NEW j \in DOMAIN c, NEW k, NEW l, SameHit(c, i, j, k, l)
               PROVE  i = j /\ k = l
    BY DEF Once, OnceAt
  <2>0. k \in DOMAIN c[i] /\ l \in DOMAIN c[j] /\ c[i][k] = c[j][l]
    BY DEF SameHit
  <2>1. ASSUME NEW x \in DOMAIN a, NEW y \in DOMAIN b, NEW u \in DOMAIN a[x], NEW v \in DOMAIN b[y]
        PROVE  a[x][u] # b[y][v]
    <3>1. a[x][u] \in HitsIn(a) /\ b[y][v] \in HitsIn(b)
      BY DEF HitsIn, Range
    <3> QED BY <1>8, <3>1
  <2>2. CASE i \in DOMAIN a /\ c[i] = a[i] /\ j \in DOMAIN a /\ c[j] = a[j]
    <3>1. SameHit(a, i, j, k, l)
      BY <2>0, <2>2 DEF SameHit
    <3> QED BY <1>8, <2>2, <3>1 DEF Once, OnceAt
  <2>3. CASE i - p \in DOMAIN b /\ c[i] = b[i - p] /\ j - p \in DOMAIN b /\ c[j] = b[j - p]
    <3>1. SameHit(b, i - p, j - p, k, l)
      BY <2>0, <2>3 DEF SameHit
    <3>2. i - p = j - p /\ k = l
      BY <1>8, <2>3, <3>1 DEF Once, OnceAt
    <3> QED BY <1>3, <3>2
  <2> QED BY <1>6, <2>0, <2>1, <2>2, <2>3
<1>9. ASSUME FirstsSorted(a), FirstsSorted(b),
             \A i \in DOMAIN a, j \in DOMAIN b : FirstOf(a[i]) <= FirstOf(b[j])
      PROVE  FirstsSorted(c)
  <2> SUFFICES ASSUME NEW i \in DOMAIN c, NEW j \in DOMAIN c, i <= j
               PROVE  FirstOf(c[i]) <= FirstOf(c[j])
    BY DEF FirstsSorted, FirstsSortedAt
  <2>1. CASE i \in DOMAIN a /\ c[i] = a[i] /\ j \in DOMAIN a /\ c[j] = a[j]
    BY <1>9, <2>1 DEF FirstsSorted, FirstsSortedAt
  <2>2. CASE i - p \in DOMAIN b /\ c[i] = b[i - p] /\ j - p \in DOMAIN b /\ c[j] = b[j - p]
    <3>1. i - p <= j - p
      BY <1>3
    <3> QED BY <1>9, <2>2, <3>1 DEF FirstsSorted, FirstsSortedAt
  <2>3. CASE i \in DOMAIN a /\ c[i] = a[i] /\ j - p \in DOMAIN b /\ c[j] = b[j - p]
    BY <1>9, <2>3
  <2>4. ~(i \notin DOMAIN a /\ j \in DOMAIN a)
    BY <1>3
  <2> QED BY <1>6, <2>1, <2>2, <2>3, <2>4
<1> QED BY <1>1, <1>3, <1>7, <1>8, <1>9

LEMMA OneCluster ==
    ASSUME NEW c \in Cluster
    PROVE  /\ <<c>> \in Seq(Cluster) /\ HitsIn(<<c>>) = Range(c)
           /\ DOMAIN <<c>> = {1} /\ <<c>>[1] = c
           /\ Injective(c) => Once(<<c>>)
           /\ FirstsSorted(<<c>>)
<1>1. PICK s : s = <<c>>
  OBVIOUS
<1>2. s \in Seq(Cluster) /\ DOMAIN s = {1} /\ s[1] = c
  BY <1>1
<1>3. HitsIn(s) = Range(c)
  BY <1>2 DEF HitsIn
<1>4. Injective(c) => Once(s)
  BY <1>2 DEF Once, OnceAt, SameHit, Injective
<1>5. FirstsSorted(s)
  <2>1. FirstOf(c) \in Nat
    BY FirstOfIn
  <2>2. FirstOf(c) <= FirstOf(c)
    BY <2>1
  <2> QED BY <1>2, <2>2 DEF FirstsSorted, FirstsSortedAt
<1> QED BY <1>1, <1>2, <1>3, <1>4, <1>5

LEMMA AppendedClusters ==
    ASSUME NEW o \in Seq(Cluster), NEW c \in Cluster
    PROVE  /\ Append(o, c) \in Seq(Cluster)
           /\ HitsIn(Append(o, c)) = HitsIn(o) \cup Range(c)
           /\ Once(o) /\ Injective(c) /\ HitsIn(o) \cap Range(c) = {} => Once(Append(o, c))
           /\ FirstsSorted(o) /\ (\A i \in DOMAIN o : FirstOf(o[i]) <= FirstOf(c))
                  => FirstsSorted(Append(o, c))
<1>1. PICK s : s = <<c>>
  OBVIOUS
<1>2. /\ s \in Seq(Cluster) /\ HitsIn(s) = Range(c)
      /\ DOMAIN s = {1} /\ s[1] = c
      /\ Injective(c) => Once(s)
      /\ FirstsSorted(s)
  BY <1>1, OneCluster
<1>3. Append(o, c) = o \o s
  BY <1>1
<1> QED BY <1>2, <1>3, JoinedClusters

\* The clusters after one more hit: it is in exactly one of them.
LEMMA WithHitFacts ==
    ASSUME NEW open \in Seq(Cluster), NEW h \in Hit
    PROVE  /\ WithHit(open, h) \in Seq(Cluster)
           /\ HitsIn(WithHit(open, h)) = HitsIn(open) \cup {h}
           /\ Once(open) /\ h \notin HitsIn(open) => Once(WithHit(open, h))
           /\ FirstsSorted(open) /\ (\A g \in HitsIn(open) : g.toa <= h.toa)
                  => FirstsSorted(WithHit(open, h))
<1>1. PICK joined : joined = {i \in DOMAIN open : Joins(h, Range(open[i]))}
  OBVIOUS
<1>2. PICK some, t : some = Kept(open, joined) /\ t = Together(some)
  OBVIOUS
<1>3. joined \in SUBSET DOMAIN open
  BY <1>1
<1>4. some \in Seq(Cluster) /\ HitsIn(some) = UNION {Range(open[p]) : p \in joined}
      /\ (OnceAt(open, joined) => Once(some))
  BY <1>2, <1>3, KeptClusters
<1>5. t \in Seq(Hit) /\ Range(t) = UNION {Range(open[p]) : p \in joined}
      /\ (OnceAt(open, joined) => Injective(t))
  BY <1>2, <1>4, TogetherFacts
<1>6. PICK grown : grown = Append(t, h)
  OBVIOUS
<1>7. Range(t) \in SUBSET HitsIn(open)
  BY <1>3, <1>5 DEF HitsIn
<1>8. grown \in Cluster /\ Range(grown) = Range(t) \cup {h}
      /\ (Once(open) /\ h \notin HitsIn(open) => Injective(grown))
  <2>1. PICK s : s = <<h>>
    OBVIOUS
  <2>2. s \in Seq(Hit) /\ s # <<>> /\ DOMAIN s = {1} /\ s[1] = h
    BY <2>1
  <2>3. grown = t \o s
    BY <1>5, <1>6, <2>1
  <2>4. Range(s) = {h} /\ Injective(s)
    BY <2>2 DEF Range, Injective
  <2>5. Once(open) => OnceAt(open, joined)
    BY <1>3 DEF Once, OnceAt
  <2> QED BY <1>5, <1>7, <2>2, <2>3, <2>4, <2>5, JoinedHits
<1>9. CASE joined = {}
  <2>1. Range(grown) = {h}
    BY <1>5, <1>8, <1>9
  <2>2. WithHit(open, h) = Append(open, grown)
    BY <1>1, <1>2, <1>6, <1>9 DEF WithHit
  <2>3. ASSUME \A g \in HitsIn(open) : g.toa <= h.toa
        PROVE  \A i \in DOMAIN open : FirstOf(open[i]) <= FirstOf(grown)
    <3>1. FirstOf(grown) = h.toa
      <4>1. PICK g \in Range(grown) : FirstOf(grown) = g.toa
        BY <1>8, FirstOfIn
      <4> QED BY <2>1, <4>1
    <3> TAKE i \in DOMAIN open
    <3>2. open[i] \in Cluster
      OBVIOUS
    <3>3. PICK g \in Range(open[i]) : FirstOf(open[i]) = g.toa
      BY <3>2, FirstOfIn
    <3>4. g \in HitsIn(open)
      BY <3>3 DEF HitsIn
    <3> QED BY <2>3, <3>1, <3>3, <3>4
  <2> QED BY <1>8, <2>1, <2>2, <2>3, AppendedClusters
<1>10. CASE joined # {}
  <2>1. PICK k : k = Least(joined)
    OBVIOUS
  <2>2. k \in joined /\ k \in DOMAIN open /\ \A i \in joined : k <= i
    <3>1. joined \in SUBSET Nat
      BY <1>3
    <3> QED BY <1>3, <1>10, <2>1, <3>1, LeastIn
  <2>3. PICK e, P : e = [open EXCEPT ![k] = grown] /\ P = (DOMAIN open \ joined) \cup {k}
    OBVIOUS
  <2>4. e \in Seq(Cluster) /\ DOMAIN e = DOMAIN open /\ P \in SUBSET DOMAIN e
        /\ e[k] = grown /\ \A i \in DOMAIN open : i # k => e[i] = open[i]
    BY <1>8, <2>2, <2>3
  <2>5. WithHit(open, h) = Kept(e, P)
    BY <1>1, <1>2, <1>6, <1>10, <2>1, <2>3 DEF WithHit
  <2>6. UNION {Range(e[p]) : p \in P} = HitsIn(open) \cup {h}
    <3>1. ASSUME NEW g \in Range(e[k]) PROVE g \in HitsIn(open) \cup {h}
      BY <1>7, <1>8, <2>4
    <3>2. ASSUME NEW p \in P, p # k PROVE Range(e[p]) \in SUBSET HitsIn(open)
      BY <2>3, <2>4, <3>2 DEF HitsIn
    <3>3. ASSUME NEW i \in DOMAIN open PROVE Range(open[i]) \in SUBSET UNION {Range(e[p]) : p \in P}
      <4>1. CASE i \in joined
        <5>1. Range(open[i]) \in SUBSET Range(e[k])
          BY <1>5, <1>8, <2>4, <4>1
        <5> QED BY <2>3, <5>1
      <4>2. CASE i \notin joined
        <5>1. i \in P /\ e[i] = open[i]
          BY <2>2, <2>3, <2>4, <4>2
        <5> QED BY <5>1
      <4> QED BY <4>1, <4>2
    <3>4. h \in Range(e[k]) /\ k \in P
      BY <1>8, <2>3, <2>4
    <3>5. HitsIn(open) \in SUBSET UNION {Range(e[p]) : p \in P}
      BY <3>3 DEF HitsIn
    <3>6. UNION {Range(e[p]) : p \in P} \in SUBSET (HitsIn(open) \cup {h})
      BY <3>1, <3>2
    <3> QED BY <3>4, <3>5, <3>6
  <2>7. ASSUME Once(open), h \notin HitsIn(open) PROVE OnceAt(e, P)
    <3>1. ASSUME NEW i \in P, i # k, NEW g \in Range(open[i]) PROVE g \notin Range(grown)
      <4>1. i \in DOMAIN open /\ i \notin joined
        BY <2>3, <2>4, <3>1
      <4>2. g # h
        BY <2>7, <4>1 DEF HitsIn
      <4>3. ASSUME g \in Range(t) PROVE FALSE
        <5>1. PICK j \in joined : g \in Range(open[j])
          BY <1>5, <4>3
        <5>2. PICK u \in DOMAIN open[i], v \in DOMAIN open[j] : open[i][u] = g /\ open[j][v] = g
          BY <3>1, <5>1 DEF Range
        <5>3. SameHit(open, i, j, u, v) /\ j \in DOMAIN open
          BY <1>3, <5>2 DEF SameHit
        <5>4. i = j
          BY <2>7, <4>1, <5>3 DEF Once, OnceAt
        <5> QED BY <4>1, <5>4
      <4> QED BY <1>8, <4>2, <4>3
    <3> SUFFICES ASSUME NEW i \in P, NEW j \in P, NEW u, NEW v, SameHit(e, i, j, u, v)
                 PROVE  i = j /\ u = v
      BY DEF OnceAt
    <3>2. u \in DOMAIN e[i] /\ v \in DOMAIN e[j] /\ e[i][u] = e[j][v]
          /\ e[i][u] \in Range(e[i]) /\ e[j][v] \in Range(e[j])
      BY DEF SameHit, Range
    <3>3. i \in DOMAIN open /\ j \in DOMAIN open
      BY <2>4
    <3>4. CASE i = k /\ j = k
      <4>1. Injective(grown)
        BY <1>8, <2>7
      <4> QED BY <2>4, <3>2, <3>4, <4>1 DEF Injective
    <3>5. CASE i # k /\ j # k
      <4>1. SameHit(open, i, j, u, v)
        BY <2>4, <3>2, <3>3, <3>5 DEF SameHit
      <4> QED BY <2>7, <3>3, <4>1 DEF Once, OnceAt
    <3>6. CASE i = k /\ j # k
      BY <2>4, <3>1, <3>2, <3>3, <3>6
    <3>7. CASE i # k /\ j = k
      BY <2>4, <3>1, <3>2, <3>3, <3>7
    <3> QED BY <3>4, <3>5, <3>6, <3>7
  <2>8. ASSUME FirstsSorted(open), \A g \in HitsIn(open) : g.toa <= h.toa
        PROVE  FirstsSortedAt(e, P)
    <3>1. ASSUME NEW i \in DOMAIN open
          PROVE  /\ FirstOf(open[i]) \in Nat /\ \A g \in Range(open[i]) : FirstOf(open[i]) <= g.toa
                 /\ \E g \in Range(open[i]) : FirstOf(open[i]) = g.toa
                 /\ FirstOf(open[i]) <= h.toa
      <4>1. open[i] \in Cluster
        OBVIOUS
      <4>2. /\ FirstOf(open[i]) \in Nat /\ \A g \in Range(open[i]) : FirstOf(open[i]) <= g.toa
            /\ \E g \in Range(open[i]) : FirstOf(open[i]) = g.toa
        BY <4>1, FirstOfIn
      <4>3. Range(open[i]) \in SUBSET HitsIn(open)
        BY DEF HitsIn
      <4> QED BY <2>8, <4>2, <4>3
    <3>2. ASSUME NEW g \in Range(grown) PROVE FirstOf(open[k]) <= g.toa
      <4>1. CASE g = h
        BY <2>2, <3>1, <4>1
      <4>2. CASE g \in Range(t)
        <5>1. PICK j \in joined : g \in Range(open[j])
          BY <1>5, <4>2
        <5>2. FirstOf(open[k]) <= FirstOf(open[j]) /\ FirstOf(open[j]) <= g.toa
          BY <1>3, <2>2, <2>8, <3>1, <5>1 DEF FirstsSorted, FirstsSortedAt
        <5>3. FirstOf(open[k]) \in Nat /\ FirstOf(open[j]) \in Nat /\ g.toa \in Nat
          <6>1. g \in Hit
            BY <1>8, RangeOfCluster
          <6> QED BY <1>3, <2>2, <3>1, <6>1 DEF Hit
        <5> QED BY <5>2, <5>3
      <4> QED BY <1>8, <4>1, <4>2
    <3>3. FirstOf(grown) = FirstOf(open[k])
      <4>1. PICK f \in Range(open[k]) : FirstOf(open[k]) = f.toa
        BY <2>2, <3>1
      <4>2. f \in Range(grown)
        BY <1>5, <1>8, <2>2, <4>1
      <4>3. \A g \in Range(grown) : f.toa <= g.toa
        BY <3>2, <4>1
      <4>4. Range(grown) \in SUBSET Hit
        BY <1>8, RangeOfCluster
      <4>5. FirstToa(Range(grown)) = f.toa
        BY <4>2, <4>3, <4>4, FirstIs
      <4> QED BY <4>1, <4>5 DEF FirstOf
    <3>4. \A i \in DOMAIN open : FirstOf(e[i]) = FirstOf(open[i])
      BY <2>4, <3>3
    <3> QED BY <2>4, <2>8, <3>4 DEF FirstsSorted, FirstsSortedAt
  <2> QED BY <2>4, <2>5, <2>6, <2>7, <2>8, KeptClusters
<1> QED BY <1>9, <1>10

LEMMA LaneClustersFacts ==
    ASSUME NEW hs \in Seq(Hit)
    PROVE  /\ LaneClusters(hs) \in Seq(Cluster)
           /\ HitsIn(LaneClusters(hs)) = Range(hs)
           /\ Injective(hs) => Once(LaneClusters(hs))
           /\ InTime(hs) => FirstsSorted(LaneClusters(hs))
<1> DEFINE Rule(g) == [n \in 0..Len(hs) |-> IF n = 0 THEN <<>> ELSE WithHit(g[n - 1], hs[n])]
           open == CHOOSE g : g = Rule(g)
           F == [n \in 1..Len(hs) |-> [o \in Seq(Cluster) |-> WithHit(o, hs[n])]]
           a == <<>>
<1>1. Len(hs) \in Nat /\ a \in Seq(Cluster) /\ DOMAIN hs = 1..Len(hs)
      /\ \A n \in 1..Len(hs) : hs[n] \in Hit
  OBVIOUS
<1>2. F \in [1..Len(hs) -> [Seq(Cluster) -> Seq(Cluster)]]
  <2>1. \A n \in 1..Len(hs), o \in Seq(Cluster) : WithHit(o, hs[n]) \in Seq(Cluster)
    BY <1>1, WithHitFacts
  <2> QED BY <2>1
<1>3. PICK g : Iterated(g, F, Seq(Cluster), a, Len(hs))
  <2>1. Iterable(F, Seq(Cluster), a, Len(hs))
    BY <1>1, <1>2 DEF Iterable
  <2> HIDE DEF F, a, open
  <2> QED BY <2>1, Iterates
<1>4. g \in [0..Len(hs) -> Seq(Cluster)] /\ g[0] = a
      /\ \A n \in 1..Len(hs) : g[n] = F[n][g[n - 1]]
  <2> HIDE DEF F, a
  <2> QED BY <1>3 DEF Iterated
<1>5. \A n \in 1..Len(hs) : g[n] = WithHit(g[n - 1], hs[n])
  <2> SUFFICES ASSUME NEW n \in 1..Len(hs) PROVE g[n] = WithHit(g[n - 1], hs[n])
    OBVIOUS
  <2>1. g[n] = F[n][g[n - 1]]
    <3> HIDE DEF F, a
    <3> QED BY <1>4
  <2>2. PICK o \in Seq(Cluster) : o = g[n - 1]
    <3> HIDE DEF F, a
    <3>1. n - 1 \in 0..Len(hs)
      BY <1>1
    <3> QED BY <1>4, <3>1
  <2>3. F[n][o] = WithHit(o, hs[n])
    BY <2>2
  <2> HIDE DEF F
  <2> QED BY <2>1, <2>2, <2>3
<1>6. g = Rule(g)
  <2>1. \A n \in 0..Len(hs) : n = 0 \/ n \in 1..Len(hs)
    BY <1>1
  <2>2. 0 \notin 1..Len(hs)
    BY <1>1
  <2>3. \A n \in 0..Len(hs) : g[n] = IF n = 0 THEN <<>> ELSE WithHit(g[n - 1], hs[n])
    BY <1>4, <1>5, <2>1, <2>2
  <2> QED BY <1>4, <2>3
<1>7. open = Rule(open)
  BY <1>6
<1>8. open[0] = <<>> /\ \A n \in 1..Len(hs) : open[n] = WithHit(open[n - 1], hs[n])
  <2> HIDE DEF open
  <2>1. \A n \in 0..Len(hs) : open[n] = IF n = 0 THEN <<>> ELSE WithHit(open[n - 1], hs[n])
    BY <1>7
  <2>2. 0 \in 0..Len(hs) /\ \A n \in 1..Len(hs) : n \in 0..Len(hs) /\ n # 0
    BY <1>1
  <2> QED BY <2>1, <2>2
<1>9. LaneClusters(hs) = open[Len(hs)]
  BY DEF LaneClusters
<1> HIDE DEF open
<1> DEFINE Upto(n) == {hs[k] : k \in 1..n}
           Good(n, o) == /\ o \in Seq(Cluster) /\ HitsIn(o) = Upto(n)
                         /\ Injective(hs) => Once(o)
                         /\ InTime(hs) => FirstsSorted(o)
           N == {n \in Nat : n <= Len(hs) => Good(n, open[n])}
<1>10. 0 \in N
  <2>1. DOMAIN <<>> = {} /\ <<>> \in Seq(Cluster) /\ 1..0 = {}
    OBVIOUS
  <2>2. HitsIn(<<>>) = {} /\ Once(<<>>) /\ FirstsSorted(<<>>) /\ Upto(0) = {}
    BY <2>1 DEF HitsIn, Once, OnceAt, FirstsSorted, FirstsSortedAt
  <2> QED BY <1>8, <2>1, <2>2
<1>11. ASSUME NEW n \in Nat, n \in N PROVE n + 1 \in N
  <2>0. SUFFICES ASSUME n + 1 <= Len(hs) PROVE Good(n + 1, open[n + 1])
    <3> HIDE DEF Good
    <3> QED OBVIOUS
  <2>1. n <= Len(hs) /\ n + 1 \in 1..Len(hs) /\ (n + 1) - 1 = n
        /\ 1..n \subseteq 1..Len(hs) /\ n + 1 \notin 1..n /\ 1..n \subseteq 1..(n + 1)
        /\ n + 1 \in 1..(n + 1) /\ \A k \in 1..n : k <= n + 1
    BY <1>1, <2>0
  <2>2. PICK o, h : o = open[n] /\ h = hs[n + 1]
    OBVIOUS
  <2>3. Good(n, o)
    <3> HIDE DEF Good
    <3> QED BY <1>11, <2>1, <2>2
  <2>4. h \in Hit /\ open[n + 1] = WithHit(o, h)
    BY <1>1, <1>8, <2>1, <2>2
  <2>5. o \in Seq(Cluster) /\ HitsIn(o) = Upto(n)
    BY <2>3
  <2>6. Upto(n + 1) = Upto(n) \cup {h}
    <3>1. \A k \in 1..(n + 1) : k \in 1..n \/ k = n + 1
      OBVIOUS
    <3> QED BY <2>1, <2>2, <3>1
  <2>7. ASSUME Injective(hs) PROVE h \notin Upto(n)
    BY <1>1, <2>1, <2>2, <2>7 DEF Injective
  <2>8. ASSUME InTime(hs) PROVE \A f \in Upto(n) : f.toa <= h.toa
    BY <1>1, <2>1, <2>2, <2>8 DEF InTime
  <2>9. WithHit(o, h) \in Seq(Cluster) /\ HitsIn(WithHit(o, h)) = HitsIn(o) \cup {h}
    BY <2>4, <2>5, WithHitFacts
  <2>10. ASSUME Injective(hs) PROVE Once(WithHit(o, h))
    <3>1. Once(o) /\ h \notin HitsIn(o)
      BY <2>3, <2>5, <2>7, <2>10
    <3> QED BY <2>4, <2>5, <3>1, WithHitFacts
  <2>11. ASSUME InTime(hs) PROVE FirstsSorted(WithHit(o, h))
    <3>1. FirstsSorted(o) /\ \A f \in HitsIn(o) : f.toa <= h.toa
      BY <2>3, <2>5, <2>8, <2>11
    <3> QED BY <2>4, <2>5, <3>1, WithHitFacts
  <2> HIDE DEF Upto
  <2> QED BY <2>4, <2>5, <2>6, <2>9, <2>10, <2>11
<1>12. Nat \subseteq N
  <2> HIDE DEF N
  <2> QED BY <1>10, <1>11, Induction
<1>13. Good(Len(hs), open[Len(hs)])
  <2> HIDE DEF Good
  <2> QED BY <1>1, <1>12
<1>14. Upto(Len(hs)) = Range(hs)
  BY <1>1 DEF Range
<1> QED BY <1>9, <1>13, <1>14

\* Every hit goes to one of the lanes.
LEMMA PipeIndexIn ==
    ASSUME NEW h \in Hit
    PROVE  PipeIndex(h) \in Lane
<1>1. PICK t \in Nat : t = h.toa
  BY DEF Hit
<1>2. PICK n \in Nat \ {0}, s \in Nat \ {0} : n = Lanes /\ s = SwitchLen
  BY MergerAssumption
<1>3. PICK p : p = n * s
  OBVIOUS
<1>4. p \in Nat \ {0}
  BY <1>3
<1>5. PICK r \in 0..(p - 1) : r = t % p
  BY <1>4
<1>6. PICK q \in Int : q = r \div s
  BY <1>5
<1>7. s * q <= r /\ r < s * q + s
  BY <1>5, <1>6
<1>8. q >= 0
  <2> SUFFICES ASSUME q <= -1 PROVE FALSE
    OBVIOUS
  <2>1. s * q <= s * (-1)
    OBVIOUS
  <2> QED BY <1>5, <1>7, <2>1
<1>9. q < n
  <2> SUFFICES ASSUME q >= n PROVE FALSE
    OBVIOUS
  <2>1. s * q >= s * n
    OBVIOUS
  <2>2. s * n = p
    BY <1>3
  <2> QED BY <1>5, <1>7, <2>1, <2>2
<1>10. q + 1 \in 1..n
  BY <1>8, <1>9
<1>11. PipeIndex(h) = q + 1
  BY <1>1, <1>2, <1>3, <1>5, <1>6 DEF PipeIndex
<1> QED BY <1>2, <1>10, <1>11 DEF Lane

LEMMA SendsToIn ==
    ASSUME NEW a \in Architectures, NEW i \in Lane, NEW c
    PROVE  SendsTo(a, i, c) \in Lane
<1>1. Lanes \in Nat /\ Lanes # 0 /\ Lane = 1..Lanes
  BY MergerAssumption DEF Lane
<1>2. 1 \in Lane /\ (i % Lanes) + 1 \in Lane
  BY <1>1
<1>3. a = "simple" \/ a = "linear"
  BY DEF Architectures
<1> QED BY <1>2, <1>3 DEF SendsTo

\* The hits of a lane are in its clusters, each in one, and those are in order.
LEMMA DeliveredFacts ==
    ASSUME NEW hs \in Seq(Hit), Injective(hs), InTime(hs), NEW i \in Lane
    PROVE  /\ Delivered(hs)[i] \in Seq(Cluster)
           /\ HitsIn(Delivered(hs)[i]) = {hs[k] : k \in {l \in DOMAIN hs : PipeIndex(hs[l]) = i}}
           /\ Once(Delivered(hs)[i])
           /\ FirstsSorted(Delivered(hs)[i])
<1>1. PICK P : P = {k \in DOMAIN hs : PipeIndex(hs[k]) = i}
  OBVIOUS
<1>2. PICK mine : mine = Kept(hs, P)
  OBVIOUS
<1>3. mine \in Seq(Hit) /\ Range(mine) = {hs[p] : p \in P} /\ Injective(mine) /\ InTime(mine)
  <2>1. P \in SUBSET DOMAIN hs
    BY <1>1
  <2> QED BY <1>2, <2>1, KeptHits
<1>4. Delivered(hs)[i] = LaneClusters(mine)
  BY <1>1, <1>2 DEF Delivered
<1> QED BY <1>1, <1>3, <1>4, LaneClustersFacts

-----------------------------------------------------------------------------
(* The inductive invariant: where the hits are, and the order of clusters. *)

Place == 0..(Lanes + 1)

HitsAt(m, p) == HitsIn(Holds(m, p))

\* Each hit is in one cluster, at one place of one merger.
Conserved ==
    /\ \A m \in Lane, p \in Place : Once(Holds(m, p))
    /\ \A m, l \in Lane, p, q \in Place :
          <<m, p>> # <<l, q>> => HitsAt(m, p) \cap HitsAt(l, q) = {}
    /\ \A m \in Lane, p \in Place : HitsAt(m, p) \in SUBSET Range(hits)
    /\ \A h \in Range(hits) : \E m \in Lane, p \in Place : h \in HitsAt(m, p)

\* A deque in the order of its entries' firsts, invalid ones included.
OrderedDeque(d) ==
    /\ \A i \in DOMAIN d : d[i].first = FirstOf(d[i].hits)
    /\ \A i, j \in DOMAIN d : i <= j => d[i].first <= d[j].first

\* What was written, and what waits, begins by time t.
WrittenBy(o, t) == \A k \in DOMAIN o : FirstOf(o[k]) <= t

WaitsBy(d, t) == \A k \in DOMAIN d : d[k].first <= t

\* What is written is no later than what waits, and that no later than what is
\* still to be read.
InOrder ==
    \A m \in Lane :
        /\ FirstsSorted(output[m]) /\ OrderedDeque(unfinished[m])
        /\ \A k \in DOMAIN unfinished[m] : WrittenBy(output[m], unfinished[m][k].first)
        /\ \A i \in Lane :
              /\ FirstsSorted(pipes[m][i])
              /\ \A j \in DOMAIN pipes[m][i] :
                    /\ WrittenBy(output[m], FirstOf(pipes[m][i][j]))
                    /\ WaitsBy(unfinished[m], FirstOf(pipes[m][i][j]))

\* Every cluster consists of clusters of the lanes that belong together.
Whole ==
    \A m \in Lane, p \in Place : \A i \in DOMAIN Holds(m, p) :
        Connected(Range(Holds(m, p)[i]), Parts)

MergerInv == Shape /\ Leading /\ Conserved /\ InOrder /\ Whole

-----------------------------------------------------------------------------
LEMMA LaneFacts ==
    /\ Lane = 1..Lanes /\ Lanes \in Nat \ {0} /\ 1 \in Lane
    /\ Place = Lane \cup {0, Lanes + 1} /\ 0 \notin Lane /\ Lanes + 1 \notin Lane
<1>1. Lane = 1..Lanes /\ Lanes \in Nat \ {0}
  BY MergerAssumption DEF Lane
<1> QED BY <1>1 DEF Place

LEMMA HoldsFacts ==
    ASSUME NEW m \in Lane
    PROVE  /\ Holds(m, 0) = [i \in Waiting(m) |-> unfinished[m][i].hits]
           /\ \A i \in Lane : Holds(m, i) = pipes[m][i]
           /\ Holds(m, Lanes + 1) = output[m]
<1>1. 0 \notin Lane /\ Lanes + 1 \notin Lane /\ Lanes + 1 # 0
  BY LaneFacts
<1>2. \A i \in Lane : i # 0
  BY <1>1
<1> QED BY <1>1, <1>2 DEF Holds

\* The clusters that wait, as a part of the deque.
LEMMA WaitingFacts ==
    ASSUME NEW m \in Lane
    PROVE  /\ Once(Holds(m, 0)) <=> OnceAt(HitsOf(unfinished[m]), ValidIn(unfinished[m]))
           /\ HitsAt(m, 0) = Held(unfinished[m])
<1>1. PICK w, d : w = Holds(m, 0) /\ d = unfinished[m]
  OBVIOUS
<1>2. w = [i \in ValidIn(d) |-> d[i].hits]
  BY <1>1, HoldsFacts DEF Waiting, ValidIn
<1>3. DOMAIN w = ValidIn(d) /\ \A i \in ValidIn(d) : w[i] = HitsOf(d)[i] /\ w[i] = d[i].hits
  BY <1>2 DEF HitsOf, ValidIn
<1>4. Once(w) <=> OnceAt(HitsOf(d), ValidIn(d))
  BY <1>3 DEF Once, OnceAt, SameHit
<1>5. HitsIn(w) = Held(d)
  BY <1>3 DEF HitsIn, Held
<1> QED BY <1>1, <1>4, <1>5 DEF HitsAt

\* The stream of hits: in time order, and none twice.
LEMMA InitHits ==
    ASSUME Init
    PROVE  hits \in Seq(Hit) /\ Injective(hits) /\ InTime(hits)
<1>1. PICK t \in Times : \E p \in [DOMAIN t -> UNION {Pixels[i] : i \in DOMAIN t}] :
            /\ \A i \in DOMAIN t : p[i] \in Pixels[i]
            /\ hits = [i \in DOMAIN t |->
                         [id |-> i, x |-> p[i][1], y |-> p[i][2], toa |-> t[i]]]
  BY DEF Init
<1>2. PICK p \in [DOMAIN t -> UNION {Pixels[i] : i \in DOMAIN t}] :
            /\ \A i \in DOMAIN t : p[i] \in Pixels[i]
            /\ hits = [i \in DOMAIN t |->
                         [id |-> i, x |-> p[i][1], y |-> p[i][2], toa |-> t[i]]]
  BY <1>1
<1>3. /\ t \in Seq(Nat) /\ DOMAIN t \subseteq DOMAIN Pixels
      /\ \A i, j \in DOMAIN t : i <= j => t[i] <= t[j]
      /\ \A i \in DOMAIN Pixels : Pixels[i] \subseteq (0..(Width - 1)) \X (0..(Width - 1))
  BY MergerAssumption
<1>4. DOMAIN t = 1..Len(t) /\ Len(t) \in Nat /\ \A i \in DOMAIN t : t[i] \in Nat /\ i \in Nat
  <2>1. t \in Seq(Nat)
    BY <1>3
  <2> QED BY ONLY <2>1
<1>5. ASSUME NEW i \in DOMAIN t
      PROVE  hits[i] \in Hit /\ hits[i].id = i /\ hits[i].toa = t[i]
  <2>1. p[i] \in (0..(Width - 1)) \X (0..(Width - 1))
    BY <1>2, <1>3
  <2>2. p[i][1] \in 0..(Width - 1) /\ p[i][2] \in 0..(Width - 1)
    BY <2>1
  <2>3. hits[i] = [id |-> i, x |-> p[i][1], y |-> p[i][2], toa |-> t[i]]
    BY <1>2
  <2> QED BY <1>4, <2>2, <2>3 DEF Hit
<1>6. DOMAIN hits = DOMAIN t /\ hits = [i \in DOMAIN t |-> hits[i]]
  BY <1>2
<1>7. hits \in Seq(Hit)
  <2>1. hits \in [1..Len(t) -> Hit]
    BY <1>4, <1>5, <1>6
  <2> QED BY <1>4, <2>1
<1>8. Injective(hits)
  BY <1>5, <1>6 DEF Injective
<1>9. InTime(hits)
  BY <1>3, <1>5, <1>6 DEF InTime
<1> QED BY <1>7, <1>8, <1>9

\* What merger m gets from lane i, as places among the clusters of the lane.
Sent(m, i) == {k \in DOMAIN Delivered(hits)[i] : SendsTo(arch, i, Delivered(hits)[i][k]) = m}

LEMMA InitPipes ==
    ASSUME Init, NEW m \in Lane, NEW i \in Lane
    PROVE  /\ pipes[m][i] \in Seq(Cluster)
           /\ HitsIn(pipes[m][i]) = UNION {Range(Delivered(hits)[i][k]) : k \in Sent(m, i)}
           /\ Range(pipes[m][i]) \in SUBSET Range(Delivered(hits)[i])
           /\ Once(pipes[m][i]) /\ FirstsSorted(pipes[m][i])
<1>1. PICK s, P : s = Delivered(hits)[i] /\ P = Sent(m, i)
  OBVIOUS
<1>2. s \in Seq(Cluster) /\ Once(s) /\ FirstsSorted(s)
  BY <1>1, InitHits, DeliveredFacts
<1>3. P = {k \in DOMAIN s : SendsTo(arch, i, s[k]) = m} /\ P \in SUBSET DOMAIN s
  BY <1>1 DEF Sent
<1>4. pipes[m][i] = Kept(s, P)
  BY <1>1, <1>3 DEF Init
<1>5. OnceAt(s, P) /\ FirstsSortedAt(s, P)
  BY <1>2, <1>3 DEF Once, OnceAt, FirstsSorted, FirstsSortedAt
<1>6. {s[p] : p \in P} \in SUBSET Range(s)
  BY <1>3 DEF Range
<1> QED BY <1>1, <1>2, <1>3, <1>4, <1>5, <1>6, KeptClusters

LEMMA InitShape == Init => Shape /\ Leading
<1> SUFFICES ASSUME Init PROVE Shape /\ Leading
  OBVIOUS
<1>1. pipes \in [Lane -> [Lane -> Seq(Cluster)]]
  <2>1. \A m, i \in Lane : pipes[m][i] \in Seq(Cluster)
    BY InitPipes
  <2>2. DOMAIN pipes = Lane /\ pipes = [m \in Lane |-> [i \in Lane |-> pipes[m][i]]]
    BY DEF Init
  <2> QED BY <2>1, <2>2
<1>2. Shape
  <2>1. <<>> \in Seq(Waits) /\ <<>> \in Seq(Cluster)
    OBVIOUS
  <2>2. arch \in Architectures
    BY DEF Init
  <2>3. /\ unfinished = [m \in Lane |-> <<>>] /\ borderingOffset = [m \in Lane |-> 1]
        /\ output = [m \in Lane |-> <<>>] /\ closed = [m \in Lane |-> FALSE]
    BY DEF Init
  <2> QED BY <1>1, <2>1, <2>2, <2>3, InitHits DEF Shape
<1>3. Leading
  <2> SUFFICES ASSUME NEW m \in Lane PROVE Leads(unfinished[m], borderingOffset[m])
    BY DEF Leading
  <2>1. unfinished[m] = <<>> /\ DOMAIN <<>> = {}
    BY DEF Init
  <2> QED BY <2>1 DEF Leads, SkipsNone
<1> QED BY <1>2, <1>3

LEMMA InitOrder == Init => InOrder
<1> SUFFICES ASSUME Init, NEW m \in Lane
             PROVE  /\ FirstsSorted(output[m]) /\ OrderedDeque(unfinished[m])
                    /\ \A k \in DOMAIN unfinished[m] : WrittenBy(output[m], unfinished[m][k].first)
                    /\ \A i \in Lane :
                          /\ FirstsSorted(pipes[m][i])
                          /\ \A j \in DOMAIN pipes[m][i] :
                                /\ WrittenBy(output[m], FirstOf(pipes[m][i][j]))
                                /\ WaitsBy(unfinished[m], FirstOf(pipes[m][i][j]))
  BY DEF InOrder
<1>1. output[m] = <<>> /\ unfinished[m] = <<>> /\ DOMAIN <<>> = {}
  BY DEF Init
<1> QED BY <1>1, InitPipes DEF FirstsSorted, FirstsSortedAt, OrderedDeque, WrittenBy, WaitsBy

LEMMA InitConserved == Init => Conserved
<1> SUFFICES ASSUME Init PROVE Conserved
  OBVIOUS
<1>1. hits \in Seq(Hit) /\ Injective(hits) /\ InTime(hits)
  BY InitHits
<1>2. ASSUME NEW m \in Lane
      PROVE  /\ DOMAIN Holds(m, 0) = {} /\ DOMAIN Holds(m, Lanes + 1) = {}
             /\ \A i \in Lane : Holds(m, i) = pipes[m][i]
  <2>1. unfinished[m] = <<>> /\ output[m] = <<>> /\ DOMAIN <<>> = {}
    BY DEF Init
  <2>2. Waiting(m) = {}
    BY <2>1 DEF Waiting
  <2> QED BY <2>1, <2>2, HoldsFacts
<1>3. ASSUME NEW m \in Lane, NEW p \in {0, Lanes + 1}
      PROVE  Once(Holds(m, p)) /\ HitsAt(m, p) = {}
  <2>1. DOMAIN Holds(m, p) = {}
    BY <1>2
  <2> QED BY <2>1 DEF Once, OnceAt, HitsAt, HitsIn
<1>4. ASSUME NEW m \in Lane, NEW i \in Lane
      PROVE  /\ Once(Holds(m, i))
             /\ HitsAt(m, i) = UNION {Range(Delivered(hits)[i][k]) : k \in Sent(m, i)}
  BY <1>2, InitPipes DEF HitsAt
<1>5. ASSUME NEW i \in Lane
      PROVE  /\ Delivered(hits)[i] \in Seq(Cluster) /\ Once(Delivered(hits)[i])
             /\ HitsIn(Delivered(hits)[i])
                  = {hits[k] : k \in {l \in DOMAIN hits : PipeIndex(hits[l]) = i}}
  BY <1>1, DeliveredFacts
<1>6. ASSUME NEW m \in Lane, NEW i \in Lane, NEW h \in HitsAt(m, i)
      PROVE  /\ h \in Range(hits) /\ PipeIndex(h) = i
             /\ \E k \in Sent(m, i) : h \in Range(Delivered(hits)[i][k])
  <2>1. PICK k \in Sent(m, i) : h \in Range(Delivered(hits)[i][k])
    BY <1>4
  <2>2. h \in HitsIn(Delivered(hits)[i])
    BY <2>1 DEF Sent, HitsIn
  <2>3. PICK l \in DOMAIN hits : h = hits[l] /\ PipeIndex(hits[l]) = i
    BY <1>5, <2>2
  <2> QED BY <2>1, <2>3 DEF Range
<1>7. ASSUME NEW m \in Lane, NEW l \in Lane, NEW i \in Lane, m # l
      PROVE  HitsAt(m, i) \cap HitsAt(l, i) = {}
  <2> SUFFICES ASSUME NEW h \in HitsAt(m, i), h \in HitsAt(l, i) PROVE FALSE
    OBVIOUS
  <2>1. PICK s : s = Delivered(hits)[i]
    OBVIOUS
  <2>2. PICK k \in Sent(m, i), j \in Sent(l, i) : h \in Range(s[k]) /\ h \in Range(s[j])
    BY <1>6, <2>1
  <2>3. k \in DOMAIN s /\ j \in DOMAIN s /\ SendsTo(arch, i, s[k]) = m /\ SendsTo(arch, i, s[j]) = l
    BY <2>1, <2>2 DEF Sent
  <2>4. PICK u \in DOMAIN s[k], v \in DOMAIN s[j] : s[k][u] = h /\ s[j][v] = h
    BY <2>2 DEF Range
  <2>5. SameHit(s, k, j, u, v)
    BY <2>4 DEF SameHit
  <2>6. k = j
    BY <1>5, <2>1, <2>3, <2>5 DEF Once, OnceAt
  <2> QED BY <1>7, <2>3, <2>6
<1>8. ASSUME NEW h \in Range(hits) PROVE \E m, i \in Lane : h \in HitsAt(m, i)
  <2>1. PICK l \in DOMAIN hits : h = hits[l]
    BY DEF Range
  <2>2. h \in Hit
    BY <1>1, <2>1
  <2>3. PICK i \in Lane : i = PipeIndex(h)
    BY <2>2, PipeIndexIn
  <2>4. h \in HitsIn(Delivered(hits)[i])
    BY <1>5, <2>1, <2>3
  <2>5. PICK k \in DOMAIN Delivered(hits)[i] : h \in Range(Delivered(hits)[i][k])
    BY <2>4 DEF HitsIn
  <2>6. arch \in Architectures
    BY DEF Init
  <2>7. PICK m \in Lane : m = SendsTo(arch, i, Delivered(hits)[i][k])
    BY <2>6, SendsToIn
  <2>8. k \in Sent(m, i)
    BY <2>5, <2>7 DEF Sent
  <2> QED BY <1>4, <2>5, <2>8
<1>9. Place = Lane \cup {0, Lanes + 1}
  BY LaneFacts
<1>10. \A m \in Lane, p \in Place : Once(Holds(m, p))
  BY <1>3, <1>4, <1>9
<1>11. ASSUME NEW m \in Lane, NEW l \in Lane, NEW p \in Place, NEW q \in Place, <<m, p>> # <<l, q>>
       PROVE  HitsAt(m, p) \cap HitsAt(l, q) = {}
  <2>1. CASE p \in Lane /\ q \in Lane
    <3>1. CASE p # q
      BY <1>6, <2>1, <3>1
    <3>2. CASE p = q
      <4>1. m # l
        BY <1>11, <3>2
      <4> QED BY <1>7, <2>1, <3>2, <4>1
    <3> QED BY <3>1, <3>2
  <2>2. CASE p \in {0, Lanes + 1} \/ q \in {0, Lanes + 1}
    BY <1>3, <2>2
  <2> QED BY <1>9, <2>1, <2>2
<1>12. \A m \in Lane, p \in Place : HitsAt(m, p) \in SUBSET Range(hits)
  BY <1>3, <1>6, <1>9
<1>13. \A h \in Range(hits) : \E m \in Lane, p \in Place : h \in HitsAt(m, p)
  BY <1>8, <1>9
<1> QED BY <1>10, <1>11, <1>12, <1>13 DEF Conserved

\* A cluster of a lane is one of the parts.
LEMMA InitWhole == Init => Whole
<1> SUFFICES ASSUME Init, NEW m \in Lane, NEW p \in Place, NEW j \in DOMAIN Holds(m, p)
             PROVE  Connected(Range(Holds(m, p)[j]), Parts)
  BY DEF Whole
<1>1. p \in Lane
  <2>1. unfinished[m] = <<>> /\ output[m] = <<>> /\ DOMAIN <<>> = {}
    BY DEF Init
  <2>2. Waiting(m) = {}
    BY <2>1 DEF Waiting
  <2>3. DOMAIN Holds(m, 0) = {} /\ DOMAIN Holds(m, Lanes + 1) = {}
    BY <2>1, <2>2, HoldsFacts
  <2> QED BY <2>3, LaneFacts
<1>2. PICK c : c = Holds(m, p)[j]
  OBVIOUS
<1>3. c \in Range(pipes[m][p])
  BY <1>1, <1>2, HoldsFacts DEF Range
<1>4. c \in Range(Delivered(hits)[p])
  BY <1>1, <1>3, InitPipes
<1>5. Range(c) \in Parts
  BY <1>1, <1>4 DEF Parts
<1>6. Connected(Range(c), Parts)
  <2> SUFFICES ASSUME NEW some \in (SUBSET Range(c)) \ {{}, Range(c)}
               PROVE  \E g \in some, h \in Range(c) \ some :
                         Close(g, h) \/ \E q \in Parts : {g, h} \subseteq q
    BY DEF Connected
  <2>1. some \subseteq Range(c) /\ some # {} /\ some # Range(c)
    OBVIOUS
  <2>2. PICK g \in some : TRUE
    BY <2>1
  <2>3. PICK h \in Range(c) \ some : TRUE
    BY <2>1
  <2>4. {g, h} \subseteq Range(c)
    BY <2>1, <2>2, <2>3
  <2> QED BY <1>5, <2>2, <2>3, <2>4
<1> QED BY <1>2, <1>6

-----------------------------------------------------------------------------
(* The steps keep the clusters in order.                                   *)

\* A cluster's first toa when a later one's hits follow its own.
LEMMA JoinedFirst ==
    ASSUME NEW a \in Cluster, NEW b \in Cluster, FirstOf(a) <= FirstOf(b)
    PROVE  a \o b \in Cluster /\ FirstOf(a \o b) = FirstOf(a)
<1>1. PICK c : c = a \o b
  OBVIOUS
<1>2. c \in Cluster /\ Range(c) = Range(a) \cup Range(b)
  BY <1>1, JoinedHits DEF Cluster
<1>3. PICK g \in Range(a) : FirstOf(a) = g.toa
  BY FirstOfIn
<1>4. ASSUME NEW h \in Range(c) PROVE g.toa <= h.toa
  <2>1. CASE h \in Range(a)
    BY <1>3, <2>1, FirstOfIn
  <2>2. CASE h \in Range(b)
    <3>1. FirstOf(b) <= h.toa /\ FirstOf(a) \in Nat /\ FirstOf(b) \in Nat
      BY <2>2, FirstOfIn
    <3>2. h.toa \in Nat
      BY <2>2, RangeOfCluster DEF Hit
    <3> QED BY <1>3, <3>1, <3>2
  <2> QED BY <1>2, <2>1, <2>2
<1>5. Range(c) \in SUBSET Hit /\ g \in Range(c)
  BY <1>2, <1>3, RangeOfCluster
<1>6. FirstToa(Range(c)) = g.toa
  BY <1>4, <1>5, FirstIs
<1> QED BY <1>1, <1>2, <1>3, <1>6 DEF FirstOf

\* What was placed and what was there begin where they did.
FirstsFrom(d, c, d2) ==
    /\ DOMAIN d \subseteq DOMAIN d2
    /\ \A j \in DOMAIN d2 : d2[j].first = IF j \in DOMAIN d THEN d[j].first ELSE FirstOf(c)

LEMMA PlacedFirsts ==
    ASSUME NEW d \in Seq(Waits), NEW off \in Nat \ {0}, Leads(d, off), NEW c \in Cluster,
           OrderedDeque(d), WaitsBy(d, FirstOf(c)),
           NEW d2, NEW off2, Placed(d, off, c, d2, off2)
    PROVE  OrderedDeque(d2) /\ FirstsFrom(d, c, d2)
<1>1. PICK t \in Nat : t = FirstOf(c)
  BY FirstOfIn
<1>2. \A j \in DOMAIN d : d[j].first \in Int /\ d[j].first <= t /\ d[j].first = FirstOf(d[j].hits)
  BY <1>1, WaitsFacts DEF WaitsBy, OrderedDeque
<1>3. ASSUME NEW e \in Waits, d2 = Append(d, e), e.hits = c, e.first = t
      PROVE  OrderedDeque(d2) /\ FirstsFrom(d, c, d2)
  <2>1. PICK l \in Nat : l = Len(d)
    OBVIOUS
  <2>2. /\ DOMAIN d = 1..l /\ DOMAIN d2 = 1..(l + 1)
        /\ \A j \in 1..(l + 1) : j \in 1..l \/ j = l + 1
        /\ d2[l + 1] = e
        /\ \A j \in 1..l : d2[j] = d[j] /\ j # l + 1
    BY <1>3, <2>1, AppendedWaits
  <2>3. FirstsFrom(d, c, d2)
    <3>1. 1..l \subseteq 1..(l + 1) /\ l + 1 \notin 1..l
      OBVIOUS
    <3> QED BY <1>1, <1>3, <2>2, <3>1 DEF FirstsFrom
  <2>4. \A j \in DOMAIN d2 : d2[j].first = FirstOf(d2[j].hits)
    BY <1>1, <1>2, <1>3, <2>2
  <2>5. ASSUME NEW i \in DOMAIN d2, NEW j \in DOMAIN d2, i <= j PROVE d2[i].first <= d2[j].first
    <3>1. CASE j = l + 1
      <4>1. d2[i].first \in Int /\ d2[i].first <= t
        BY <1>1, <1>2, <1>3, <2>2
      <4> QED BY <1>3, <2>2, <3>1, <4>1
    <3>2. CASE j \in 1..l
      <4>1. i \in 1..l
        BY <2>2, <2>5, <3>2
      <4> QED BY <2>2, <2>5, <3>2, <4>1 DEF OrderedDeque
    <3> QED BY <2>2, <3>1, <3>2
  <2> QED BY <2>3, <2>4, <2>5 DEF OrderedDeque
<1>4. CASE d2 = Append(d, Entry(c, off, FALSE))
  <2>1. PICK e : e = Entry(c, off, FALSE)
    OBVIOUS
  <2>2. e \in Waits /\ e.hits = c /\ e.first = t
    BY <1>1, <2>1, EntryFacts
  <2> QED BY <1>3, <1>4, <2>1, <2>2
<1>5. CASE d2 = WithBorder(d, off, c)
  <2>1. PICK new, found : new = Entry(c, off, TRUE) /\ found = MergeIndices(d, new)
    OBVIOUS
  <2>2. new \in Waits /\ new.hits = c /\ new.first = t
    BY <1>1, <2>1, EntryFacts
  <2>3. CASE found = {}
    <3>1. d2 = Append(d, new)
      BY <1>5, <2>1, <2>3, WithBorderFacts
    <3> QED BY <1>3, <2>2, <3>1
  <2>4. CASE found # {}
    <3>1. PICK k, e : k = Least(found) /\ e = MergedEntry(d, new, found)
                      /\ Merging(d, new, found) /\ MergedAt(d, found, k, e, d2)
      BY <1>5, <2>1, <2>4, WithBorderFacts
    <3>2. /\ DOMAIN d2 = DOMAIN d /\ k \in found /\ \A i \in found : k <= i
          /\ found \in SUBSET DOMAIN d /\ d2[k] = e
          /\ \A i \in DOMAIN d : i # k => d2[i].hits = d[i].hits /\ d2[i].first = d[i].first
      BY <3>1 DEF MergedAt
    <3>3. PICK b \in Waits : b = d[k]
      BY <3>2
    <3>4. PICK f \in Int : f = b.first
      BY WaitsFacts
    <3> DEFINE Q == [n \in 0..Len(d) |-> {a \in Waits : a.first = f /\ FirstOf(a.hits) = f}]
    <3>5. ASSUME NEW a \in Waits, NEW z \in Waits, a.first = f, FirstOf(a.hits) = f,
                 f <= z.first, FirstOf(z.hits) = z.first
          PROVE  LET w == MergeWith(a, z)
                 IN  w \in Waits /\ w.first = f /\ FirstOf(w.hits) = f
      <4>1. PICK w : w = MergeWith(a, z)
        OBVIOUS
      <4>2. w \in Waits /\ w.hits = a.hits \o z.hits
            /\ w.first = IF a.first <= z.first THEN a.first ELSE z.first
        BY <4>1, MergeWithFacts
      <4>3. a.hits \in Cluster /\ z.hits \in Cluster
        BY WaitsFacts
      <4>4. FirstOf(w.hits) = f
        BY <3>5, <4>2, <4>3, JoinedFirst
      <4> QED BY <3>5, <4>1, <4>2, <4>4
    <3>6. b.first = f /\ FirstOf(b.hits) = f /\ f <= t
      BY <1>2, <3>2, <3>3, <3>4
    <3>7. Keeping(d, new, found, Q)
      <4>1. MergeWith(d[k], new) \in Q[0]
        <5>1. 0 \in 0..Len(d)
          OBVIOUS
        <5>2. PICK w : w = MergeWith(b, new)
          OBVIOUS
        <5>3. w \in Waits /\ w.first = f /\ FirstOf(w.hits) = f
          BY <1>1, <2>2, <3>5, <3>6, <5>2
        <5> QED BY <3>3, <5>1, <5>2, <5>3
      <4>2. ASSUME NEW n \in 1..Len(d), NEW a \in Q[n - 1] \cap Waits
            PROVE  MergesAt(d, found, n, a) \in Q[n]
        <5>1. n \in 0..Len(d) /\ n - 1 \in 0..Len(d)
          OBVIOUS
        <5>2. PICK i : i = Len(d) + 1 - n
          OBVIOUS
        <5>3. a \in Waits /\ a.first = f /\ FirstOf(a.hits) = f
          BY <5>1
        <5>4. ASSUME i \in found PROVE MergeWith(a, d[i]) \in Q[n]
          <6>1. PICK z \in Waits : z = d[i]
            BY <3>2, <5>4
          <6>2. f <= z.first /\ FirstOf(z.hits) = z.first
            BY <1>2, <3>2, <3>3, <3>4, <5>4, <6>1 DEF OrderedDeque
          <6>3. PICK w : w = MergeWith(a, z)
            OBVIOUS
          <6>4. w \in Waits /\ w.first = f /\ FirstOf(w.hits) = f
            BY <3>5, <5>3, <6>2, <6>3
          <6> QED BY <5>1, <6>1, <6>3, <6>4
        <5>5. a \in Q[n]
          BY <5>1, <5>3
        <5> HIDE DEF Q
        <5> QED BY <5>2, <5>4, <5>5 DEF MergesAt
      <4> HIDE DEF Q
      <4> QED BY <3>1, <4>1, <4>2 DEF Keeping
    <3>8. e \in Q[Len(d)]
      <4> HIDE DEF Q
      <4> QED BY <3>1, <3>7, MergedIn
    <3>9. e.first = f /\ FirstOf(e.hits) = f
      <4>1. Len(d) \in 0..Len(d)
        OBVIOUS
      <4> QED BY <3>8, <4>1
    <3> HIDE DEF Q
    <3>10. \A i \in DOMAIN d : d2[i].first = d[i].first /\ d2[i].first = FirstOf(d2[i].hits)
      BY <1>2, <3>2, <3>3, <3>4, <3>9
    <3> QED BY <3>2, <3>10 DEF OrderedDeque, FirstsFrom
  <2> QED BY <2>3, <2>4
<1> QED BY <1>4, <1>5 DEF Placed

\* What leaves the front of an ordered deque is written in order.
LEMMA FrontOrder ==
    ASSUME NEW d2 \in Seq(Waits), NEW n \in 0..Len(d2), OrderedDeque(d2),
           NEW o \in Seq(Cluster), FirstsSorted(o),
           \A k \in DOMAIN d2 : WrittenBy(o, d2[k].first)
    PROVE  LET o2 == o \o WrittenOf(SubSeq(d2, 1, n))
               b == SubSeq(d2, n + 1, Len(d2))
           IN  /\ FirstsSorted(o2) /\ OrderedDeque(b)
               /\ \A k \in DOMAIN b : WrittenBy(o2, b[k].first)
               /\ \A t \in Nat : WrittenBy(o, t) /\ WaitsBy(d2, t)
                                    => WrittenBy(o2, t) /\ WaitsBy(b, t)
<1>1. PICK a, b : a = SubSeq(d2, 1, n) /\ b = SubSeq(d2, n + 1, Len(d2))
  OBVIOUS
<1>2. PICK l \in Nat : l = Len(d2) - n
  OBVIOUS
<1>3. /\ a \in Seq(Waits) /\ DOMAIN a = 1..n /\ \A i \in 1..n : a[i] = d2[i]
      /\ b \in Seq(Waits) /\ DOMAIN b = 1..l /\ \A i \in 1..l : b[i] = d2[n + i]
      /\ DOMAIN d2 = 1..(n + l) /\ n \in Nat
  <2>1. Len(d2) = n + l /\ n \in Nat
    BY <1>2
  <2>2. a \in Seq(Waits) /\ DOMAIN a = 1..n /\ \A i \in 1..n : a[i] = d2[i]
    BY <1>1, TwoParts
  <2>3. b \in Seq(Waits) /\ DOMAIN b = 1..l /\ \A i \in 1..l : b[i] = d2[n + i]
    BY <1>1, <1>2, TwoParts
  <2> QED BY <2>1, <2>2, <2>3
<1>4. /\ \A i \in 1..n : i \in DOMAIN d2 /\ i \in Int
      /\ \A i \in 1..l : n + i \in DOMAIN d2 /\ i \in Int
      /\ \A i \in 1..n, j \in 1..l : i <= n + j
      /\ \A i, j \in 1..l : i <= j => n + i <= n + j
  BY <1>3
<1>5. PICK w \in Seq(Cluster) : w = WrittenOf(a)
  BY <1>3, WrittenClusters
<1>6. Range(w) = {a[i].hits : i \in ValidIn(a)} /\ (FirstsSortedAt(HitsOf(a), ValidIn(a)) => FirstsSorted(w))
  BY <1>3, <1>5, WrittenClusters
<1>7. /\ \A k \in DOMAIN d2 : d2[k].first = FirstOf(d2[k].hits) /\ d2[k].first \in Int
      /\ \A i, j \in DOMAIN d2 : i <= j => d2[i].first <= d2[j].first
  BY WaitsFacts DEF OrderedDeque
<1>8. FirstsSorted(w)
  <2> SUFFICES ASSUME NEW i \in ValidIn(a), NEW j \in ValidIn(a), i <= j
               PROVE  FirstOf(HitsOf(a)[i]) <= FirstOf(HitsOf(a)[j])
    BY <1>6 DEF FirstsSortedAt
  <2>1. i \in 1..n /\ j \in 1..n
    BY <1>3 DEF ValidIn
  <2>2. HitsOf(a)[i] = d2[i].hits /\ HitsOf(a)[j] = d2[j].hits
    BY <1>3, <2>1 DEF HitsOf
  <2> QED BY <1>4, <1>7, <2>1, <2>2
<1>9. \A k \in DOMAIN w : \E i \in 1..n : FirstOf(w[k]) = d2[i].first
  <2> SUFFICES ASSUME NEW k \in DOMAIN w PROVE \E i \in 1..n : FirstOf(w[k]) = d2[i].first
    OBVIOUS
  <2>1. w[k] \in Range(w)
    BY DEF Range
  <2>2. PICK i \in ValidIn(a) : w[k] = a[i].hits
    BY <1>6, <2>1
  <2>3. i \in 1..n /\ i \in DOMAIN d2 /\ a[i] = d2[i]
    BY <1>3, <1>4 DEF ValidIn
  <2> QED BY <1>7, <2>2, <2>3
<1>10. PICK o2 : o2 = o \o w
  OBVIOUS
<1>11. FirstsSorted(o2)
  <2>1. \A i \in DOMAIN o, j \in DOMAIN w : FirstOf(o[i]) <= FirstOf(w[j])
    <3> SUFFICES ASSUME NEW i \in DOMAIN o, NEW j \in DOMAIN w PROVE FirstOf(o[i]) <= FirstOf(w[j])
      OBVIOUS
    <3>1. PICK k \in 1..n : FirstOf(w[j]) = d2[k].first
      BY <1>9
    <3> QED BY <1>4, <3>1 DEF WrittenBy
  <2> QED BY <1>8, <1>10, <2>1, JoinedClusters
<1>12. OrderedDeque(b)
  BY <1>3, <1>4, <1>7 DEF OrderedDeque
<1>13. ASSUME NEW t, WrittenBy(o, t), WrittenBy(w, t) PROVE WrittenBy(o2, t)
  <2>1. PICK p \in Nat, q \in Nat : p = Len(o) /\ q = Len(w)
    OBVIOUS
  <2>2. /\ DOMAIN o2 = 1..(p + q) /\ DOMAIN o = 1..p /\ DOMAIN w = 1..q
        /\ \A i \in 1..p : o2[i] = o[i]
        /\ \A i \in 1..q : o2[p + i] = w[i]
    BY <1>10, <2>1
  <2>3. \A i \in 1..(p + q) : i \in 1..p \/ (i - p \in 1..q /\ p + (i - p) = i)
    OBVIOUS
  <2>4. \A i \in DOMAIN o2 : (i \in DOMAIN o /\ o2[i] = o[i]) \/ (i - p \in DOMAIN w /\ o2[i] = w[i - p])
    BY <2>2, <2>3
  <2> QED BY <1>13, <2>4 DEF WrittenBy
<1>14. ASSUME NEW k \in DOMAIN b PROVE WrittenBy(o2, b[k].first)
  <2>1. n + k \in DOMAIN d2 /\ b[k] = d2[n + k] /\ \A i \in 1..n : i \in DOMAIN d2 /\ i <= n + k
    BY <1>3, <1>4
  <2>2. WrittenBy(o, b[k].first)
    BY <2>1
  <2>3. WrittenBy(w, b[k].first)
    BY <1>7, <1>9, <2>1 DEF WrittenBy
  <2> QED BY <1>13, <2>2, <2>3
<1>15. ASSUME NEW t \in Nat, WrittenBy(o, t), WaitsBy(d2, t) PROVE WrittenBy(o2, t) /\ WaitsBy(b, t)
  <2>1. WrittenBy(w, t)
    BY <1>4, <1>9, <1>15 DEF WrittenBy, WaitsBy
  <2>2. WaitsBy(b, t)
    BY <1>3, <1>4, <1>15 DEF WaitsBy
  <2> QED BY <1>13, <1>15, <2>1, <2>2
<1> QED BY <1>1, <1>5, <1>10, <1>11, <1>12, <1>14, <1>15

\* A step on merger m leaves the other mergers' clusters where they are.
LEMMA OrderOfOne ==
    ASSUME Shape, InOrder, NEW m \in Lane, NEW d2 \in Seq(Waits), NEW n \in 0..Len(d2),
           WriteFront(m, d2, n), OrderedDeque(d2),
           \A k \in DOMAIN d2 : WrittenBy(output[m], d2[k].first),
           \A l \in Lane : l # m => pipes'[l] = pipes[l],
           \A i \in Lane : /\ FirstsSorted(pipes'[m][i])
                           /\ \A j \in DOMAIN pipes'[m][i] :
                                 /\ FirstOf(pipes'[m][i][j]) \in Nat
                                 /\ WrittenBy(output[m], FirstOf(pipes'[m][i][j]))
                                 /\ WaitsBy(d2, FirstOf(pipes'[m][i][j]))
    PROVE  InOrder'
<1>1. PICK o \in Seq(Cluster) : o = output[m]
  BY DEF Shape
<1>2. PICK o2, b : o2 = o \o WrittenOf(SubSeq(d2, 1, n)) /\ b = SubSeq(d2, n + 1, Len(d2))
  OBVIOUS
<1>3. /\ unfinished'[m] = b /\ output'[m] = o2
      /\ \A l \in Lane : l # m => unfinished'[l] = unfinished[l] /\ output'[l] = output[l]
  BY <1>1, <1>2, FrontShape
<1>4. FirstsSorted(o)
  BY <1>1 DEF InOrder
<1>5. /\ FirstsSorted(o2) /\ OrderedDeque(b)
      /\ \A k \in DOMAIN b : WrittenBy(o2, b[k].first)
      /\ \A t \in Nat : WrittenBy(o, t) /\ WaitsBy(d2, t) => WrittenBy(o2, t) /\ WaitsBy(b, t)
  BY <1>1, <1>2, <1>4, FrontOrder
<1> SUFFICES ASSUME NEW l \in Lane
             PROVE  /\ FirstsSorted(output'[l]) /\ OrderedDeque(unfinished'[l])
                    /\ \A k \in DOMAIN unfinished'[l] : WrittenBy(output'[l], unfinished'[l][k].first)
                    /\ \A i \in Lane :
                          /\ FirstsSorted(pipes'[l][i])
                          /\ \A j \in DOMAIN pipes'[l][i] :
                                /\ WrittenBy(output'[l], FirstOf(pipes'[l][i][j]))
                                /\ WaitsBy(unfinished'[l], FirstOf(pipes'[l][i][j]))
  BY DEF InOrder
<1>6. CASE l = m
  BY <1>1, <1>3, <1>5, <1>6
<1>7. CASE l # m
  BY <1>3, <1>7 DEF InOrder
<1> QED BY <1>6, <1>7

\* The first of what a lane has left begins no earlier than those before it.
LEMMA TailFacts ==
    ASSUME NEW s \in Seq(Cluster), s # <<>>
    PROVE  /\ Head(s) \in Cluster /\ Head(s) = s[1] /\ 1 \in DOMAIN s
           /\ Tail(s) \in Seq(Cluster)
           /\ \A j \in DOMAIN Tail(s) : j + 1 \in DOMAIN s /\ Tail(s)[j] = s[j + 1] /\ j \in Nat
           /\ \A k \in DOMAIN s : k = 1 \/ (k - 1 \in DOMAIN Tail(s) /\ Tail(s)[k - 1] = s[k])
           /\ \A k \in DOMAIN s : 1 <= k
           /\ FirstsSorted(s) => FirstsSorted(Tail(s))
           /\ Once(s) => Once(Tail(s)) /\ Injective(Head(s)) /\ Range(Head(s)) \cap HitsIn(Tail(s)) = {}
           /\ HitsIn(s) = Range(Head(s)) \cup HitsIn(Tail(s))
<1>1. PICK t, l : t = Tail(s) /\ l = Len(s) - 1
  OBVIOUS
<1>2. /\ l \in Nat /\ DOMAIN s = 1..(l + 1) /\ DOMAIN t = 1..l /\ t \in Seq(Cluster)
      /\ \A j \in 1..l : t[j] = s[j + 1]
      /\ Head(s) = s[1] /\ Head(s) \in Cluster
  BY <1>1
<1>3. /\ \A j \in 1..l : j + 1 \in 1..(l + 1) /\ j \in Nat /\ j + 1 # 1
      /\ \A k \in 1..(l + 1) : k = 1 \/ (k - 1 \in 1..l /\ (k - 1) + 1 = k)
      /\ \A k \in 1..(l + 1) : 1 <= k
      /\ \A j, k \in 1..l : j <= k => j + 1 <= k + 1
      /\ \A j, k \in 1..l : j + 1 = k + 1 => j = k
      /\ 1 \in 1..(l + 1)
  BY <1>2
<1>4. \A j \in DOMAIN t : j + 1 \in DOMAIN s /\ t[j] = s[j + 1] /\ j \in Nat
  BY <1>2, <1>3
<1>5. \A k \in DOMAIN s : k = 1 \/ (k - 1 \in DOMAIN t /\ t[k - 1] = s[k])
  BY <1>2, <1>3
<1>6. ASSUME FirstsSorted(s) PROVE FirstsSorted(t)
  BY <1>2, <1>3, <1>6 DEF FirstsSorted, FirstsSortedAt
<1>7. ASSUME Once(s) PROVE Once(t) /\ Injective(s[1]) /\ Range(s[1]) \cap HitsIn(t) = {}
  <2>1. Once(t)
    <3> SUFFICES ASSUME NEW i \in DOMAIN t, NEW j \in DOMAIN t, NEW u, NEW v, SameHit(t, i, j, u, v)
                 PROVE  i = j /\ u = v
      BY DEF Once, OnceAt
    <3>1. SameHit(s, i + 1, j + 1, u, v) /\ i + 1 \in DOMAIN s /\ j + 1 \in DOMAIN s
      BY <1>4 DEF SameHit
    <3>2. i + 1 = j + 1 /\ u = v
      BY <1>7, <3>1 DEF Once, OnceAt
    <3> QED BY <1>2, <1>3, <3>2
  <2>2. Injective(s[1])
    <3> SUFFICES ASSUME NEW u \in DOMAIN s[1], NEW v \in DOMAIN s[1], s[1][u] = s[1][v] PROVE u = v
      BY DEF Injective
    <3>1. SameHit(s, 1, 1, u, v) /\ 1 \in DOMAIN s
      BY <1>2, <1>3 DEF SameHit
    <3> QED BY <1>7, <3>1 DEF Once, OnceAt
  <2>3. Range(s[1]) \cap HitsIn(t) = {}
    <3> SUFFICES ASSUME NEW h \in Range(s[1]), h \in HitsIn(t) PROVE FALSE
      OBVIOUS
    <3>1. PICK u \in DOMAIN s[1] : s[1][u] = h
      BY DEF Range
    <3>2. PICK j \in DOMAIN t : h \in Range(t[j])
      BY DEF HitsIn
    <3>3. PICK v \in DOMAIN t[j] : t[j][v] = h
      BY <3>2 DEF Range
    <3>4. SameHit(s, 1, j + 1, u, v) /\ 1 \in DOMAIN s /\ j + 1 \in DOMAIN s
      BY <1>2, <1>3, <1>4, <3>1, <3>3 DEF SameHit
    <3>5. 1 = j + 1
      BY <1>7, <3>4 DEF Once, OnceAt
    <3> QED BY <1>2, <1>3, <3>5
  <2> QED BY <2>1, <2>2, <2>3
<1>8. HitsIn(s) = Range(s[1]) \cup HitsIn(t)
  <2>1. \A k \in DOMAIN s : k = 1 \/ \E j \in DOMAIN t : t[j] = s[k]
    BY <1>5
  <2>2. \A j \in DOMAIN t : \E k \in DOMAIN s : t[j] = s[k]
    BY <1>4
  <2>3. 1 \in DOMAIN s
    BY <1>2, <1>3
  <2>4. HitsIn(s) \subseteq Range(s[1]) \cup HitsIn(t)
    BY <2>1 DEF HitsIn
  <2>5. Range(s[1]) \cup HitsIn(t) \subseteq HitsIn(s)
    BY <2>2, <2>3 DEF HitsIn
  <2> QED BY <2>4, <2>5
<1> QED BY <1>1, <1>2, <1>3, <1>4, <1>5, <1>6, <1>7, <1>8

LEMMA PassesOrder ==
    ASSUME Shape, Leading, InOrder, NEW m \in Lane, NEW i \in Lane, NEW c, NEW d2, NEW off2, NEW n,
           Passes(m, i, c, d2, off2, n)
    PROVE  InOrder'
<1>1. /\ pipes[m][i] \in Seq(Cluster) /\ pipes[m][i] # <<>> /\ c \in Cluster
      /\ c = Head(pipes[m][i])
      /\ d2 \in Seq(Waits) /\ n \in 0..Len(d2)
      /\ pipes'[m][i] = Tail(pipes[m][i])
      /\ \A l, p \in Lane : <<l, p>> # <<m, i>> => pipes'[l][p] = pipes[l][p]
      /\ Shape'
  BY PassesShape
<1>2. PICK d, off : d = unfinished[m] /\ off = borderingOffset[m]
  OBVIOUS
<1>3. d \in Seq(Waits) /\ off \in Nat \ {0} /\ Leads(d, off) /\ Placed(d, off, c, d2, off2)
  BY <1>2 DEF Shape, Leading, Passes
<1>4. PICK s \in Seq(Cluster) : s = pipes[m][i]
  BY <1>1
<1>5. PICK t \in Nat : t = FirstOf(c)
  BY <1>1, FirstOfIn
<1>6. s # <<>> /\ c = s[1] /\ 1 \in DOMAIN s
  BY <1>1, <1>4, TailFacts
<1>7. WrittenBy(output[m], t) /\ WaitsBy(d, t)
  BY <1>2, <1>4, <1>5, <1>6 DEF InOrder
<1>8. OrderedDeque(d) /\ \A k \in DOMAIN d : WrittenBy(output[m], d[k].first)
  BY <1>2 DEF InOrder
<1>9. OrderedDeque(d2) /\ FirstsFrom(d, c, d2)
  BY <1>1, <1>3, <1>5, <1>7, <1>8, PlacedFirsts
<1>10. \A k \in DOMAIN d2 : WrittenBy(output[m], d2[k].first)
  BY <1>5, <1>7, <1>8, <1>9 DEF FirstsFrom
<1>11. \A u \in Nat : t <= u => WaitsBy(d2, u)
  <2> SUFFICES ASSUME NEW u \in Nat, t <= u, NEW k \in DOMAIN d2 PROVE d2[k].first <= u
    BY DEF WaitsBy
  <2>1. PICK f \in Int : f = d2[k].first
    <3>1. d2[k] \in Waits
      BY <1>1
    <3> QED BY <3>1, WaitsFacts
  <2>2. f <= t
    BY <1>5, <1>7, <1>9, <2>1 DEF FirstsFrom, WaitsBy
  <2> QED BY <2>1, <2>2
<1>12. ASSUME NEW l \in Lane, NEW j \in DOMAIN pipes'[m][l]
       PROVE  /\ FirstOf(pipes'[m][l][j]) \in Nat /\ t <= FirstOf(pipes'[m][l][j])
              /\ WrittenBy(output[m], FirstOf(pipes'[m][l][j]))
  <2>1. PICK k : k \in DOMAIN pipes[m][l] /\ pipes'[m][l][j] = pipes[m][l][k]
    <3>1. CASE l = i
      <4>1. s \in Seq(Cluster) /\ s # <<>> /\ j \in DOMAIN Tail(s)
            /\ pipes'[m][l][j] = Tail(s)[j] /\ pipes[m][l] = s
        BY <1>1, <1>4, <1>6, <3>1
      <4>2. j + 1 \in DOMAIN s /\ Tail(s)[j] = s[j + 1]
        BY <4>1, TailFacts
      <4> QED BY <4>1, <4>2
    <3>2. CASE l # i
      BY <1>1, <3>2
    <3> QED BY <3>1, <3>2
  <2>2. PICK q \in Seq(Cluster) : q = pipes[m][l]
    BY DEF Shape
  <2>3. PICK f \in Nat : f = FirstOf(q[k])
    <3>1. q[k] \in Cluster
      BY <2>1, <2>2
    <3> QED BY <3>1, FirstOfIn
  <2>4. q # <<>> /\ Head(q) \in Cluster /\ Head(q) = q[1] /\ 1 \in DOMAIN q /\ 1 <= k
    <3>1. q # <<>>
      BY <2>1, <2>2
    <3> QED BY <2>1, <2>2, <3>1, TailFacts
  <2>5. PICK f1 \in Nat : f1 = FirstOf(Head(q))
    BY <2>4, FirstOfIn
  <2>6. f1 <= f
    BY <2>1, <2>2, <2>3, <2>4, <2>5 DEF InOrder, FirstsSorted, FirstsSortedAt
  <2>7. t < f1 \/ t = f1
    BY <1>1, <1>5, <2>2, <2>4, <2>5 DEF Passes, IsEarliest
  <2>8. t <= f
    BY <2>6, <2>7
  <2>9. WrittenBy(output[m], f)
    BY <2>1, <2>2, <2>3 DEF InOrder
  <2> QED BY <2>1, <2>2, <2>3, <2>8, <2>9
<1>13. \A l \in Lane : FirstsSorted(pipes'[m][l])
  <2> SUFFICES ASSUME NEW l \in Lane PROVE FirstsSorted(pipes'[m][l])
    OBVIOUS
  <2>1. FirstsSorted(pipes[m][l])
    BY DEF InOrder
  <2>2. CASE l = i
    BY <1>1, <2>1, <2>2, TailFacts
  <2>3. CASE l # i
    BY <1>1, <2>1, <2>3
  <2> QED BY <2>2, <2>3
<1>14. \A l \in Lane : l # m => pipes'[l] = pipes[l]
  BY DEF Passes, Shape
<1>15. WriteFront(m, d2, n)
  BY DEF Passes
<1>16. \A l \in Lane : /\ FirstsSorted(pipes'[m][l])
                       /\ \A j \in DOMAIN pipes'[m][l] :
                             /\ FirstOf(pipes'[m][l][j]) \in Nat
                             /\ WrittenBy(output[m], FirstOf(pipes'[m][l][j]))
                             /\ WaitsBy(d2, FirstOf(pipes'[m][l][j]))
  BY <1>11, <1>12, <1>13
<1> QED BY <1>1, <1>9, <1>10, <1>14, <1>15, <1>16, OrderOfOne

LEMMA EndOrder ==
    ASSUME Shape, InOrder, NEW m \in Lane, End(m)
    PROVE  InOrder'
<1>1. PICK d2 \in Seq(Waits) : d2 = unfinished[m]
  BY DEF Shape
<1>2. Len(d2) \in 0..Len(d2)
  OBVIOUS
<1>3. WriteFront(m, d2, Len(d2)) /\ pipes' = pipes /\ \A i \in Lane : pipes[m][i] = <<>>
  BY <1>1 DEF End
<1>4. OrderedDeque(d2) /\ \A k \in DOMAIN d2 : WrittenBy(output[m], d2[k].first)
  BY <1>1 DEF InOrder
<1>5. \A i \in Lane : FirstsSorted(pipes'[m][i]) /\ DOMAIN pipes'[m][i] = {}
  <2>1. DOMAIN <<>> = {}
    OBVIOUS
  <2> QED BY <1>3, <2>1 DEF InOrder
<1> QED BY <1>2, <1>3, <1>4, <1>5, OrderOfOne
-----------------------------------------------------------------------------
(* The steps keep each hit in one cluster.                                 *)

LEMMA OnceInjective ==
    ASSUME NEW o, NEW P, OnceAt(o, P), NEW i \in P
    PROVE  Injective(o[i])
<1> SUFFICES ASSUME NEW k \in DOMAIN o[i], NEW l \in DOMAIN o[i], o[i][k] = o[i][l] PROVE k = l
  BY DEF Injective
<1>1. SameHit(o, i, i, k, l)
  BY DEF SameHit
<1> QED BY <1>1 DEF OnceAt

\* Two of them have no hit in common.
LEMMA OnceDisjoint ==
    ASSUME NEW o, NEW P, OnceAt(o, P), NEW i \in P, NEW j \in P, i # j
    PROVE  Range(o[i]) \cap Range(o[j]) = {}
<1> SUFFICES ASSUME NEW h \in Range(o[i]), h \in Range(o[j]) PROVE FALSE
  OBVIOUS
<1>1. PICK k \in DOMAIN o[i] : o[i][k] = h
  BY DEF Range
<1>2. PICK l \in DOMAIN o[j] : o[j][l] = h
  BY DEF Range
<1>3. SameHit(o, i, j, k, l)
  BY <1>1, <1>2 DEF SameHit
<1> QED BY <1>3 DEF OnceAt

LEMMA OnceIf ==
    ASSUME NEW o, NEW P, \A i \in P : Injective(o[i]),
           \A i, j \in P : i # j => Range(o[i]) \cap Range(o[j]) = {}
    PROVE  OnceAt(o, P)
<1> SUFFICES ASSUME NEW i \in P, NEW j \in P, NEW k, NEW l, SameHit(o, i, j, k, l)
             PROVE  i = j /\ k = l
  BY DEF OnceAt
<1>1. k \in DOMAIN o[i] /\ l \in DOMAIN o[j] /\ o[i][k] = o[j][l]
  BY DEF SameHit
<1>2. o[i][k] \in Range(o[i]) /\ o[j][l] \in Range(o[j])
  BY <1>1 DEF Range
<1>3. i = j
  BY <1>1, <1>2
<1> QED BY <1>1, <1>3 DEF Injective

\* The clusters of a deque: each without a hit twice, and any two without a common one.
Apart(d) ==
    /\ \A i \in ValidIn(d) : Injective(d[i].hits)
    /\ \A i, j \in ValidIn(d) : i # j => Range(d[i].hits) \cap Range(d[j].hits) = {}

LEMMA ApartIs ==
    ASSUME NEW d
    PROVE  Apart(d) <=> OnceAt(HitsOf(d), ValidIn(d))
<1>1. PICK o, P : o = HitsOf(d) /\ P = ValidIn(d)
  OBVIOUS
<1>2. \A i \in P : o[i] = d[i].hits
  BY <1>1 DEF HitsOf, ValidIn
<1>3. OnceAt(o, P) => Apart(d)
  BY <1>1, <1>2, OnceInjective, OnceDisjoint DEF Apart
<1>4. Apart(d) => OnceAt(o, P)
  BY <1>1, <1>2, OnceIf DEF Apart
<1> QED BY <1>1, <1>3, <1>4

LEMMA HeldIs == \A d, h : h \in Held(d) <=> \E i \in ValidIn(d) : h \in Range(d[i].hits)
BY DEF Held

\* A cluster placed in a deque: its hits come to those that were there.
LEMMA PlacedHits ==
    ASSUME NEW d \in Seq(Waits), NEW off \in Nat \ {0}, Leads(d, off), NEW c \in Cluster,
           Apart(d), Injective(c), Range(c) \cap Held(d) = {},
           NEW d2, NEW off2, Placed(d, off, c, d2, off2)
    PROVE  Apart(d2) /\ Held(d2) = Held(d) \cup Range(c)
<1>1. ASSUME NEW e \in Waits, d2 = Append(d, e), e.hits = c, e.valid
      PROVE  Apart(d2) /\ Held(d2) = Held(d) \cup Range(c)
  <2>1. PICK l \in Nat : l = Len(d)
    OBVIOUS
  <2>2. /\ DOMAIN d = 1..l /\ DOMAIN d2 = 1..(l + 1)
        /\ \A j \in 1..(l + 1) : j \in 1..l \/ j = l + 1
        /\ d2[l + 1] = e
        /\ \A j \in 1..l : d2[j] = d[j] /\ j # l + 1
        /\ 1..l \subseteq 1..(l + 1) /\ l + 1 \in 1..(l + 1)
    BY <1>1, <2>1, AppendedWaits
  <2>3. ValidIn(d2) = ValidIn(d) \cup {l + 1} /\ \A j \in ValidIn(d) : d2[j] = d[j] /\ j # l + 1
    BY <1>1, <2>2 DEF ValidIn
  <2>4. Held(d2) = Held(d) \cup Range(c)
    <3>1. \A h : h \in Held(d2) <=> h \in Held(d) \/ h \in Range(d2[l + 1].hits)
      BY <2>3, HeldIs
    <3> QED BY <1>1, <2>2, <3>1
  <2>5. \A j \in ValidIn(d) : Range(d[j].hits) \cap Range(c) = {}
    BY DEF Held
  <2>6. Apart(d2)
    BY <1>1, <2>2, <2>3, <2>5 DEF Apart
  <2> QED BY <2>4, <2>6
<1>2. CASE d2 = Append(d, Entry(c, off, FALSE))
  <2>1. PICK e : e = Entry(c, off, FALSE)
    OBVIOUS
  <2>2. e \in Waits /\ e.hits = c /\ e.valid
    BY <2>1, EntryFacts
  <2> QED BY <1>1, <1>2, <2>1, <2>2
<1>3. CASE d2 = WithBorder(d, off, c)
  <2>1. PICK new, found : new = Entry(c, off, TRUE) /\ found = MergeIndices(d, new)
    OBVIOUS
  <2>2. new \in Waits /\ new.hits = c /\ new.valid /\ new.offset = off
    BY <2>1, EntryFacts
  <2>3. CASE found = {}
    <3>1. d2 = Append(d, new)
      BY <1>3, <2>1, <2>3, WithBorderFacts
    <3> QED BY <1>1, <2>2, <3>1
  <2>4. CASE found # {}
    <3>1. PICK k, e : k = Least(found) /\ e = MergedEntry(d, new, found)
                      /\ Merging(d, new, found) /\ MergedAt(d, found, k, e, d2)
      BY <1>3, <2>1, <2>4, WithBorderFacts
    <3>2. /\ DOMAIN d2 = DOMAIN d /\ k \in found /\ k \in DOMAIN d
          /\ found \in SUBSET DOMAIN d /\ d2[k] = e /\ e.valid
          /\ \A i \in DOMAIN d : i # k => /\ d2[i].hits = d[i].hits
                                          /\ d2[i].valid <=> d[i].valid /\ i \notin found
      BY <3>1 DEF MergedAt
    <3>3. \A i \in found : d[i].valid
      BY <2>1, <2>2, FoundFacts
    <3>4. PICK b \in Waits : b = d[k]
      BY <3>2
    <3>5. PICK l \in Nat : l = Len(d) /\ DOMAIN d = 1..l
      OBVIOUS
    <3> DEFINE Seen(n) == {i \in found \ {k} : i > l - n}
               Taken(n) == Range(b.hits) \cup Range(c) \cup UNION {Range(d[i].hits) : i \in Seen(n)}
               Q == [n \in 0..l |-> {a \in Waits : Injective(a.hits) /\ Range(a.hits) = Taken(n)}]
    <3>6. \A i \in DOMAIN d : d[i].hits \in Cluster
      BY WaitsFacts
    <3>7. ASSUME NEW a \in Waits, NEW z \in Waits, Injective(a.hits), Injective(z.hits),
                 Range(a.hits) \cap Range(z.hits) = {}
          PROVE  LET w == MergeWith(a, z)
                 IN  w \in Waits /\ Injective(w.hits) /\ Range(w.hits) = Range(a.hits) \cup Range(z.hits)
      <4>1. PICK w : w = MergeWith(a, z)
        OBVIOUS
      <4>2. w \in Waits /\ w.hits = a.hits \o z.hits
        BY <4>1, MergeWithFacts
      <4>3. a.hits \in Seq(Hit) /\ z.hits \in Seq(Hit)
        BY WaitsFacts DEF Cluster
      <4>4. Injective(w.hits) /\ Range(w.hits) = Range(a.hits) \cup Range(z.hits)
        BY <3>7, <4>2, <4>3, JoinedHits
      <4> QED BY <4>1, <4>2, <4>4
    <3>8. k \in ValidIn(d) /\ \A i \in found : i \in ValidIn(d)
      BY <3>2, <3>3 DEF ValidIn
    <3>9. \A i \in ValidIn(d) : Injective(d[i].hits) /\ Range(d[i].hits) \cap Range(c) = {}
      BY DEF Apart, Held
    <3>10. Keeping(d, new, found, Q)
      <4>1. MergeWith(d[k], new) \in Q[0]
        <5>1. 0 \in 0..l /\ Seen(0) = {}
          BY <3>2, <3>5
        <5>2. PICK w : w = MergeWith(b, new)
          OBVIOUS
        <5>3. w \in Waits /\ Injective(w.hits) /\ Range(w.hits) = Range(b.hits) \cup Range(c)
          BY <2>2, <3>4, <3>7, <3>8, <3>9, <5>2
        <5> HIDE DEF Seen
        <5>4. Taken(0) = Range(b.hits) \cup Range(c)
          BY <5>1
        <5> HIDE DEF Taken
        <5> QED BY <3>4, <5>1, <5>2, <5>3, <5>4
      <4>2. ASSUME NEW n \in 1..Len(d), NEW a \in Q[n - 1] \cap Waits
            PROVE  MergesAt(d, found, n, a) \in Q[n]
        <5>1. n \in 0..l /\ n - 1 \in 0..l /\ n \in 1..l
          BY <3>5
        <5>2. PICK i \in 1..l : i = Len(d) + 1 - n
          <6>1. l + 1 - n \in 1..l
            BY <5>1
          <6> QED BY <3>5, <6>1
        <5>3. a \in Waits /\ Injective(a.hits) /\ Range(a.hits) = Taken(n - 1)
          <6> HIDE DEF Taken
          <6> QED BY <5>1
        <5>4. \A j \in 1..l : j > l - n <=> (j = i \/ j > l - (n - 1))
          BY <3>5, <5>1, <5>2
        <5>5. ~(i > l - (n - 1))
          BY <3>5, <5>1, <5>2
        <5>6. CASE i \in found \ {k}
          <6>1. Seen(n) = Seen(n - 1) \cup {i} /\ i \notin Seen(n - 1)
            BY <3>2, <3>5, <5>4, <5>5, <5>6
          <6>2. Seen(n - 1) \in SUBSET (ValidIn(d) \ {i})
            BY <3>8, <6>1
          <6> HIDE DEF Seen
          <6>3. Taken(n) = Taken(n - 1) \cup Range(d[i].hits)
            BY <6>1
          <6>4. Taken(n - 1) \cap Range(d[i].hits) = {}
            <7>1. i \in ValidIn(d) /\ k \in ValidIn(d) /\ i # k
              BY <3>8, <5>6
            <7>2. Range(b.hits) \cap Range(d[i].hits) = {}
              BY <3>4, <7>1 DEF Apart
            <7>3. \A j \in Seen(n - 1) : Range(d[j].hits) \cap Range(d[i].hits) = {}
              BY <6>2, <7>1 DEF Apart
            <7>4. Range(c) \cap Range(d[i].hits) = {}
              BY <3>9, <7>1
            <7> QED BY <7>2, <7>3, <7>4
          <6> HIDE DEF Taken
          <6>5. PICK z \in Waits : z = d[i]
            BY <3>5
          <6>6. PICK w : w = MergeWith(a, z)
            OBVIOUS
          <6>7. w \in Waits /\ Injective(w.hits) /\ Range(w.hits) = Taken(n)
            <7>1. Injective(z.hits)
              BY <3>8, <3>9, <5>6, <6>5
            <7>2. Range(a.hits) \cap Range(z.hits) = {}
              BY <5>3, <6>4, <6>5
            <7>3. w \in Waits /\ Injective(w.hits) /\ Range(w.hits) = Range(a.hits) \cup Range(z.hits)
              BY <3>7, <5>3, <6>6, <7>1, <7>2
            <7> QED BY <5>3, <6>3, <6>5, <7>3
          <6>8. w \in Q[n]
            BY <5>1, <6>7
          <6> HIDE DEF Q
          <6> QED BY <3>1, <5>2, <5>6, <6>5, <6>6, <6>8 DEF MergesAt
        <5>7. CASE i \notin found \ {k}
          <6>1. Seen(n) = Seen(n - 1)
            BY <3>2, <3>5, <5>4, <5>7
          <6>2. Taken(n) = Taken(n - 1)
            <7> HIDE DEF Seen
            <7> QED BY <6>1
          <6> HIDE DEF Taken
          <6>3. a \in Q[n]
            BY <5>1, <5>3, <6>2
          <6> HIDE DEF Q
          <6> QED BY <3>1, <5>2, <5>7, <6>3 DEF MergesAt
        <5> QED BY <5>6, <5>7
      <4> HIDE DEF Q
      <4> QED BY <3>1, <4>1, <4>2 DEF Keeping
    <3>11. e \in Q[Len(d)]
      <4> HIDE DEF Q
      <4> QED BY <3>1, <3>10, MergedIn
    <3>12. Injective(e.hits) /\ Range(e.hits) = Taken(l)
      <4>1. l \in 0..l
        OBVIOUS
      <4> HIDE DEF Taken
      <4> QED BY <3>5, <3>11, <4>1
    <3>13. Seen(l) = found \ {k}
      BY <3>2, <3>5
    <3> HIDE DEF Q, Seen
    <3>14. Range(e.hits) = Range(c) \cup UNION {Range(d[i].hits) : i \in found}
      BY <3>2, <3>4, <3>12, <3>13
    <3> HIDE DEF Taken
    <3>15. ValidIn(d2) = (ValidIn(d) \ found) \cup {k}
           /\ \A i \in ValidIn(d) \ found : d2[i].hits = d[i].hits /\ i # k
      BY <3>2, <3>8 DEF ValidIn
    <3>16. Held(d2) = Held(d) \cup Range(c)
      <4>1. Held(d2) = Range(e.hits) \cup UNION {Range(d[i].hits) : i \in ValidIn(d) \ found}
        BY <3>2, <3>15 DEF Held
      <4> QED BY <3>8, <3>14, <4>1 DEF Held
    <3>17. \A i \in ValidIn(d) \ found : Range(e.hits) \cap Range(d[i].hits) = {}
      <4> SUFFICES ASSUME NEW i \in ValidIn(d) \ found
                   PROVE  Range(e.hits) \cap Range(d[i].hits) = {}
        OBVIOUS
      <4>1. \A j \in found : Range(d[j].hits) \cap Range(d[i].hits) = {}
        BY <3>8 DEF Apart
      <4> QED BY <3>9, <3>14, <4>1
    <3>18. Apart(d2)
      BY <3>2, <3>9, <3>12, <3>15, <3>17 DEF Apart
    <3> QED BY <3>16, <3>18
  <2> QED BY <2>3, <2>4
<1> QED BY <1>2, <1>3 DEF Placed

\* What leaves the front of a deque takes its hits along.
LEMMA FrontHits ==
    ASSUME NEW d2 \in Seq(Waits), NEW n \in 0..Len(d2), Apart(d2),
           NEW o \in Seq(Cluster), Once(o), HitsIn(o) \cap Held(d2) = {}
    PROVE  LET o2 == o \o WrittenOf(SubSeq(d2, 1, n))
               b == SubSeq(d2, n + 1, Len(d2))
           IN  /\ Once(o2) /\ Apart(b) /\ HitsIn(o2) \cap Held(b) = {}
               /\ HitsIn(o2) \cup Held(b) = HitsIn(o) \cup Held(d2)
<1>1. PICK a, b : a = SubSeq(d2, 1, n) /\ b = SubSeq(d2, n + 1, Len(d2))
  OBVIOUS
<1>2. PICK l \in Nat : l = Len(d2) - n
  OBVIOUS
<1>3. /\ a \in Seq(Waits) /\ DOMAIN a = 1..n /\ \A i \in 1..n : a[i] = d2[i]
      /\ b \in Seq(Waits) /\ DOMAIN b = 1..l /\ \A i \in 1..l : b[i] = d2[n + i]
      /\ DOMAIN d2 = 1..(n + l) /\ n \in Nat
  <2>1. Len(d2) = n + l /\ n \in Nat
    BY <1>2
  <2>2. a \in Seq(Waits) /\ DOMAIN a = 1..n /\ \A i \in 1..n : a[i] = d2[i]
    BY <1>1, TwoParts
  <2>3. b \in Seq(Waits) /\ DOMAIN b = 1..l /\ \A i \in 1..l : b[i] = d2[n + i]
    BY <1>1, <1>2, TwoParts
  <2> QED BY <2>1, <2>2, <2>3
<1>4. /\ \A i \in 1..n : i \in 1..(n + l)
      /\ \A i \in 1..l : n + i \in 1..(n + l) /\ n + i \notin 1..n
      /\ \A i, j \in 1..l : n + i = n + j => i = j
      /\ \A k \in 1..(n + l) : k \in 1..n \/ (k - n \in 1..l /\ n + (k - n) = k)
  BY <1>3
<1>5. \A i \in ValidIn(a) : i \in ValidIn(d2) /\ a[i] = d2[i] /\ i \in 1..n
  BY <1>3, <1>4 DEF ValidIn
<1>6. \A i \in ValidIn(b) : n + i \in ValidIn(d2) /\ b[i] = d2[n + i] /\ n + i \notin 1..n /\ i \in 1..l
  BY <1>3, <1>4 DEF ValidIn
<1>7. \A k \in ValidIn(d2) : \/ k \in ValidIn(a) /\ a[k] = d2[k]
                             \/ k - n \in ValidIn(b) /\ b[k - n] = d2[k]
  BY <1>3, <1>4 DEF ValidIn
<1>8. Apart(a)
  BY <1>5 DEF Apart
<1>9. Apart(b)
  <2> SUFFICES ASSUME NEW i \in ValidIn(b), NEW j \in ValidIn(b)
               PROVE  Injective(b[i].hits) /\ (i # j => Range(b[i].hits) \cap Range(b[j].hits) = {})
    BY DEF Apart
  <2>1. n + i \in ValidIn(d2) /\ n + j \in ValidIn(d2) /\ (i # j => n + i # n + j)
        /\ b[i] = d2[n + i] /\ b[j] = d2[n + j]
    BY <1>4, <1>6
  <2> QED BY <2>1 DEF Apart
<1>10. Held(a) \cap Held(b) = {}
  <2> SUFFICES ASSUME NEW i \in ValidIn(a), NEW j \in ValidIn(b)
               PROVE  Range(a[i].hits) \cap Range(b[j].hits) = {}
    BY HeldIs
  <2>1. i \in ValidIn(d2) /\ n + j \in ValidIn(d2) /\ i # n + j /\ a[i] = d2[i] /\ b[j] = d2[n + j]
    BY <1>5, <1>6
  <2> QED BY <2>1 DEF Apart
<1>11. Held(d2) = Held(a) \cup Held(b)
  <2>1. Held(d2) \subseteq Held(a) \cup Held(b)
    <3> SUFFICES ASSUME NEW k \in ValidIn(d2), NEW h \in Range(d2[k].hits) PROVE h \in Held(a) \cup Held(b)
      BY HeldIs
    <3> QED BY <1>7, HeldIs
  <2>2. Held(a) \subseteq Held(d2)
    BY <1>5 DEF Held
  <2>3. Held(b) \subseteq Held(d2)
    BY <1>6 DEF Held
  <2> QED BY <2>1, <2>2, <2>3
<1>12. PICK w \in Seq(Cluster) : w = WrittenOf(a)
  BY <1>3, WrittenClusters
<1>13. HitsIn(w) = Held(a) /\ Once(w)
  BY <1>3, <1>8, <1>12, ApartIs, WrittenClusters
<1>14. PICK o2 : o2 = o \o w
  OBVIOUS
<1>15. HitsIn(o2) = HitsIn(o) \cup Held(a) /\ Once(o2)
  <2>1. HitsIn(o) \cap HitsIn(w) = {}
    BY <1>11, <1>13
  <2> QED BY <1>13, <1>14, <2>1, JoinedClusters
<1> QED BY <1>1, <1>9, <1>10, <1>11, <1>12, <1>14, <1>15

\* What a place holds, and the hits there.
HoldsAt(m) ==
    /\ Once(Holds(m, 0)) <=> Apart(unfinished[m])
    /\ HitsAt(m, 0) = Held(unfinished[m])
    /\ \A i \in Lane : (Once(Holds(m, i)) <=> Once(pipes[m][i])) /\ HitsAt(m, i) = HitsIn(pipes[m][i])
    /\ Once(Holds(m, Lanes + 1)) <=> Once(output[m])
    /\ HitsAt(m, Lanes + 1) = HitsIn(output[m])

LEMMA HoldsNow == \A m \in Lane : HoldsAt(m)
<1> SUFFICES ASSUME NEW m \in Lane PROVE HoldsAt(m)
  OBVIOUS
<1>1. /\ \A i \in Lane : Holds(m, i) = pipes[m][i]
      /\ Holds(m, Lanes + 1) = output[m]
  BY HoldsFacts
<1>2. (Once(Holds(m, 0)) <=> Apart(unfinished[m])) /\ HitsAt(m, 0) = Held(unfinished[m])
  BY WaitingFacts, ApartIs
<1> QED BY <1>1, <1>2 DEF HoldsAt, HitsAt

LEMMA HoldsThen == \A m \in Lane : HoldsAt(m)'
<1>1. (\A m \in Lane : HoldsAt(m))'
  BY HoldsNow, PTL
<1> QED BY <1>1

\* Hits that go from one place of a merger to another are conserved.
LEMMA Moves ==
    ASSUME Conserved, hits' = hits, NEW m \in Lane,
           \A l \in Lane : l # m =>
              pipes'[l] = pipes[l] /\ unfinished'[l] = unfinished[l] /\ output'[l] = output[l],
           \A p \in Place : Once(Holds(m, p))',
           \A p, q \in Place : p # q => HitsAt(m, p)' \cap HitsAt(m, q)' = {},
           UNION {HitsAt(m, p)' : p \in Place} = UNION {HitsAt(m, p) : p \in Place}
    PROVE  Conserved'
<1>1. ASSUME NEW l \in Lane, l # m, NEW p \in Place
      PROVE  (Once(Holds(l, p)) => Once(Holds(l, p))') /\ HitsAt(l, p)' = HitsAt(l, p)
  <2>1. HoldsAt(l) /\ HoldsAt(l)'
    BY HoldsNow, HoldsThen
  <2>2. p = 0 \/ p \in Lane \/ p = Lanes + 1
    BY LaneFacts
  <2>3. pipes'[l] = pipes[l] /\ unfinished'[l] = unfinished[l] /\ output'[l] = output[l]
    BY <1>1
  <2> QED BY <2>1, <2>2, <2>3 DEF HoldsAt
<1>2. \A l \in Lane, p \in Place : Once(Holds(l, p))'
  BY <1>1 DEF Conserved
<1>3. \A p \in Place : \A h \in HitsAt(m, p)' : \E q \in Place : h \in HitsAt(m, q)
  OBVIOUS
<1>4. \A q \in Place : \A h \in HitsAt(m, q) : \E p \in Place : h \in HitsAt(m, p)'
  OBVIOUS
<1>5. ASSUME NEW l \in Lane, NEW k \in Lane, NEW p \in Place, NEW q \in Place, <<l, p>> # <<k, q>>,
             NEW h, h \in HitsAt(l, p)', h \in HitsAt(k, q)'
      PROVE  FALSE
  <2>1. CASE l = m /\ k = m
    <3>1. p # q
      BY <1>5, <2>1
    <3> QED BY <1>5, <2>1, <3>1
  <2>2. CASE l # m /\ k # m
    <3>1. h \in HitsAt(l, p) /\ h \in HitsAt(k, q)
      BY <1>1, <1>5, <2>2
    <3> QED BY <1>5, <3>1 DEF Conserved
  <2>3. CASE l = m /\ k # m
    <3>1. PICK r \in Place : h \in HitsAt(m, r)
      BY <1>3, <1>5, <2>3
    <3>2. h \in HitsAt(k, q) /\ <<m, r>> # <<k, q>>
      BY <1>1, <1>5, <2>3
    <3> QED BY <3>1, <3>2 DEF Conserved
  <2>4. CASE l # m /\ k = m
    <3>1. PICK r \in Place : h \in HitsAt(m, r)
      BY <1>3, <1>5, <2>4
    <3>2. h \in HitsAt(l, p) /\ <<m, r>> # <<l, p>>
      BY <1>1, <1>5, <2>4
    <3> QED BY <3>1, <3>2 DEF Conserved
  <2> QED BY <2>1, <2>2, <2>3, <2>4
<1>6. \A l, k \in Lane, p, q \in Place : <<l, p>> # <<k, q>> => HitsAt(l, p)' \cap HitsAt(k, q)' = {}
  BY <1>5
<1>7. ASSUME NEW l \in Lane, NEW p \in Place, NEW h, h \in HitsAt(l, p)' PROVE h \in Range(hits)
  <2>1. PICK q \in Place : h \in HitsAt(l, q)
    BY <1>1, <1>3, <1>7
  <2> QED BY <2>1 DEF Conserved
<1>8. ASSUME NEW h \in Range(hits) PROVE \E l \in Lane, p \in Place : h \in HitsAt(l, p)'
  <2>1. PICK l \in Lane, q \in Place : h \in HitsAt(l, q)
    BY DEF Conserved
  <2>2. CASE l = m
    BY <1>4, <2>1, <2>2
  <2>3. CASE l # m
    BY <1>1, <2>1, <2>3
  <2> QED BY <2>2, <2>3
<1>9. \A l \in Lane, p \in Place : HitsAt(l, p)' \in SUBSET Range(hits)'
  BY <1>7
<1>10. \A h \in Range(hits)' : \E l \in Lane, p \in Place : h \in HitsAt(l, p)'
  BY <1>8
<1> QED BY <1>2, <1>6, <1>9, <1>10 DEF Conserved

\* A step takes the hits R from lane i; what waits and what is written gets them.
LEMMA Moved ==
    ASSUME Conserved, hits' = hits, NEW m \in Lane, NEW i \in Lane, NEW R, R \in SUBSET HitsAt(m, i),
           \A l \in Lane : l # m =>
              pipes'[l] = pipes[l] /\ unfinished'[l] = unfinished[l] /\ output'[l] = output[l],
           \A p \in Place : Once(Holds(m, p))',
           HitsAt(m, i)' = HitsAt(m, i) \ R,
           \A l \in Lane : l # i => HitsAt(m, l)' = HitsAt(m, l),
           HitsAt(m, 0)' \cap HitsAt(m, Lanes + 1)' = {},
           HitsAt(m, 0)' \cup HitsAt(m, Lanes + 1)' = HitsAt(m, 0) \cup HitsAt(m, Lanes + 1) \cup R
    PROVE  Conserved'
<1>1. 0 \notin Lane /\ Lanes + 1 \notin Lane /\ Place = Lane \cup {0, Lanes + 1} /\ 0 # Lanes + 1
      /\ Lane \subseteq Place
  BY LaneFacts
<1>2. \A p, q \in Place : p # q => HitsAt(m, p) \cap HitsAt(m, q) = {}
  BY DEF Conserved
<1>3. ASSUME NEW l \in Lane, NEW q \in {0, Lanes + 1} PROVE HitsAt(m, l)' \cap HitsAt(m, q)' = {}
  <2> SUFFICES ASSUME NEW h, h \in HitsAt(m, l)', h \in HitsAt(m, q)' PROVE FALSE
    OBVIOUS
  <2>1. h \in HitsAt(m, l) /\ ~(l = i /\ h \in R)
    OBVIOUS
  <2>2. h \in HitsAt(m, 0) \/ h \in HitsAt(m, Lanes + 1) \/ h \in R
    OBVIOUS
  <2>3. CASE h \in R
    <3>1. h \in HitsAt(m, i) /\ l # i
      BY <2>1, <2>3
    <3> QED BY <1>1, <1>2, <2>1, <3>1
  <2>4. CASE h \in HitsAt(m, 0)
    BY <1>1, <1>2, <2>1, <2>4
  <2>5. CASE h \in HitsAt(m, Lanes + 1)
    BY <1>1, <1>2, <2>1, <2>5
  <2> QED BY <2>2, <2>3, <2>4, <2>5
<1>4. \A l \in Lane : HitsAt(m, l)' \in SUBSET HitsAt(m, l)
  OBVIOUS
<1>5. ASSUME NEW p \in Place, NEW q \in Place, p # q PROVE HitsAt(m, p)' \cap HitsAt(m, q)' = {}
  <2>1. CASE p \in Lane /\ q \in Lane
    <3>1. HitsAt(m, p) \cap HitsAt(m, q) = {}
      BY <1>2, <1>5
    <3> QED BY <1>4, <2>1, <3>1
  <2>2. CASE p \in Lane /\ q \in {0, Lanes + 1}
    BY <1>3, <2>2
  <2>3. CASE q \in Lane /\ p \in {0, Lanes + 1}
    BY <1>3, <2>3
  <2>4. CASE p \in {0, Lanes + 1} /\ q \in {0, Lanes + 1}
    <3>1. (p = 0 /\ q = Lanes + 1) \/ (q = 0 /\ p = Lanes + 1)
      BY <1>5, <2>4
    <3> QED BY <3>1
  <2> QED BY <1>1, <2>1, <2>2, <2>3, <2>4
<1>6. UNION {HitsAt(m, p)' : p \in Place} = UNION {HitsAt(m, p) : p \in Place}
  <2>1. ASSUME NEW h, NEW p \in Place, h \in HitsAt(m, p)' PROVE \E q \in Place : h \in HitsAt(m, q)
    <3>1. CASE p \in Lane
      BY <1>1, <1>4, <2>1, <3>1
    <3>2. CASE p \in {0, Lanes + 1}
      <4>1. h \in HitsAt(m, 0) \/ h \in HitsAt(m, Lanes + 1) \/ h \in HitsAt(m, i)
        BY <2>1, <3>2
      <4> QED BY <1>1, <4>1
    <3> QED BY <1>1, <3>1, <3>2
  <2>2. ASSUME NEW h, NEW p \in Place, h \in HitsAt(m, p) PROVE \E q \in Place : h \in HitsAt(m, q)'
    <3>1. CASE p \in {0, Lanes + 1} \/ h \in R
      <4>1. h \in HitsAt(m, 0)' \/ h \in HitsAt(m, Lanes + 1)'
        BY <2>2, <3>1
      <4> QED BY <1>1, <4>1
    <3>2. CASE p \in Lane /\ h \notin R
      BY <1>1, <2>2, <3>2
    <3> QED BY <1>1, <3>1, <3>2
  <2> QED BY <2>1, <2>2
<1>7. \A p, q \in Place : p # q => HitsAt(m, p)' \cap HitsAt(m, q)' = {}
  BY <1>5
<1> QED BY <1>6, <1>7, Moves

LEMMA PassesConserved ==
    ASSUME Shape, Leading, Conserved, NEW m \in Lane, NEW i \in Lane, NEW c, NEW d2, NEW off2, NEW n,
           Passes(m, i, c, d2, off2, n)
    PROVE  Conserved'
<1>1. /\ pipes[m][i] \in Seq(Cluster) /\ pipes[m][i] # <<>> /\ c \in Cluster
      /\ c = Head(pipes[m][i])
      /\ d2 \in Seq(Waits) /\ n \in 0..Len(d2)
      /\ pipes'[m][i] = Tail(pipes[m][i])
      /\ \A l, p \in Lane : <<l, p>> # <<m, i>> => pipes'[l][p] = pipes[l][p]
  BY PassesShape
<1>2. PICK d, off : d = unfinished[m] /\ off = borderingOffset[m]
  OBVIOUS
<1>3. d \in Seq(Waits) /\ off \in Nat \ {0} /\ Leads(d, off) /\ Placed(d, off, c, d2, off2)
  BY <1>2 DEF Shape, Leading, Passes
<1>4. PICK s \in Seq(Cluster) : s = pipes[m][i]
  BY <1>1
<1>5. PICK o \in Seq(Cluster) : o = output[m]
  BY DEF Shape
<1>6. HoldsAt(m) /\ HoldsAt(m)'
  BY HoldsNow, HoldsThen
<1>7. 0 \notin Lane /\ Lanes + 1 \notin Lane /\ Place = Lane \cup {0, Lanes + 1} /\ 0 # Lanes + 1
      /\ Lane \subseteq Place /\ 0 \in Place /\ Lanes + 1 \in Place /\ i \in Place
  BY LaneFacts
<1>8. Once(s) /\ Apart(d) /\ Once(o)
  BY <1>2, <1>4, <1>5, <1>6, <1>7 DEF HoldsAt, Conserved
<1>9. HitsAt(m, 0) = Held(d) /\ HitsAt(m, i) = HitsIn(s) /\ HitsAt(m, Lanes + 1) = HitsIn(o)
  BY <1>2, <1>4, <1>5, <1>6 DEF HoldsAt
<1>10. HitsIn(o) \cap Held(d) = {} /\ HitsIn(o) \cap HitsIn(s) = {} /\ Held(d) \cap HitsIn(s) = {}
  <2>1. \A p, q \in Place : p # q => HitsAt(m, p) \cap HitsAt(m, q) = {}
    BY DEF Conserved
  <2>2. i # 0 /\ i # Lanes + 1
    BY <1>7
  <2> QED BY <1>7, <1>9, <2>1, <2>2
<1>11. Injective(c) /\ Range(c) \cap HitsIn(Tail(s)) = {} /\ HitsIn(s) = Range(c) \cup HitsIn(Tail(s))
       /\ Once(Tail(s))
  BY <1>1, <1>4, <1>8, TailFacts
<1>12. Apart(d2) /\ Held(d2) = Held(d) \cup Range(c)
  <2>1. Range(c) \cap Held(d) = {}
    BY <1>10, <1>11
  <2> QED BY <1>1, <1>3, <1>8, <1>11, <2>1, PlacedHits
<1>13. PICK o2, b : o2 = o \o WrittenOf(SubSeq(d2, 1, n)) /\ b = SubSeq(d2, n + 1, Len(d2))
  OBVIOUS
<1>14. /\ Once(o2) /\ Apart(b) /\ HitsIn(o2) \cap Held(b) = {}
       /\ HitsIn(o2) \cup Held(b) = HitsIn(o) \cup Held(d2)
  <2>1. HitsIn(o) \cap Held(d2) = {}
    BY <1>10, <1>11, <1>12
  <2> QED BY <1>1, <1>8, <1>12, <1>13, <2>1, FrontHits
<1>15. WriteFront(m, d2, n) /\ hits' = hits
  BY DEF Passes
<1>16. /\ unfinished'[m] = b /\ output'[m] = o2
       /\ \A l \in Lane : l # m => unfinished'[l] = unfinished[l] /\ output'[l] = output[l]
  BY <1>1, <1>5, <1>13, <1>15, FrontShape
<1>17. \A l \in Lane : l # m => pipes'[l] = pipes[l]
  BY DEF Passes, Shape
<1>18. HitsAt(m, 0)' = Held(b) /\ HitsAt(m, Lanes + 1)' = HitsIn(o2)
       /\ Once(Holds(m, 0))' /\ Once(Holds(m, Lanes + 1))'
  BY <1>6, <1>14, <1>16 DEF HoldsAt
<1>19. HitsAt(m, i)' = HitsAt(m, i) \ Range(c) /\ Once(Holds(m, i))'
  <2>1. HitsAt(m, i)' = HitsIn(Tail(s)) /\ Once(Holds(m, i))'
    BY <1>1, <1>4, <1>6, <1>11 DEF HoldsAt
  <2> QED BY <1>9, <1>11, <2>1
<1>20. ASSUME NEW l \in Lane, l # i PROVE HitsAt(m, l)' = HitsAt(m, l) /\ Once(Holds(m, l))'
  <2>1. pipes'[m][l] = pipes[m][l]
    BY <1>1, <1>20
  <2>2. Once(Holds(m, l))
    BY <1>7 DEF Conserved
  <2> QED BY <1>6, <2>1, <2>2 DEF HoldsAt
<1>21. \A p \in Place : Once(Holds(m, p))'
  BY <1>7, <1>18, <1>19, <1>20
<1>22. HitsAt(m, 0)' \cup HitsAt(m, Lanes + 1)' = HitsAt(m, 0) \cup HitsAt(m, Lanes + 1) \cup Range(c)
       /\ HitsAt(m, 0)' \cap HitsAt(m, Lanes + 1)' = {}
  BY <1>9, <1>12, <1>14, <1>18
<1>23. Range(c) \in SUBSET HitsAt(m, i)
  BY <1>9, <1>11
<1>24. \A l \in Lane : l # m =>
          pipes'[l] = pipes[l] /\ unfinished'[l] = unfinished[l] /\ output'[l] = output[l]
  BY <1>16, <1>17
<1>25. \A l \in Lane : l # i => HitsAt(m, l)' = HitsAt(m, l)
  BY <1>20
<1> QED BY <1>15, <1>19, <1>21, <1>22, <1>23, <1>24, <1>25, Moved

LEMMA EndConserved ==
    ASSUME Shape, Conserved, NEW m \in Lane, End(m)
    PROVE  Conserved'
<1>1. PICK d2 \in Seq(Waits) : d2 = unfinished[m]
  BY DEF Shape
<1>2. PICK n \in 0..Len(d2) : n = Len(d2)
  OBVIOUS
<1>3. WriteFront(m, d2, n) /\ pipes' = pipes /\ hits' = hits
  BY <1>1, <1>2 DEF End
<1>4. PICK o \in Seq(Cluster) : o = output[m]
  BY DEF Shape
<1>5. PICK o2, b : o2 = o \o WrittenOf(SubSeq(d2, 1, n)) /\ b = SubSeq(d2, n + 1, Len(d2))
  OBVIOUS
<1>6. /\ unfinished'[m] = b /\ output'[m] = o2
      /\ \A l \in Lane : l # m => unfinished'[l] = unfinished[l] /\ output'[l] = output[l]
  BY <1>1, <1>3, <1>4, <1>5, FrontShape
<1>7. HoldsAt(m) /\ HoldsAt(m)'
  BY HoldsNow, HoldsThen
<1>8. 0 \in Place /\ Lanes + 1 \in Place /\ 0 # Lanes + 1 /\ Place = Lane \cup {0, Lanes + 1}
      /\ 1 \in Lane /\ Lane \subseteq Place
  BY LaneFacts
<1>9. Apart(d2) /\ Once(o) /\ HitsAt(m, 0) = Held(d2) /\ HitsAt(m, Lanes + 1) = HitsIn(o)
  BY <1>1, <1>4, <1>7, <1>8 DEF HoldsAt, Conserved
<1>10. HitsIn(o) \cap Held(d2) = {}
  <2>1. HitsAt(m, Lanes + 1) \cap HitsAt(m, 0) = {}
    <3>1. <<m, Lanes + 1>> # <<m, 0>>
      BY <1>8
    <3> QED BY <1>8, <3>1 DEF Conserved
  <2> QED BY <1>9, <2>1
<1>11. /\ Once(o2) /\ Apart(b) /\ HitsIn(o2) \cap Held(b) = {}
       /\ HitsIn(o2) \cup Held(b) = HitsIn(o) \cup Held(d2)
  BY <1>5, <1>9, <1>10, FrontHits
<1>12. HitsAt(m, 0)' = Held(b) /\ HitsAt(m, Lanes + 1)' = HitsIn(o2)
       /\ Once(Holds(m, 0))' /\ Once(Holds(m, Lanes + 1))'
  BY <1>6, <1>7, <1>11 DEF HoldsAt
<1>13. \A l \in Lane : HitsAt(m, l)' = HitsAt(m, l) /\ Once(Holds(m, l))'
  <2>1. \A l \in Lane : Once(Holds(m, l))
    BY <1>8 DEF Conserved
  <2> QED BY <1>3, <1>7, <2>1 DEF HoldsAt
<1>14. \A p \in Place : Once(Holds(m, p))'
  BY <1>8, <1>12, <1>13
<1>15. HitsAt(m, 0)' \cup HitsAt(m, Lanes + 1)' = HitsAt(m, 0) \cup HitsAt(m, Lanes + 1) \cup {}
       /\ HitsAt(m, 0)' \cap HitsAt(m, Lanes + 1)' = {}
  BY <1>9, <1>11, <1>12
<1>16. \A l \in Lane : l # m =>
          pipes'[l] = pipes[l] /\ unfinished'[l] = unfinished[l] /\ output'[l] = output[l]
  BY <1>3, <1>6
<1>17. HitsAt(m, 1)' = HitsAt(m, 1) \ {} /\ {} \in SUBSET HitsAt(m, 1)
       /\ \A l \in Lane : l # 1 => HitsAt(m, l)' = HitsAt(m, l)
  BY <1>8, <1>13
<1> QED BY <1>3, <1>8, <1>14, <1>15, <1>16, <1>17, Moved
-----------------------------------------------------------------------------
(* The steps merge only clusters that belong together.                     *)

LEMMA CloseEitherWay ==
    ASSUME NEW g \in Hit, NEW h \in Hit, Close(g, h)
    PROVE  Close(h, g)
<1>1. PICK x \in Int, y \in Int, t \in Int : x = g.x /\ y = g.y /\ t = g.toa
  BY SensorAssumption DEF Hit
<1>2. PICK u \in Int, v \in Int, s \in Int : u = h.x /\ v = h.y /\ s = h.toa
  BY SensorAssumption DEF Hit
<1>3. Abs(x - u) = Abs(u - x) /\ Abs(y - v) = Abs(v - y) /\ Abs(t - s) = Abs(s - t)
  BY DEF Abs
<1> QED BY <1>1, <1>2, <1>3 DEF Close, Touching

\* Two connected sets of hits with a link between them.
LEMMA ConnectedUnion ==
    ASSUME NEW a \in SUBSET Hit, NEW b \in SUBSET Hit, NEW parts,
           Connected(a, parts), Connected(b, parts), \E g \in a, h \in b : Close(g, h)
    PROVE  Connected(a \cup b, parts)
<1>1. PICK x \in a, y \in b : Close(x, y) /\ Close(y, x)
  BY CloseEitherWay
<1> SUFFICES ASSUME NEW some \in SUBSET (a \cup b), some # {}, some # a \cup b
             PROVE  \E g \in some, h \in (a \cup b) \ some :
                        Close(g, h) \/ \E p \in parts : {g, h} \subseteq p
  BY DEF Connected
<1>2. ASSUME NEW c \in {a, b}, some \cap c # {}, some \cap c # c
      PROVE  \E g \in some, h \in (a \cup b) \ some :
                 Close(g, h) \/ \E p \in parts : {g, h} \subseteq p
  <2>1. PICK in : in = some \cap c
    OBVIOUS
  <2>2. in \in (SUBSET c) \ {{}, c} /\ Connected(c, parts)
    BY <1>2, <2>1
  <2>3. PICK g \in in, h \in c \ in : Close(g, h) \/ \E p \in parts : {g, h} \subseteq p
    BY <2>2 DEF Connected
  <2>4. g \in some /\ h \in (a \cup b) \ some
    BY <2>1, <2>3
  <2> QED BY <2>3, <2>4
<1>3. CASE some \cap a \in {{}, a} /\ some \cap b \in {{}, b}
  <2>1. CASE x \in some
    <3>1. some \cap a = a
      BY <1>3, <2>1
    <3>2. y \notin some
      <4>1. some \cap b # b
        BY <3>1
      <4> QED BY <1>3, <4>1
    <3> QED BY <1>1, <2>1, <3>2
  <2>2. CASE x \notin some
    <3>1. some \cap a = {}
      BY <1>3, <2>2
    <3>2. y \in some
      <4>1. some \cap b # {}
        BY <3>1
      <4> QED BY <1>3, <4>1
    <3> QED BY <1>1, <2>2, <3>2
  <2> QED BY <2>1, <2>2
<1> QED BY <1>2, <1>3

\* What can be merged has two hits that belong together.
LEMMA MergeableLinked ==
    ASSUME NEW a \in Waits, NEW b \in Waits, CanMerge(a, b)
    PROVE  \E g \in Range(a.hits), h \in Range(b.hits) : Close(g, h)
<1>1. PICK larger, smaller :
         /\ larger = IF Len(a.hits) < Len(b.hits) THEN b.hits ELSE a.hits
         /\ smaller = IF Len(a.hits) < Len(b.hits) THEN a.hits ELSE b.hits
  OBVIOUS
<1>2. PICK h \in Range(smaller), i \in DOMAIN larger :
         Touching(larger[i], h) /\ Abs(larger[i].toa - h.toa) < MergeTime
  <2>1. SpatiallyNeighboring(a, b)
    BY DEF CanMerge
  <2> QED BY <1>1, <2>1 DEF SpatiallyNeighboring
<1>3. PICK g : g = larger[i]
  OBVIOUS
<1>4. g \in Range(larger) /\ Close(g, h)
  BY <1>2, <1>3 DEF Close, Range
<1>5. Range(a.hits) \in SUBSET Hit /\ Range(b.hits) \in SUBSET Hit
  BY WaitsFacts, RangeOfCluster
<1>6. CASE larger = a.hits /\ smaller = b.hits
  BY <1>2, <1>4, <1>6
<1>7. CASE larger = b.hits /\ smaller = a.hits
  <2>1. g \in Hit /\ h \in Hit /\ g \in Range(b.hits) /\ h \in Range(a.hits)
    BY <1>2, <1>4, <1>5, <1>7
  <2>2. Close(h, g)
    BY <1>4, <2>1, CloseEitherWay
  <2> QED BY <2>1, <2>2
<1> QED BY <1>1, <1>6, <1>7

WholeIn(d, parts) == \A i \in ValidIn(d) : Connected(Range(d[i].hits), parts)

LEMMA PlacedWhole ==
    ASSUME NEW d \in Seq(Waits), NEW off \in Nat \ {0}, Leads(d, off), NEW c \in Cluster,
           NEW parts, WholeIn(d, parts), Connected(Range(c), parts),
           NEW d2, NEW off2, Placed(d, off, c, d2, off2)
    PROVE  WholeIn(d2, parts)
<1>1. ASSUME NEW e \in Waits, d2 = Append(d, e), e.hits = c
      PROVE  WholeIn(d2, parts)
  <2>1. PICK l \in Nat : l = Len(d)
    OBVIOUS
  <2>2. /\ DOMAIN d = 1..l /\ DOMAIN d2 = 1..(l + 1)
        /\ \A j \in 1..(l + 1) : j \in 1..l \/ j = l + 1
        /\ d2[l + 1] = e
        /\ \A j \in 1..l : d2[j] = d[j] /\ j # l + 1
    BY <1>1, <2>1, AppendedWaits
  <2> QED BY <1>1, <2>2 DEF WholeIn, ValidIn
<1>2. CASE d2 = Append(d, Entry(c, off, FALSE))
  <2>1. PICK e : e = Entry(c, off, FALSE)
    OBVIOUS
  <2>2. e \in Waits /\ e.hits = c
    BY <2>1, EntryFacts
  <2> QED BY <1>1, <1>2, <2>1, <2>2
<1>3. CASE d2 = WithBorder(d, off, c)
  <2>1. PICK new, found : new = Entry(c, off, TRUE) /\ found = MergeIndices(d, new)
    OBVIOUS
  <2>2. new \in Waits /\ new.hits = c /\ new.offset = off
    BY <2>1, EntryFacts
  <2>3. CASE found = {}
    <3>1. d2 = Append(d, new)
      BY <1>3, <2>1, <2>3, WithBorderFacts
    <3> QED BY <1>1, <2>2, <3>1
  <2>4. CASE found # {}
    <3>1. PICK k, e : k = Least(found) /\ e = MergedEntry(d, new, found)
                      /\ Merging(d, new, found) /\ MergedAt(d, found, k, e, d2)
      BY <1>3, <2>1, <2>4, WithBorderFacts
    <3>2. /\ DOMAIN d2 = DOMAIN d /\ k \in found /\ k \in DOMAIN d
          /\ found \in SUBSET DOMAIN d /\ d2[k] = e /\ e.valid
          /\ \A i \in DOMAIN d : i # k => /\ d2[i].hits = d[i].hits
                                          /\ d2[i].valid <=> d[i].valid /\ i \notin found
      BY <3>1 DEF MergedAt
    <3>3. \A i \in found : d[i].valid /\ CanMerge(d[i], new)
      BY <2>1, <2>2, FoundFacts
    <3>4. \A i \in found : d[i] \in Waits /\ Connected(Range(d[i].hits), parts)
             /\ \E g \in Range(d[i].hits), h \in Range(c) : Close(g, h)
      <4> SUFFICES ASSUME NEW i \in found
                   PROVE  d[i] \in Waits /\ Connected(Range(d[i].hits), parts)
                          /\ \E g \in Range(d[i].hits), h \in Range(c) : Close(g, h)
        OBVIOUS
      <4>1. PICK z \in Waits : z = d[i]
        BY <3>2
      <4>2. \E g \in Range(z.hits), h \in Range(c) : Close(g, h)
        BY <2>2, <3>3, <4>1, MergeableLinked
      <4>3. i \in ValidIn(d)
        BY <3>2, <3>3 DEF ValidIn
      <4> QED BY <4>1, <4>2, <4>3 DEF WholeIn
    <3> DEFINE Linked(x) == Connected(Range(x), parts) /\ Range(c) \subseteq Range(x)
               Q == [n \in 0..Len(d) |-> {a \in Waits : Linked(a.hits)}]
    <3>5. ASSUME NEW a \in Waits, NEW z \in Waits,
                 Connected(Range(a.hits), parts), Connected(Range(z.hits), parts),
                 Range(c) \subseteq Range(a.hits) \/ Range(c) \subseteq Range(z.hits),
                 \E g \in Range(a.hits), h \in Range(z.hits) : Close(g, h)
          PROVE  MergeWith(a, z) \in Waits /\ Linked(MergeWith(a, z).hits)
      <4>1. PICK w : w = MergeWith(a, z)
        OBVIOUS
      <4>2. w \in Waits /\ w.hits = a.hits \o z.hits
        BY <4>1, MergeWithFacts
      <4>3. a.hits \in Seq(Hit) /\ z.hits \in Seq(Hit)
            /\ Range(a.hits) \in SUBSET Hit /\ Range(z.hits) \in SUBSET Hit
        BY WaitsFacts, RangeOfCluster DEF Cluster
      <4>4. Range(w.hits) = Range(a.hits) \cup Range(z.hits)
        BY <4>2, <4>3, JoinedHits
      <4>5. Connected(Range(w.hits), parts)
        BY <3>5, <4>3, <4>4, ConnectedUnion
      <4> QED BY <3>5, <4>1, <4>2, <4>4, <4>5
    <3>6. Keeping(d, new, found, Q)
      <4>1. MergeWith(d[k], new) \in Q[0]
        <5>1. 0 \in 0..Len(d)
          OBVIOUS
        <5>2. PICK b \in Waits : b = d[k]
          BY <3>2, <3>4
        <5>3. PICK w : w = MergeWith(b, new)
          OBVIOUS
        <5>4. w \in Waits /\ Linked(w.hits)
          <6> HIDE DEF Linked
          <6> QED BY <2>2, <3>2, <3>4, <3>5, <5>2, <5>3
        <5> HIDE DEF Linked
        <5> QED BY <5>1, <5>2, <5>3, <5>4
      <4>2. ASSUME NEW n \in 1..Len(d), NEW a \in Q[n - 1] \cap Waits
            PROVE  MergesAt(d, found, n, a) \in Q[n]
        <5>1. n \in 0..Len(d) /\ n - 1 \in 0..Len(d)
          OBVIOUS
        <5>2. PICK i : i = Len(d) + 1 - n
          OBVIOUS
        <5>3. a \in Waits /\ Linked(a.hits)
          <6> HIDE DEF Linked
          <6> QED BY <5>1
        <5>4. ASSUME i \in found PROVE MergeWith(a, d[i]) \in Q[n]
          <6>1. PICK z \in Waits : z = d[i]
            BY <3>4, <5>4
          <6>2. PICK y \in Range(z.hits), h \in Range(c) : Close(y, h)
            BY <3>4, <5>4, <6>1
          <6>3. Range(z.hits) \in SUBSET Hit /\ Range(c) \in SUBSET Hit
            BY WaitsFacts, RangeOfCluster
          <6>4. Close(h, y) /\ h \in Range(a.hits)
            BY <5>3, <6>2, <6>3, CloseEitherWay
          <6>5. Connected(Range(z.hits), parts)
            BY <3>4, <5>4, <6>1
          <6>6. PICK w : w = MergeWith(a, z)
            OBVIOUS
          <6>7. w \in Waits /\ Linked(w.hits)
            <7>1. Connected(Range(a.hits), parts) /\ Range(c) \subseteq Range(a.hits)
              BY <5>3
            <7> HIDE DEF Linked
            <7> QED BY <3>5, <6>2, <6>4, <6>5, <6>6, <7>1
          <6> HIDE DEF Linked
          <6> QED BY <5>1, <6>1, <6>6, <6>7
        <5>5. a \in Q[n]
          <6> HIDE DEF Linked
          <6> QED BY <5>1, <5>3
        <5> HIDE DEF Q
        <5> QED BY <5>2, <5>4, <5>5 DEF MergesAt
      <4> HIDE DEF Q
      <4> QED BY <3>1, <4>1, <4>2 DEF Keeping
    <3>7. e \in Q[Len(d)]
      <4> HIDE DEF Q
      <4> QED BY <3>1, <3>6, MergedIn
    <3>8. Connected(Range(e.hits), parts)
      <4>1. Len(d) \in 0..Len(d)
        OBVIOUS
      <4> QED BY <3>7, <4>1
    <3> HIDE DEF Q, Linked
    <3> QED BY <3>2, <3>8 DEF WholeIn, ValidIn
  <2> QED BY <2>3, <2>4
<1> QED BY <1>2, <1>3 DEF Placed

AllWhole(o, parts) == \A i \in DOMAIN o : Connected(Range(o[i]), parts)

LEMMA FrontWhole ==
    ASSUME NEW d2 \in Seq(Waits), NEW n \in 0..Len(d2), NEW parts, WholeIn(d2, parts),
           NEW o \in Seq(Cluster), AllWhole(o, parts)
    PROVE  /\ AllWhole(o \o WrittenOf(SubSeq(d2, 1, n)), parts)
           /\ WholeIn(SubSeq(d2, n + 1, Len(d2)), parts)
<1>1. PICK a, b : a = SubSeq(d2, 1, n) /\ b = SubSeq(d2, n + 1, Len(d2))
  OBVIOUS
<1>2. PICK l \in Nat : l = Len(d2) - n
  OBVIOUS
<1>3. /\ a \in Seq(Waits) /\ DOMAIN a = 1..n /\ \A i \in 1..n : a[i] = d2[i]
      /\ b \in Seq(Waits) /\ DOMAIN b = 1..l /\ \A i \in 1..l : b[i] = d2[n + i]
      /\ DOMAIN d2 = 1..(n + l) /\ n \in Nat
  <2>1. Len(d2) = n + l /\ n \in Nat
    BY <1>2
  <2>2. a \in Seq(Waits) /\ DOMAIN a = 1..n /\ \A i \in 1..n : a[i] = d2[i]
    BY <1>1, TwoParts
  <2>3. b \in Seq(Waits) /\ DOMAIN b = 1..l /\ \A i \in 1..l : b[i] = d2[n + i]
    BY <1>1, <1>2, TwoParts
  <2> QED BY <2>1, <2>2, <2>3
<1>4. (\A i \in 1..n : i \in 1..(n + l)) /\ (\A i \in 1..l : n + i \in 1..(n + l))
  BY <1>3
<1>5. \A i \in ValidIn(a) : i \in ValidIn(d2) /\ a[i] = d2[i]
  BY <1>3, <1>4 DEF ValidIn
<1>6. \A i \in ValidIn(b) : n + i \in ValidIn(d2) /\ b[i] = d2[n + i]
  BY <1>3, <1>4 DEF ValidIn
<1>7. WholeIn(b, parts)
  BY <1>6 DEF WholeIn
<1>8. PICK w \in Seq(Cluster) : w = WrittenOf(a)
  BY <1>3, WrittenClusters
<1>9. AllWhole(w, parts)
  <2> SUFFICES ASSUME NEW k \in DOMAIN w PROVE Connected(Range(w[k]), parts)
    BY DEF AllWhole
  <2>1. w[k] \in Range(w)
    BY DEF Range
  <2>2. Range(w) = {a[i].hits : i \in ValidIn(a)}
    BY <1>3, <1>8, WrittenClusters
  <2>3. PICK i \in ValidIn(a) : w[k] = a[i].hits
    BY <2>1, <2>2
  <2> QED BY <1>5, <2>3 DEF WholeIn
<1>10. PICK o2 : o2 = o \o w
  OBVIOUS
<1>11. AllWhole(o2, parts)
  <2>1. PICK p \in Nat, q \in Nat : p = Len(o) /\ q = Len(w)
    OBVIOUS
  <2>2. /\ DOMAIN o2 = 1..(p + q) /\ DOMAIN o = 1..p /\ DOMAIN w = 1..q
        /\ \A i \in 1..p : o2[i] = o[i]
        /\ \A i \in 1..q : o2[p + i] = w[i]
    BY <1>10, <2>1
  <2>3. \A i \in 1..(p + q) : i \in 1..p \/ (i - p \in 1..q /\ p + (i - p) = i)
    OBVIOUS
  <2>4. \A i \in DOMAIN o2 : (i \in DOMAIN o /\ o2[i] = o[i]) \/ (i - p \in DOMAIN w /\ o2[i] = w[i - p])
    BY <2>2, <2>3
  <2> QED BY <1>9, <2>4 DEF AllWhole
<1> QED BY <1>1, <1>7, <1>8, <1>10, <1>11

\* The same of all clusters.
WholeAt(m) ==
    /\ WholeIn(unfinished[m], Parts)
    /\ \A i \in Lane : AllWhole(pipes[m][i], Parts)
    /\ AllWhole(output[m], Parts)

LEMMA WholeNow == Whole <=> \A m \in Lane : WholeAt(m)
<1>1. ASSUME NEW m \in Lane
      PROVE  WholeAt(m) <=> \A p \in Place : \A i \in DOMAIN Holds(m, p) :
                                Connected(Range(Holds(m, p)[i]), Parts)
  <2>1. /\ \A i \in Lane : Holds(m, i) = pipes[m][i]
        /\ Holds(m, Lanes + 1) = output[m]
        /\ Holds(m, 0) = [i \in Waiting(m) |-> unfinished[m][i].hits]
    BY HoldsFacts
  <2>2. Place = Lane \cup {0, Lanes + 1} /\ Waiting(m) = ValidIn(unfinished[m])
    BY LaneFacts DEF Waiting, ValidIn
  <2>3. WholeIn(unfinished[m], Parts) <=>
          \A i \in DOMAIN Holds(m, 0) : Connected(Range(Holds(m, 0)[i]), Parts)
    BY <2>1, <2>2 DEF WholeIn
  <2> QED BY <2>1, <2>2, <2>3 DEF WholeAt, AllWhole
<1> QED BY <1>1 DEF Whole

LEMMA WholeThen == Whole' <=> \A m \in Lane : WholeAt(m)'
<1>1. (Whole <=> \A m \in Lane : WholeAt(m))'
  BY WholeNow, PTL
<1> QED BY <1>1

LEMMA SameParts ==
    ASSUME hits' = hits
    PROVE  Parts' = Parts
BY DEF Parts

LEMMA WholeOfOne ==
    ASSUME Shape, Whole, hits' = hits, NEW m \in Lane, NEW d2 \in Seq(Waits), NEW n \in 0..Len(d2),
           WriteFront(m, d2, n), WholeIn(d2, Parts),
           \A l \in Lane : l # m => pipes'[l] = pipes[l],
           \A i \in Lane : AllWhole(pipes'[m][i], Parts)
    PROVE  Whole'
<1>1. PICK parts : parts = Parts
  OBVIOUS
<1>2. parts = Parts'
  BY <1>1, SameParts
<1>3. PICK o \in Seq(Cluster) : o = output[m]
  BY DEF Shape
<1>4. PICK o2, b : o2 = o \o WrittenOf(SubSeq(d2, 1, n)) /\ b = SubSeq(d2, n + 1, Len(d2))
  OBVIOUS
<1>5. /\ unfinished'[m] = b /\ output'[m] = o2
      /\ \A l \in Lane : l # m => unfinished'[l] = unfinished[l] /\ output'[l] = output[l]
  BY <1>3, <1>4, FrontShape
<1>6. AllWhole(o, parts)
  BY <1>1, <1>3, WholeNow DEF WholeAt
<1>7. AllWhole(o2, parts) /\ WholeIn(b, parts)
  BY <1>1, <1>4, <1>6, FrontWhole
<1>8. ASSUME NEW l \in Lane PROVE WholeAt(l)'
  <2>1. CASE l = m
    BY <1>1, <1>2, <1>5, <1>7, <2>1 DEF WholeAt
  <2>2. CASE l # m
    <3>1. WholeAt(l)
      BY WholeNow
    <3> QED BY <1>1, <1>2, <1>5, <2>2, <3>1 DEF WholeAt
  <2> QED BY <2>1, <2>2
<1> QED BY <1>8, WholeThen

LEMMA PassesWhole ==
    ASSUME Shape, Leading, Whole, NEW m \in Lane, NEW i \in Lane, NEW c, NEW d2, NEW off2, NEW n,
           Passes(m, i, c, d2, off2, n)
    PROVE  Whole'
<1>1. /\ pipes[m][i] \in Seq(Cluster) /\ pipes[m][i] # <<>> /\ c \in Cluster
      /\ c = Head(pipes[m][i])
      /\ d2 \in Seq(Waits) /\ n \in 0..Len(d2)
      /\ pipes'[m][i] = Tail(pipes[m][i])
      /\ \A l, p \in Lane : <<l, p>> # <<m, i>> => pipes'[l][p] = pipes[l][p]
  BY PassesShape
<1>2. PICK d, off, parts : d = unfinished[m] /\ off = borderingOffset[m] /\ parts = Parts
  OBVIOUS
<1>3. d \in Seq(Waits) /\ off \in Nat \ {0} /\ Leads(d, off) /\ Placed(d, off, c, d2, off2)
  BY <1>2 DEF Shape, Leading, Passes
<1>4. WholeIn(d, parts) /\ \A l \in Lane : AllWhole(pipes[m][l], parts)
  BY <1>2, WholeNow DEF WholeAt
<1>5. PICK s \in Seq(Cluster) : s = pipes[m][i]
  BY <1>1
<1>6. /\ c = s[1] /\ 1 \in DOMAIN s
      /\ \A j \in DOMAIN Tail(s) : j + 1 \in DOMAIN s /\ Tail(s)[j] = s[j + 1]
  BY <1>1, <1>5, TailFacts
<1>7. AllWhole(s, parts)
  BY <1>4, <1>5
<1>8. Connected(Range(c), parts) /\ AllWhole(Tail(s), parts)
  BY <1>6, <1>7 DEF AllWhole
<1>9. WholeIn(d2, parts)
  BY <1>1, <1>3, <1>4, <1>8, PlacedWhole
<1>10. ASSUME NEW l \in Lane PROVE AllWhole(pipes'[m][l], Parts)
  <2>1. CASE l = i
    BY <1>1, <1>2, <1>5, <1>8, <2>1
  <2>2. CASE l # i
    BY <1>1, <1>2, <1>4, <2>2
  <2> QED BY <2>1, <2>2
<1>11. \A l \in Lane : l # m => pipes'[l] = pipes[l]
  BY DEF Passes, Shape
<1>12. WriteFront(m, d2, n) /\ hits' = hits
  BY DEF Passes
<1>13. WholeIn(d2, Parts)
  BY <1>2, <1>9
<1> QED BY <1>1, <1>10, <1>11, <1>12, <1>13, WholeOfOne

LEMMA EndWhole ==
    ASSUME Shape, Whole, NEW m \in Lane, End(m)
    PROVE  Whole'
<1>1. PICK d2 \in Seq(Waits) : d2 = unfinished[m]
  BY DEF Shape
<1>2. Len(d2) \in 0..Len(d2)
  OBVIOUS
<1>3. WriteFront(m, d2, Len(d2)) /\ pipes' = pipes /\ hits' = hits
  BY <1>1 DEF End
<1>4. WholeIn(d2, Parts) /\ \A i \in Lane : AllWhole(pipes'[m][i], Parts)
  BY <1>1, <1>3, WholeNow DEF WholeAt
<1>5. \A l \in Lane : l # m => pipes'[l] = pipes[l]
  BY <1>3
<1> QED BY <1>2, <1>3, <1>4, <1>5, WholeOfOne

-----------------------------------------------------------------------------
(* The theorems.                                                           *)

\* Every step of a merger keeps its hits, their order and the links between them.
LEMMA MergerSteps == MergerInv /\ [Next]_vars => MergerInv'
<1> SUFFICES ASSUME MergerInv, [Next]_vars PROVE MergerInv'
  OBVIOUS
<1>0. Shape /\ Leading /\ Conserved /\ InOrder /\ Whole
  BY DEF MergerInv
<1>1. ASSUME NEW m \in Lane, NEW i \in Lane, ProcessBorder(m, i) \/ ProcessInner(m, i)
      PROVE  MergerInv'
  <2>1. PICK c, d2, off2, n : Passes(m, i, c, d2, off2, n)
    BY <1>0, <1>1, ProcessStep DEF Leading
  <2>2. Shape' /\ Leading'
    BY <1>0, <2>1, PassesShape
  <2>3. Conserved'
    BY <1>0, <2>1, PassesConserved
  <2>4. InOrder'
    BY <1>0, <2>1, PassesOrder
  <2>5. Whole'
    BY <1>0, <2>1, PassesWhole
  <2> QED BY <2>2, <2>3, <2>4, <2>5 DEF MergerInv
<1>2. ASSUME NEW m \in Lane, End(m) PROVE MergerInv'
  <2>1. Shape' /\ Leading'
    BY <1>0, <1>2, EndShape
  <2>2. Conserved' /\ InOrder' /\ Whole'
    BY <1>0, <1>2, EndConserved, EndOrder, EndWhole
  <2> QED BY <2>1, <2>2 DEF MergerInv
<1>3. CASE UNCHANGED vars
  <2>1. /\ arch' = arch /\ hits' = hits /\ pipes' = pipes /\ unfinished' = unfinished
        /\ borderingOffset' = borderingOffset /\ output' = output /\ closed' = closed
    BY <1>3 DEF vars
  <2>2. Shape' /\ Leading' /\ InOrder'
    BY <1>0, <2>1 DEF Shape, Leading, InOrder
  <2>3. Whole'
    <3>1. \A m \in Lane : WholeAt(m)
      BY <1>0, WholeNow
    <3>2. \A m \in Lane : WholeAt(m)'
      BY <2>1, <3>1, SameParts DEF WholeAt
    <3> QED BY <3>2, WholeThen
  <2>4. Conserved'
    <3>1. \A m \in Lane, p \in Place :
             (Once(Holds(m, p)) => Once(Holds(m, p))') /\ HitsAt(m, p)' = HitsAt(m, p)
      <4> SUFFICES ASSUME NEW m \in Lane, NEW p \in Place
                   PROVE  (Once(Holds(m, p)) => Once(Holds(m, p))') /\ HitsAt(m, p)' = HitsAt(m, p)
        OBVIOUS
      <4>1. HoldsAt(m) /\ HoldsAt(m)'
        BY HoldsNow, HoldsThen
      <4>2. p = 0 \/ p \in Lane \/ p = Lanes + 1
        BY LaneFacts
      <4> QED BY <2>1, <4>1, <4>2 DEF HoldsAt
    <3>2. \A m \in Lane, p \in Place : Once(Holds(m, p))'
      BY <1>0, <3>1 DEF Conserved
    <3>3. \A m, l \in Lane, p, q \in Place :
             <<m, p>> # <<l, q>> => HitsAt(m, p)' \cap HitsAt(l, q)' = {}
      BY <1>0, <3>1 DEF Conserved
    <3>4. \A m \in Lane, p \in Place : HitsAt(m, p)' \in SUBSET Range(hits)'
      BY <1>0, <2>1, <3>1 DEF Conserved
    <3>5. \A h \in Range(hits)' : \E m \in Lane, p \in Place : h \in HitsAt(m, p)'
      BY <1>0, <2>1, <3>1 DEF Conserved
    <3> QED BY <3>2, <3>3, <3>4, <3>5 DEF Conserved
  <2> QED BY <2>2, <2>3, <2>4 DEF MergerInv
<1> QED BY <1>1, <1>2, <1>3 DEF Next, Finished

\* At any time each hit is in one cluster, written clusters, waiting ones and those
\* still to be read follow one another in time, offsets lead to border clusters, and
\* every cluster is made of parts that belong together (cluster_merging::start).
THEOREM MergerInvariant == Spec => []MergerInv
<1>1. Init => MergerInv
  BY InitShape, InitOrder, InitConserved, InitWhole DEF MergerInv
<1> QED BY <1>1, MergerSteps, PTL DEF Spec

\* The stream, the lanes, the deques and the offsets are always well formed, and no
\* cluster has a hit that is not of the stream.
THEOREM MergerTypes == Spec => []TypeOK
<1>1. MergerInv => TypeOK
  <2> SUFFICES ASSUME MergerInv PROVE TypeOK
    OBVIOUS
  <2>0. Shape /\ Conserved
    BY DEF MergerInv
  <2>1. ASSUME NEW m \in Lane, NEW i \in Lane, NEW k \in DOMAIN pipes[m][i]
        PROVE  Range(pipes[m][i][k]) \subseteq Range(hits)
    <3>1. HitsIn(pipes[m][i]) \in SUBSET Range(hits)
      <4>1. i \in Place /\ HoldsAt(m)
        BY HoldsNow, LaneFacts
      <4> QED BY <2>0, <4>1 DEF Conserved, HoldsAt
    <3> QED BY <3>1 DEF HitsIn
  <2>2. ASSUME NEW m \in Lane, NEW i \in DOMAIN unfinished[m]
        PROVE  /\ unfinished[m][i].offset \in Nat \ {0}
               /\ {unfinished[m][i].border, unfinished[m][i].valid} \subseteq BOOLEAN
    <3>1. PICK d \in Seq(Waits) : d = unfinished[m]
      BY <2>0 DEF Shape
    <3>2. d[i] \in Waits
      BY <3>1
    <3>3. d[i].offset \in Nat \ {0} /\ d[i].border \in BOOLEAN /\ d[i].valid \in BOOLEAN
      BY <3>2, WaitsFacts
    <3> QED BY <3>1, <3>3
  <2>3. arch \in Architectures /\ borderingOffset \in [Lane -> Nat \ {0}]
        /\ closed \in [Lane -> BOOLEAN]
    BY <2>0 DEF Shape
  <2> QED BY <2>1, <2>2, <2>3 DEF TypeOK
<1> QED BY <1>1, MergerInvariant, PTL

\* bordering_offset and the offsets kept with the clusters lead a search from the
\* end of a deque to every border cluster in it, whatever was merged, invalidated
\* and removed before (process_border_cluster).
THEOREM MergerChainReachesBorders == Spec => []ChainReachesBorders
<1>1. MergerInv => ChainReachesBorders
  <2> SUFFICES ASSUME MergerInv, NEW m \in Lane
               PROVE  {i \in DOMAIN unfinished[m] : unfinished[m][i].border}
                        \subseteq Chain(unfinished[m], borderingOffset[m])
    BY DEF ChainReachesBorders
  <2>1. PICK d, off : d = unfinished[m] /\ off = borderingOffset[m]
    OBVIOUS
  <2>2. d \in Seq(Waits) /\ off \in Nat \ {0} /\ Leads(d, off)
    BY <2>1 DEF MergerInv, Shape, Leading
  <2> QED BY <2>1, <2>2, ChainReaches
<1> QED BY <1>1, MergerInvariant, PTL

\* Every merger writes its clusters in the order of their first toa, the inner ones
\* and those that waited alike (write_old_clusters, process_cluster).
THEOREM MergerOutputSorted == Spec => []OutputSorted
<1>1. MergerInv => OutputSorted
  BY DEF MergerInv, InOrder, FirstsSorted, FirstsSortedAt, OutputSorted
<1> QED BY <1>1, MergerInvariant, PTL

\* Reading, merging, invalidating and writing clusters neither loses nor doubles a
\* hit: it is always in exactly one cluster, at one place of one merger.
THEOREM MergerHitsConserved == Spec => []HitsConserved
<1>1. MergerInv => HitsConserved
  <2> SUFFICES ASSUME MergerInv PROVE HitsConserved
    OBVIOUS
  <2>0. Conserved
    BY DEF MergerInv
  <2> DEFINE labels == UNION {{<<m, p, i>> : i \in DOMAIN Holds(m, p)} :
                                m \in Lane, p \in 0..(Lanes + 1)}
             held == [l \in labels |-> Holds(l[1], l[2])[l[3]]]
  <2>1. ASSUME NEW l \in labels
        PROVE  \E m \in Lane, p \in Place : \E i \in DOMAIN Holds(m, p) :
                  l = <<m, p, i>> /\ held[l] = Holds(m, p)[i]
    BY DEF Place
  <2>2. ASSUME NEW m \in Lane, NEW p \in Place, NEW i \in DOMAIN Holds(m, p)
        PROVE  <<m, p, i>> \in labels /\ held[<<m, p, i>>] = Holds(m, p)[i]
    <3>1. PICK l : l = <<m, p, i>>
      OBVIOUS
    <3>2. l[1] = m /\ l[2] = p /\ l[3] = i
      BY <3>1
    <3>3. l \in labels
      <4>1. PICK S : S = {<<m, p, x>> : x \in DOMAIN Holds(m, p)}
        OBVIOUS
      <4>2. l \in S /\ p \in 0..(Lanes + 1)
        BY <3>1, <4>1 DEF Place
      <4>3. S \in {{<<n, q, x>> : x \in DOMAIN Holds(n, q)} : n \in Lane, q \in 0..(Lanes + 1)}
        BY <4>1, <4>2
      <4> HIDE DEF held
      <4> QED BY <4>2, <4>3
    <3> HIDE DEF labels
    <3> QED BY <3>1, <3>2, <3>3
  <2> HIDE DEF labels, held
  <2>3. ASSUME NEW m \in Lane, NEW p \in Place, NEW i \in DOMAIN Holds(m, p)
        PROVE  Range(Holds(m, p)[i]) \in SUBSET HitsAt(m, p)
    BY DEF HitsAt, HitsIn
  <2>4. UNION {Range(held[l]) : l \in labels} = Range(hits)
    <3>1. ASSUME NEW l \in labels, NEW h \in Range(held[l]) PROVE h \in Range(hits)
      <4>1. PICK m \in Lane, p \in Place : \E i \in DOMAIN Holds(m, p) :
                    l = <<m, p, i>> /\ held[l] = Holds(m, p)[i]
        BY <2>1
      <4>2. PICK i \in DOMAIN Holds(m, p) : l = <<m, p, i>> /\ held[l] = Holds(m, p)[i]
        BY <4>1
      <4>3. h \in HitsAt(m, p)
        BY <2>3, <4>2
      <4> QED BY <2>0, <4>3 DEF Conserved
    <3>2. ASSUME NEW h \in Range(hits) PROVE \E l \in labels : h \in Range(held[l])
      <4>1. PICK m \in Lane, p \in Place : h \in HitsAt(m, p)
        BY <2>0 DEF Conserved
      <4>2. PICK i \in DOMAIN Holds(m, p) : h \in Range(Holds(m, p)[i])
        BY <4>1 DEF HitsAt, HitsIn
      <4> QED BY <2>2, <4>2
    <3> QED BY <3>1, <3>2
  <2>5. ASSUME NEW l \in labels, NEW r \in labels, NEW j \in DOMAIN held[l], NEW k \in DOMAIN held[r],
               held[l][j] = held[r][k]
        PROVE  l = r /\ j = k
    <3>1. PICK m \in Lane, p \in Place : \E i \in DOMAIN Holds(m, p) :
                  l = <<m, p, i>> /\ held[l] = Holds(m, p)[i]
      BY <2>1
    <3>2. PICK i \in DOMAIN Holds(m, p) : l = <<m, p, i>> /\ held[l] = Holds(m, p)[i]
      BY <3>1
    <3>3. PICK n \in Lane, q \in Place : \E x \in DOMAIN Holds(n, q) :
                  r = <<n, q, x>> /\ held[r] = Holds(n, q)[x]
      BY <2>1
    <3>4. PICK x \in DOMAIN Holds(n, q) : r = <<n, q, x>> /\ held[r] = Holds(n, q)[x]
      BY <3>3
    <3>5. PICK h : h = held[l][j]
      OBVIOUS
    <3>6. h \in HitsAt(m, p) /\ h \in HitsAt(n, q)
      <4>1. h \in Range(held[l]) /\ h \in Range(held[r])
        BY <2>5, <3>5 DEF Range
      <4> QED BY <2>3, <3>2, <3>4, <4>1
    <3>7. m = n /\ p = q
      BY <2>0, <3>6 DEF Conserved
    <3>8. SameHit(Holds(m, p), i, x, j, k) /\ x \in DOMAIN Holds(m, p)
      BY <2>5, <3>2, <3>4, <3>7 DEF SameHit
    <3>9. i = x /\ j = k
      BY <2>0, <3>2, <3>8 DEF Conserved, Once, OnceAt
    <3> QED BY <3>2, <3>4, <3>7, <3>9
  <2>6. \A l, r \in labels : \A j \in DOMAIN held[l], k \in DOMAIN held[r] :
           held[l][j] = held[r][k] => l = r /\ j = k
    BY <2>5
  <2>7. HitsConserved <=>
           /\ UNION {Range(held[l]) : l \in labels} = Range(hits)
           /\ \A l, r \in labels : \A j \in DOMAIN held[l], k \in DOMAIN held[r] :
                 held[l][j] = held[r][k] => l = r /\ j = k
    BY DEF HitsConserved, labels, held
  <2> QED BY <2>4, <2>6, <2>7
<1> QED BY <1>1, MergerInvariant, PTL

\* Only what belongs together is merged (can_merge): the clusters of the lanes that
\* a written cluster consists of hang together by hits that touch in space and time.
THEOREM MergerMergesOnlyNeighbors == Spec => []MergesOnlyNeighbors
<1>1. MergerInv => MergesOnlyNeighbors
  <2> SUFFICES ASSUME MergerInv, NEW c \in Written PROVE Connected(Range(c), Parts)
    BY DEF MergesOnlyNeighbors
  <2>1. PICK m \in Lane : c \in Range(output[m])
    BY DEF Written
  <2>2. PICK i \in DOMAIN output[m] : c = output[m][i]
    BY <2>1 DEF Range
  <2>3. AllWhole(output[m], Parts)
    BY WholeNow DEF MergerInv, WholeAt
  <2> QED BY <2>2, <2>3 DEF AllWhole
<1> QED BY <1>1, MergerInvariant, PTL
=============================================================================
